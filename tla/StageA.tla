------------------------------- MODULE StageA -------------------------------
(***************************************************************************)
(* Stage A and the enrichment of stage B for one observation: decoding and *)
(* validation (schema.go), normalization (normalize.go), the chain of      *)
(* transform scripts (scripting/contracts.go), and the inventory context   *)
(* and enricher scripts that stage B adds (enrich.go, contracts.go).       *)
(*                                                                         *)
(* An observation is reduced to what the checks look at: ident stands for  *)
(* the six fields that carry idempotency, tracing and routing; a value is  *)
(* a number, boolean or string; metadata is the set of its keys.  What a   *)
(* script does is an input: it ends with an error, or returns a value      *)
(* computed from the observation it was given.                             *)
(***************************************************************************)
EXTENDS Integers, Sequences, SequencesExt, FiniteSets

CONSTANTS
    MaxMetadata,   \* Limits.MaxMetadata
    Metrics,       \* metric names the pattern accepts
    Mappings       \* [raw metric -> mapping], the normalization table

Num(n)  == [type |-> "number", v |-> n]
Bool(b) == [type |-> "bool", v |-> b]
Str(s)  == [type |-> "string", v |-> s]
NoValue == [type |-> "nil", v |-> 0]
Error   == [type |-> "error", v |-> 0]

-----------------------------------------------------------------------------
(* schema.go                                                               *)

\* Validate and checkMap.
Valid(o) ==
    /\ o.ident # "" /\ o.metric \in Metrics
    /\ o.value.type \in {"number", "bool", "string"}
    /\ ~o.future
    /\ Cardinality(o.metadata) <= MaxMetadata

-----------------------------------------------------------------------------
(* normalize.go                                                            *)

\* Parse: what a mapping needs.
ValidMapping(m) ==
    /\ m.metric \in Metrics
    /\ m.kind \in {"identity", "scale", "bool", "enum"}
    /\ m.kind = "scale" => m.factor # 0
    /\ m.kind = "bool" => m.true # {}
    /\ m.kind = "enum" => DOMAIN m.map # {}

ASSUME StageAAssumption ==
    /\ MaxMetadata \in Nat /\ "Not A Metric" \notin Metrics
    /\ \A raw \in DOMAIN Mappings : ValidMapping(Mappings[raw])

\* convert: Error for a value the kind cannot convert.
Convert(m, val) ==
    CASE m.kind = "identity"                                -> val
      [] m.kind = "bool" /\ val.type = "bool"               -> val
      [] m.kind = "scale" /\ val.type = "number"            -> Num(val.v * m.factor)
      [] m.kind = "bool" /\ val.type = "number"             -> Bool(val.v \in m.true)
      [] m.kind = "enum" /\ val.type = "number" /\ val.v \in DOMAIN m.map -> Str(m.map[val.v])
      [] OTHER                                              -> Error

\* Normalize: a metric without a mapping passes through unchanged; with one,
\* unlisted labels are dropped and the raw name and unit are noted.
Normalize(o) ==
    IF o.metric \notin DOMAIN Mappings THEN o
    ELSE LET m == Mappings[o.metric]
         IN  [o EXCEPT !.metric = m.metric, !.value = Convert(m, o.value),
                       !.labels = IF DOMAIN m.labels = {} THEN @
                                  ELSE { m.labels[l] : l \in @ \cap DOMAIN m.labels },
                       !.metadata = @ \cup {"raw_metric"} \cup m.unit]

-----------------------------------------------------------------------------
(* contracts.go                                                            *)

\* matches: an empty list is every metric.
Handles(script, metric) == script.metrics = {} \/ metric \in script.metrics

Returns(o) == [kind |-> "observation", o |-> o]
Ends(kind) == [kind |-> kind, o |-> kind]

\* What a script does with the observation it is given: its author's choice.
\* It throws, is not active any more, or the platform cannot run it; it
\* returns null, something else, or an observation with one field changed.
Ran(does, o) ==
    CASE does \in {"throw", "inactive", "saturated", "null", "garbage"} -> Ends(does)
      [] does = "rename"   -> Returns([o EXCEPT !.metric = "m2"])
      [] does = "misname"  -> Returns([o EXCEPT !.metric = "Not A Metric"])
      [] does = "steal"    -> Returns([o EXCEPT !.ident = "other"])
      [] does = "restamp"  -> Returns([o EXCEPT !.received = "later"])
      [] does = "adjust"   -> Returns([o EXCEPT !.value = Num(9)])
      [] does = "annotate" -> Returns([o EXCEPT !.metadata = @ \cup {"note"}])

SameIdentity(a, b) == a.ident = b.ident /\ a.received = b.received

\* Mutated: the result is valid, and nobody looks at what it changed.
AcceptsAnyValid(before, r) == r.kind = "observation" /\ Valid(r.o)

\* decodeTransform: a valid observation with the same identity.
AcceptsTransform(before, r) == r.kind = "observation" /\ Valid(r.o) /\ SameIdentity(before, r.o)

\* decodeEnrich: a valid observation with nothing but other metadata.
AcceptsEnrich(before, r) ==
    r.kind = "observation" /\ Valid(r.o) /\ [r.o EXCEPT !.metadata = before.metadata] = before

Going(o) == [status |-> "ok", o |-> o]

\* One script of Transform: a platform error ends the chain for a retry, null
\* drops, any other failure continues with what came before the script.
TransformStep(acc, script) ==
    LET r == Ran(script.does, acc.o)
    IN  IF acc.status # "ok" \/ ~Handles(script, acc.o.metric) THEN acc
        ELSE CASE r.kind = "saturated"           -> [acc EXCEPT !.status = "retry"]
               [] r.kind = "null"                -> [acc EXCEPT !.status = "dropped"]
               [] AcceptsTransform(acc.o, r)     -> Going(r.o)
               [] OTHER                          -> acc

Transform(scripts, o) == FoldLeft(TransformStep, Going(o), scripts)

\* Enrich: null is one more failure.
EnrichStep(acc, script) ==
    LET r == Ran(script.does, acc.o)
    IN  IF acc.status # "ok" \/ ~Handles(script, acc.o.metric) THEN acc
        ELSE CASE r.kind = "saturated"        -> [acc EXCEPT !.status = "retry"]
               [] AcceptsEnrich(acc.o, r)     -> Going(r.o)
               [] OTHER                       -> acc

-----------------------------------------------------------------------------
(* pipeline.go and enrich.go                                               *)

Stamped(o) == [o EXCEPT !.received = IF @ = "" THEN "now" ELSE @]

\* NormalizeMessage: poison is dead-lettered, a retry comes again.
NormalizeMessage(raw, scripts) ==
    LET norm == Normalize(Stamped(raw))
        t    == Transform(scripts, norm)
    IN  IF ~Valid(raw) \/ norm.value = Error THEN [status |-> "poison", o |-> raw]
        ELSE IF t.status # "ok" THEN [status |-> t.status, o |-> norm]
        ELSE IF ~Valid(t.o) THEN [status |-> "poison", o |-> raw]
        ELSE t

\* Enricher.Enrich and Extensions.Enrich: a device that is not registered is
\* poison, a disabled one drops its observations.
Enrich(o, dev, scripts) ==
    IF ~dev.known THEN [status |-> "poison", o |-> o]
    ELSE IF ~dev.enabled THEN [status |-> "dropped", o |-> o]
    ELSE FoldLeft(EnrichStep, Going([o EXCEPT !.metadata = @ \cup dev.context]), scripts)
=============================================================================
