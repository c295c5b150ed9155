------------------------------ MODULE Scripting ------------------------------
(***************************************************************************)
(* The scripting subsystem (internal/scripting): the registry of scripts,  *)
(* the watcher that reloads changed files, the pool of interpreters and    *)
(* the callers that run scripts through the service and record how the     *)
(* runs ended.                                                             *)
(*                                                                         *)
(* A registry operation holds the registry's lock and is one step.  What   *)
(* happens between two of them is interleaved: a reload reads the files,   *)
(* swaps the table and checks the metadata in separate steps; a worker     *)
(* reads the generation, then the programs; a caller looks up the script,  *)
(* queues a job, gets its reply and records the result.                    *)
(***************************************************************************)
EXTENDS Naturals, Sequences, FiniteSets

CONSTANTS
    Scripts,    \* script keys (kind/id): the files that may exist
    Good,       \* source texts that load and whose functions may be called
    Broken,     \* sources Validate rejects: syntax, missing exports
    Throws,     \* sources that compile, and whose top level fails when run
    BadMeta,    \* sources that load, and whose meta the service rejects
    SwitchedOff,\* scripts disabled in configuration
    Workers, Callers,
    QueueSize, Threshold,
    MaxEdits,   \* bound: how often a file changes
    MaxToggles  \* bound: how often the operator switch is used

Sources == Good \cup Broken \cup Throws \cup BadMeta
Absent  == "absent"
NoJob   == "nobody"

ASSUME ScriptingAssumption ==
    /\ IsFiniteSet(Scripts) /\ SwitchedOff \subseteq Scripts
    /\ Absent \notin Sources /\ NoJob \notin Callers
    /\ Broken \cap (Good \cup Throws \cup BadMeta) = {}
    /\ Throws \cap (Good \cup BadMeta) = {} /\ Good \cap BadMeta = {}
    /\ QueueSize \in Nat \ {0} /\ Threshold \in Nat \ {0}
    /\ MaxEdits \in Nat /\ MaxToggles \in Nat

VARIABLES
    files,    \* the script directory: [Scripts -> Sources or Absent]
    edits,    \* number of changes to it: what a signature tells apart
    reg,      \* Registry.scripts
    gen,      \* Registry.gen
    watch,    \* the watcher: its phase, last signature and reload in progress
    queue,    \* Pool.jobs: callers whose job waits
    worker,   \* each worker's interpreter and the job it runs
    caller,   \* each caller's invocation
    toggles,  \* uses of the operator switch
    record,   \* history: results since the script last started afresh
    closed    \* Pool.closed

vars == <<files, edits, reg, gen, watch, queue, worker, caller, toggles, record, closed>>

Statuses == {"active", "disabled", "quarantined", "failed"}
NoEntry  == [status |-> "none", hash |-> Absent, program |-> FALSE, streak |-> 0]
Idle     == [phase |-> "idle", key |-> "", reply |-> ""]

\* loadFile and Validate: the entry a scanned file gets.
LoadFile(s, src) ==
    LET status == IF s \in SwitchedOff THEN "disabled"
                  ELSE IF src \in Broken THEN "failed" ELSE "active"
    IN  IF src = Absent THEN NoEntry
        ELSE [status |-> status, hash |-> src, program |-> status = "active", streak |-> 0]

\* Mutated: a reload starts every script afresh.
MergedForgets(old, new) == new

\* Reload under the lock: an unchanged source keeps its failures and quarantine.
Merged(old, new) ==
    IF new.status = "active" /\ old.hash = new.hash
    THEN [new EXCEPT !.streak = old.streak,
                     !.status = IF old.status = "quarantined" THEN "quarantined" ELSE "active"]
    ELSE new

Present(e)  == e.status # "none"
Fresh(s, e) == ~Present(reg[s]) \/ reg[s].hash # e.hash

\* Programs: what a worker loads.
Programs == [s \in Scripts |-> IF reg[s].status = "active" /\ reg[s].program
                               THEN reg[s].hash ELSE Absent]

MetaRejected(src) == src \in Throws \cup BadMeta
Checked(e) == IF e.status = "active" /\ MetaRejected(e.hash) THEN [e EXCEPT !.status = "failed"] ELSE e

\* Mutated: the status changes and workers are not told.
MarkFailedQuietly(s) ==
    /\ reg' = [reg EXCEPT ![s].status = IF @ = "none" THEN @ ELSE "failed"]
    /\ UNCHANGED gen

\* MarkFailed.
MarkFailed(s) ==
    IF reg[s].status = "none" THEN UNCHANGED <<reg, gen>>
    ELSE /\ reg' = [reg EXCEPT ![s].status = "failed"]
         /\ gen' = gen + 1

(***************************************************************************)
(* The script directory and the operator.                                  *)
(***************************************************************************)
EditFile(s, src) ==
    /\ edits < MaxEdits /\ files[s] # src
    /\ files' = [files EXCEPT ![s] = src]
    /\ edits' = edits + 1
    /\ UNCHANGED <<reg, gen, watch, queue, worker, caller, toggles, record, closed>>

\* SetEnabled: the switch changes nothing for an unknown script or one that
\* has no program.
SetEnabled(s, on) ==
    /\ toggles < MaxToggles /\ reg[s].program
    /\ IF on THEN reg[s].status # "active" ELSE reg[s].status = "active"
    /\ reg' = [reg EXCEPT ![s].status = IF on THEN "active" ELSE "disabled",
                          ![s].streak = IF on THEN 0 ELSE @]
    /\ gen' = gen + 1
    /\ record' = [record EXCEPT ![s] = IF on THEN <<>> ELSE @]
    /\ toggles' = toggles + 1
    /\ UNCHANGED <<files, edits, watch, queue, worker, caller, closed>>

(***************************************************************************)
(* The watcher: Service.Watch and Service.Reload.                          *)
(***************************************************************************)
WatchStays == UNCHANGED <<files, edits, queue, worker, caller, toggles, closed>>

\* Watch begins with the directory as it is then, not as New loaded it.
StartWatch ==
    /\ watch.phase = "off"
    /\ watch' = [watch EXCEPT !.phase = "idle", !.sig = edits, !.first = edits]
    /\ UNCHANGED <<reg, gen, record>> /\ WatchStays

\* A tick that finds another signature: remember it, then reload.
Look ==
    /\ watch.phase = "idle" /\ edits # watch.sig
    /\ watch' = [watch EXCEPT !.phase = "scan", !.sig = edits]
    /\ UNCHANGED <<reg, gen, record>> /\ WatchStays

\* Registry.Reload reads and compiles the files before it takes the lock ...
Scan ==
    /\ watch.phase = "scan"
    /\ watch' = [watch EXCEPT !.phase = "swap", !.found = files]
    /\ UNCHANGED <<reg, gen, record>> /\ WatchStays

\* Mutated: the signature is taken when the reload is done.
SwapRemembers ==
    /\ watch.phase = "swap"
    /\ reg' = [s \in Scripts |-> Merged(reg[s], LoadFile(s, watch.found[s]))]
    /\ gen' = gen + 1
    /\ record' = [s \in Scripts |-> IF Fresh(s, LoadFile(s, watch.found[s])) THEN <<>> ELSE record[s]]
    /\ watch' = [watch EXCEPT !.phase = "list", !.found = [s \in Scripts |-> Absent], !.sig = edits]
    /\ WatchStays

\* ... and replaces the table under it.
Swap ==
    /\ watch.phase = "swap"
    /\ reg' = [s \in Scripts |-> Merged(reg[s], LoadFile(s, watch.found[s]))]
    /\ gen' = gen + 1
    /\ record' = [s \in Scripts |-> IF Fresh(s, LoadFile(s, watch.found[s])) THEN <<>> ELSE record[s]]
    /\ watch' = [watch EXCEPT !.phase = "list", !.found = [s \in Scripts |-> Absent]]
    /\ WatchStays

ListActive ==
    /\ watch.phase = "list"
    /\ LET todo == { s \in Scripts : reg[s].status = "active" /\ reg[s].program }
       IN  watch' = [watch EXCEPT !.phase = IF todo = {} THEN "idle" ELSE "check", !.todo = todo]
    /\ UNCHANGED <<reg, gen, record>> /\ WatchStays

\* ReadExport, the checks on meta, and MarkFailed or SetMeta for one script.
CheckMeta(s) ==
    /\ watch.phase = "check" /\ s \in watch.todo
    /\ IF MetaRejected(reg[s].hash) THEN MarkFailed(s) ELSE UNCHANGED <<reg, gen>>
    /\ LET todo == watch.todo \ {s}
       IN  watch' = [watch EXCEPT !.phase = IF todo = {} THEN "idle" ELSE "check", !.todo = todo]
    /\ UNCHANGED record /\ WatchStays

Watcher == StartWatch \/ Look \/ Scan \/ Swap \/ ListActive \/ \E s \in Scripts : CheckMeta(s)

(***************************************************************************)
(* Callers: Service.CallChecked and Pool.Call.                             *)
(***************************************************************************)
CallStays == UNCHANGED <<files, edits, watch, toggles, closed>>

\* Get refuses a script that is not active (ErrNotActive); otherwise the job is
\* queued, or the caller waits because the channel is full.
Begin(c, s) ==
    /\ caller[c].phase = "idle" /\ ~closed
    /\ reg[s].status = "active"
    /\ LET room == Len(queue) < QueueSize
       IN  /\ caller' = [caller EXCEPT ![c] = [Idle EXCEPT !.key = s,
                             !.phase = IF room THEN "queued" ELSE "waiting"]]
           /\ queue' = IF room THEN Append(queue, c) ELSE queue
    /\ UNCHANGED <<reg, gen, worker, record>> /\ CallStays

Enqueue(c) ==
    /\ caller[c].phase = "waiting" /\ Len(queue) < QueueSize
    /\ caller' = [caller EXCEPT ![c].phase = "queued"]
    /\ queue' = Append(queue, c)
    /\ UNCHANGED <<reg, gen, worker, record>> /\ CallStays

\* No free slot within QueueWait, or the caller's context ended: a platform
\* error, which finish does not record.
GiveUp(c) ==
    /\ caller[c].phase = "waiting"
    /\ caller' = [caller EXCEPT ![c] = Idle]
    /\ UNCHANGED <<reg, gen, queue, worker, record>> /\ CallStays

\* Mutated: a run that returned counts as a success before its result is checked.
RecordedTwice(e, ok) ==
    LET n == IF ok THEN 0 ELSE 1
    IN  [e EXCEPT !.streak = n,
                  !.status = IF @ = "active" /\ n >= Threshold THEN "quarantined" ELSE @]

\* RecordResult for a success or a failure of the script.
Recorded(e, ok) ==
    LET n == IF ok THEN 0 ELSE e.streak + 1
    IN  [e EXCEPT !.streak = n,
                  !.status = IF @ = "active" /\ n >= Threshold THEN "quarantined" ELSE @]

LastOf(s, r) == LET all == Append(record[s], r)
                IN  SubSeq(all, IF Len(all) > Threshold THEN 2 ELSE 1, Len(all))

\* The contract check of CallChecked and finish: a result that ran but breaks
\* the contract is a failure, a platform error is not recorded, and a script
\* that disappeared is ignored.
Finish(c, contract) ==
    LET s  == caller[c].key
        ok == caller[c].reply = "ok" /\ contract
        e  == Recorded(reg[s], ok)
    IN  /\ caller[c].phase = "replied"
        /\ contract \/ caller[c].reply = "ok"
        /\ caller' = [caller EXCEPT ![c] = Idle]
        /\ IF caller[c].reply = "platform" \/ ~Present(reg[s])
           THEN UNCHANGED <<reg, gen, record>>
           ELSE /\ reg' = [reg EXCEPT ![s] = e]
                /\ gen' = IF e.status # reg[s].status THEN gen + 1 ELSE gen
                /\ record' = [record EXCEPT ![s] = LastOf(s,
                       IF ok THEN "ok" ELSE IF reg[s].status = "active" THEN "fail" ELSE "late")]
        /\ UNCHANGED <<queue, worker>> /\ CallStays

(***************************************************************************)
(* Workers: Pool.worker, run, build, load and call.                        *)
(***************************************************************************)
WorkStays == UNCHANGED <<files, edits, reg, gen, watch, toggles, record, closed>>

\* The next job; an interpreter that is missing, dirty or of another generation
\* is rebuilt, beginning with the generation the registry has now.
Take(w) ==
    LET stale == ~worker[w].built \/ worker[w].dirty \/ worker[w].gen # gen
    IN  /\ worker[w].phase = "idle" /\ queue # <<>>
        /\ worker' = [worker EXCEPT ![w].job = Head(queue),
                                    ![w].phase = IF stale THEN "build" ELSE "run",
                                    ![w].gen = IF stale THEN gen ELSE @]
        /\ queue' = Tail(queue)
        /\ UNCHANGED caller /\ WorkStays

\* The active programs are loaded; one whose top level fails leaves a load
\* error, and if it hit the deadline the interpreter is dirty again.
Build(w, hung) ==
    /\ worker[w].phase = "build"
    /\ hung => \E s \in Scripts : Programs[s] \in Throws
    /\ worker' = [worker EXCEPT ![w].phase = "run", ![w].built = TRUE, ![w].dirty = hung,
                                ![w].exports = Programs]
    /\ UNCHANGED <<queue, caller>> /\ WorkStays

\* How a job may end: a script that is not loaded, or failed to load, fails;
\* a loaded one returns, throws, hits its deadline or panics (which leaves the
\* interpreter dirty), or is stopped because the caller's context ended.
Outcomes(src) ==
    IF src \in Good \cup BadMeta
    THEN { [reply |-> "ok", dirty |-> FALSE], [reply |-> "fail", dirty |-> FALSE],
           [reply |-> "fail", dirty |-> TRUE], [reply |-> "platform", dirty |-> TRUE] }
    ELSE { [reply |-> "fail", dirty |-> FALSE] }

\* Mutated: the job of a caller that went away gets no reply.
RunUnanswered(w, o) ==
    LET c == worker[w].job
    IN  /\ worker[w].phase = "run" /\ o \in Outcomes(worker[w].exports[caller[c].key])
        /\ worker' = [worker EXCEPT ![w].phase = "idle", ![w].job = NoJob, ![w].dirty = @ \/ o.dirty]
        /\ caller' = IF o.reply = "platform" THEN caller
                     ELSE [caller EXCEPT ![c].phase = "replied", ![c].reply = o.reply]
        /\ UNCHANGED queue /\ WorkStays

Run(w, o) ==
    LET c == worker[w].job
    IN  /\ worker[w].phase = "run" /\ o \in Outcomes(worker[w].exports[caller[c].key])
        /\ worker' = [worker EXCEPT ![w].phase = "idle", ![w].job = NoJob, ![w].dirty = @ \/ o.dirty]
        /\ caller' = [caller EXCEPT ![c].phase = "replied", ![c].reply = o.reply]
        /\ UNCHANGED queue /\ WorkStays

\* The process stops: the pipeline's workers, the callers, have returned
\* before the deferred Close ends the pool.
Close ==
    /\ ~closed /\ \A c \in Callers : caller[c].phase = "idle"
    /\ closed' = TRUE
    /\ UNCHANGED <<files, edits, reg, gen, watch, queue, worker, caller, toggles, record>>

Init ==
    /\ files \in [Scripts -> Sources \cup {Absent}]
    /\ edits = 0
    /\ reg = [s \in Scripts |-> Checked(LoadFile(s, files[s]))]
    /\ gen = 1
    /\ watch = [phase |-> "off", sig |-> 0, first |-> 0,
                found |-> [s \in Scripts |-> Absent], todo |-> {}]
    /\ queue = <<>>
    /\ worker = [w \in Workers |-> [ phase |-> "idle", job |-> NoJob, built |-> FALSE, dirty |-> FALSE,
                                     gen |-> 0, exports |-> [s \in Scripts |-> Absent] ]]
    /\ caller = [c \in Callers |-> Idle]
    /\ toggles = 0
    /\ record = [s \in Scripts |-> <<>>]
    /\ closed = FALSE

Work(w) ==
    \/ Take(w)
    \/ \E hung \in BOOLEAN : Build(w, hung)
    \/ \E o \in Outcomes(CHOOSE g \in Good : TRUE) : Run(w, o)

Next ==
    \/ \E s \in Scripts, src \in Sources \cup {Absent} : EditFile(s, src)
    \/ \E s \in Scripts, on \in BOOLEAN : SetEnabled(s, on)
    \/ Watcher
    \/ \E c \in Callers, s \in Scripts : Begin(c, s)
    \/ \E c \in Callers : Enqueue(c) \/ GiveUp(c)
    \/ \E c \in Callers, contract \in BOOLEAN : Finish(c, contract)
    \/ \E w \in Workers : Work(w)
    \/ Close

Spec == Init /\ [][Next]_vars

------------------------------------------------------------------------------

Entry       == [status : Statuses \cup {"none"}, hash : Sources \cup {Absent}, program : BOOLEAN, streak : Nat]
Directory   == [Scripts -> Sources \cup {Absent}]
WatchState  == [phase : {"off", "idle", "scan", "swap", "list", "check"}, sig : 0..MaxEdits,
                first : 0..MaxEdits, found : Directory, todo : SUBSET Scripts]
Interpreter == [phase : {"idle", "build", "run"}, job : Callers \cup {NoJob}, built : BOOLEAN,
                dirty : BOOLEAN, gen : Nat, exports : Directory]
Invocation  == [phase : {"idle", "waiting", "queued", "replied"}, key : Scripts \cup {""},
                reply : {"", "ok", "fail", "platform"}]

\* A caller's job is either once in the channel or with exactly one worker.
JobsAreSingle ==
    /\ \A c \in Callers : caller[c].phase = "queued" <=>
           (\E i \in DOMAIN queue : queue[i] = c) \/ (\E w \in Workers : worker[w].job = c)
    /\ \A i, j \in DOMAIN queue : queue[i] = queue[j] => i = j
    /\ \A v, w \in Workers : worker[v].job = worker[w].job /\ worker[v].job # NoJob => v = w
    /\ \A i \in DOMAIN queue, w \in Workers : queue[i] # worker[w].job

\* Type invariant; the job channel never holds more than its capacity.
TypeOK ==
    /\ files \in Directory
    /\ edits \in 0..MaxEdits /\ toggles \in 0..MaxToggles /\ gen \in Nat
    /\ reg \in [Scripts -> Entry]
    /\ watch \in WatchState
    /\ queue \in Seq(Callers) /\ Len(queue) <= QueueSize
    /\ worker \in [Workers -> Interpreter] /\ caller \in [Callers -> Invocation]
    /\ JobsAreSingle
    /\ record \in [Scripts -> Seq({"ok", "fail", "late"})] /\ closed \in BOOLEAN

\* An interpreter that carries the registry's current generation holds exactly
\* the programs the registry serves now (pool.go, build and call): a worker
\* that skips the rebuild runs neither a replaced nor a quarantined script.
LoadedMatchesGeneration ==
    \A w \in Workers : worker[w].built /\ worker[w].phase # "build" /\ worker[w].gen = gen
                       => worker[w].exports = Programs

AllOf(q, S) == Len(q) = Threshold /\ \A i \in DOMAIN q : q[i] \in S

\* A script with Threshold failures in a row, reported while it was in
\* service, is out of service (RecordResult, CallChecked), unless a reload has
\* brought it back and has yet to check it.
FailuresQuarantine ==
    \A s \in Scripts : reg[s].status = "active" /\ watch.phase \notin {"list", "check"}
                       => ~AllOf(record[s], {"fail"})

\* A script is quarantined by the last of Threshold failures in a row and by
\* nothing else (RecordResult), and goes back into service only because its
\* source changed or an operator enabled it (Reload's merge, SetEnabled).
QuarantineIsEarnedAndKept ==
    [][\A s \in Scripts :
           /\ reg'[s].status = "quarantined" /\ reg[s].status # "quarantined"
                  => AllOf(record'[s], {"fail", "late"})
           /\ reg[s].status = "quarantined" /\ reg'[s].status = "active"
                  => reg'[s].hash # reg[s].hash \/ toggles' # toggles]_vars

Served == \A s \in Scripts : reg[s].hash = files[s] /\ (Present(reg[s]) <=> files[s] # Absent)

\* A watcher that is at rest and would find nothing new has served every change
\* made since its first look, also one made while a reload was reading the
\* files (Watch remembers the signature before it reloads, not after).
EditsAreServed ==
    watch.phase = "idle" /\ watch.sig = edits /\ edits # watch.first => Served
==============================================================================
