--------------------------- MODULE ScriptingProofs ---------------------------
(***************************************************************************)
(* The scripting subsystem, for every set of scripts, sources, workers and *)
(* callers, every queue size and threshold: types, jobs that are neither   *)
(* lost nor run twice, interpreters that match the registry, edits that    *)
(* are served, and a quarantine that is earned, kept and not missed.       *)
(***************************************************************************)
EXTENDS Scripting, TLAPS

\* A job is what a busy worker has, and a call that was begun has its script.
Busy ==
    /\ \A w \in Workers : worker[w].phase = "idle" <=> worker[w].job = NoJob
    /\ \A c \in Callers : caller[c].phase # "idle" => caller[c].key \in Scripts

\* Whether an entry has a program depends on its source alone, and an active
\* one has.
EntriesSound ==
    \A s \in Scripts :
        /\ reg[s].program <=> reg[s].hash \in Sources \ Broken /\ s \notin SwitchedOff
        /\ reg[s].status = "active" => reg[s].program
        /\ reg[s].status = "none" <=> reg[s].hash = Absent

\* No interpreter is ahead of the registry.
GenerationInv == LoadedMatchesGeneration /\ \A w \in Workers : worker[w].gen <= gen

\* What a reload in progress will have served if no further edit comes.
WatchInv ==
    /\ watch.first <= watch.sig /\ watch.sig <= edits
    /\ watch.sig = edits =>
          /\ watch.phase = "swap" => watch.found = files
          /\ watch.phase \in {"list", "check"} => Served
          /\ watch.phase = "idle" /\ watch.sig # watch.first => Served

\* The result that came m results before the last one.
Back(q, m) == q[Len(q) - m]

\* The streak is the number of failures the recorded results end with, as far
\* as the results go back.
StreakInv ==
    \A s \in Scripts :
        /\ Len(record[s]) <= Threshold
        /\ reg[s].program =>
              /\ \A m \in 0..(Threshold - 1) : m < reg[s].streak =>
                    m < Len(record[s]) /\ Back(record[s], m) # "ok"
              /\ \A n \in 1..Len(record[s]) :
                    (\A m \in 0..(n - 1) : Back(record[s], m) # "ok") => reg[s].streak >= n

\* A reload brings a script back whose failures would keep it out of service
\* only to check it again: its metadata is rejected, and the check is pending.
AwaitsCheck(s) == watch.phase = "list" \/ (watch.phase = "check" /\ s \in watch.todo)
QuarantineInv ==
    \A s \in Scripts : reg[s].program /\ AllOf(record[s], {"fail"}) =>
        \/ reg[s].status = "quarantined"
        \/ MetaRejected(reg[s].hash) /\ (reg[s].status = "active" => AwaitsCheck(s))

ScriptingInv == /\ TypeOK /\ Busy /\ EntriesSound /\ GenerationInv /\ WatchInv
                /\ StreakInv /\ QuarantineInv

------------------------------------------------------------------------------

(* Sequences: what the job channel and the recorded results need.          *)

LEMMA AppendShape ==
    ASSUME NEW S, NEW q \in Seq(S), NEW x \in S
    PROVE  /\ Append(q, x) \in Seq(S) /\ Len(Append(q, x)) = Len(q) + 1 /\ Len(q) \in Nat
           /\ \A i \in 1..Len(q) : Append(q, x)[i] = q[i]
           /\ Append(q, x)[Len(q) + 1] = x
  OBVIOUS

LEMMA TailShape ==
    ASSUME NEW S, NEW q \in Seq(S), q # <<>>
    PROVE  /\ Tail(q) \in Seq(S) /\ Head(q) = q[1] /\ Head(q) \in S
           /\ Len(q) \in Nat \ {0} /\ Len(Tail(q)) = Len(q) - 1
           /\ \A i \in 1..(Len(q) - 1) : Tail(q)[i] = q[i + 1]
  OBVIOUS

LEMMA DomainShape == ASSUME NEW S, NEW q \in Seq(S) PROVE DOMAIN q = 1..Len(q) /\ Len(q) \in Nat
  OBVIOUS

------------------------------------------------------------------------------
(* Types and jobs.                                                         *)

LEMMA Constants ==
    /\ NoEntry \in Entry /\ NoEntry.status = "none" /\ NoEntry.hash = Absent
    /\ Idle \in Invocation /\ Idle.phase = "idle"
    /\ Absent \notin Sources /\ NoJob \notin Callers
<1>1. NoEntry \in Entry /\ NoEntry.status = "none" /\ NoEntry.hash = Absent
  BY DEF NoEntry, Entry
<1>2. Idle \in Invocation /\ Idle.phase = "idle"
  BY DEF Idle, Invocation
<1> QED
  BY <1>1, <1>2, ScriptingAssumption, Zenon

\* A caller's job enters the channel.
LEMMA JobPushed ==
    ASSUME TypeOK, NEW c \in Callers, caller[c].phase # "queued",
           queue' = Append(queue, c), worker' = worker,
           caller'[c].phase = "queued", \A d \in Callers \ {c} : caller'[d] = caller[d]
    PROVE  JobsAreSingle' /\ queue' \in Seq(Callers) /\ Len(queue') = Len(queue) + 1
<1>1. JobsAreSingle /\ queue \in Seq(Callers)
  BY Zenon DEF TypeOK
<1>2. /\ queue' \in Seq(Callers) /\ Len(queue') = Len(queue) + 1 /\ Len(queue) \in Nat
      /\ \A i \in 1..Len(queue) : queue'[i] = queue[i]
      /\ queue'[Len(queue) + 1] = c
  BY <1>1, AppendShape
<1>3. DOMAIN queue = 1..Len(queue) /\ DOMAIN queue' = 1..(Len(queue) + 1)
  BY <1>1, <1>2, DomainShape
<1>4. \A i \in DOMAIN queue : queue[i] # c
  BY <1>1, Zenon DEF JobsAreSingle
<1>5. \A w \in Workers : worker[w].job # c
  BY <1>1, Zenon DEF JobsAreSingle
<1>6. DOMAIN queue' = DOMAIN queue \cup {Len(queue) + 1}
  BY <1>2, <1>3
<1>7. /\ \A i \in DOMAIN queue : queue'[i] = queue[i] /\ queue'[i] # c
      /\ Len(queue) + 1 \in DOMAIN queue'
  BY <1>2, <1>3, <1>4
<1>8. \A d \in Callers : (\E i \in DOMAIN queue' : queue'[i] = d)
                            <=> d = c \/ (\E i \in DOMAIN queue : queue[i] = d)
  BY <1>2, <1>6, <1>7, Zenon
<1>9. \A d \in Callers : caller'[d].phase = "queued" <=>
          (\E i \in DOMAIN queue' : queue'[i] = d) \/ (\E w \in Workers : worker'[w].job = d)
  <2>1. ASSUME NEW d \in Callers, d # c
        PROVE  caller'[d].phase = "queued" <=>
                  (\E i \in DOMAIN queue' : queue'[i] = d) \/ (\E w \in Workers : worker'[w].job = d)
    BY <1>1, <1>8, <2>1 DEF JobsAreSingle
  <2> QED
    BY <1>8, <2>1, Zenon
<1>10. \A i, j \in DOMAIN queue' : queue'[i] = queue'[j] => i = j
  BY <1>1, <1>2, <1>6, <1>7 DEF JobsAreSingle
<1>11. \A i \in DOMAIN queue', w \in Workers : queue'[i] # worker'[w].job
  BY <1>1, <1>2, <1>5, <1>6, <1>7 DEF JobsAreSingle
<1>12. \A v, w \in Workers : worker'[v].job = worker'[w].job /\ worker'[v].job # NoJob => v = w
  BY <1>1, Zenon DEF JobsAreSingle
<1> QED
  BY <1>2, <1>9, <1>10, <1>11, <1>12, Zenon DEF JobsAreSingle

\* An idle worker takes the first job of the channel.
LEMMA JobTaken ==
    ASSUME TypeOK, NEW w \in Workers, queue # <<>>, queue' = Tail(queue), caller' = caller,
           worker[w].job = NoJob, worker'[w].job = Head(queue),
           \A v \in Workers \ {w} : worker'[v] = worker[v]
    PROVE  /\ JobsAreSingle' /\ queue' \in Seq(Callers) /\ Len(queue') <= QueueSize
           /\ Head(queue) \in Callers
<1>1. JobsAreSingle /\ queue \in Seq(Callers) /\ Len(queue) <= QueueSize
  BY Zenon DEF TypeOK
<1>2. /\ queue' \in Seq(Callers) /\ Head(queue) = queue[1] /\ Head(queue) \in Callers
      /\ Len(queue) \in Nat \ {0} /\ Len(queue') = Len(queue) - 1
      /\ \A i \in 1..(Len(queue) - 1) : queue'[i] = queue[i + 1]
  BY <1>1, TailShape
<1>3. DOMAIN queue = 1..Len(queue) /\ DOMAIN queue' = 1..(Len(queue) - 1)
  BY <1>1, <1>2, DomainShape
<1>4. /\ 1 \in DOMAIN queue
      /\ \A i \in DOMAIN queue' : i + 1 \in DOMAIN queue /\ queue'[i] = queue[i + 1] /\ i + 1 # 1
      /\ \A j \in DOMAIN queue : j = 1 \/ \E i \in DOMAIN queue' : j = i + 1
  <2>1. ASSUME NEW j \in DOMAIN queue, j # 1 PROVE j - 1 \in DOMAIN queue' /\ j = (j - 1) + 1
    BY <1>2, <1>3, <2>1
  <2> QED
    BY <1>2, <1>3, <2>1
<1>5. \A i, j \in DOMAIN queue : queue[i] = queue[j] => i = j
  BY <1>1, Zenon DEF JobsAreSingle
<1>6. \A i \in DOMAIN queue' : queue'[i] # Head(queue)
  BY <1>2, <1>4, <1>5
<1>7. \A v \in Workers : worker[v].job # Head(queue)
  BY <1>1, <1>2, <1>4 DEF JobsAreSingle
<1>8. \A c \in Callers : (\E i \in DOMAIN queue : queue[i] = c)
                            <=> c = Head(queue) \/ (\E i \in DOMAIN queue' : queue'[i] = c)
  <2> SUFFICES ASSUME NEW c \in Callers
               PROVE  (\E i \in DOMAIN queue : queue[i] = c)
                         <=> c = Head(queue) \/ (\E i \in DOMAIN queue' : queue'[i] = c)
    OBVIOUS
  <2>1. ASSUME NEW i \in DOMAIN queue, queue[i] = c
        PROVE  c = Head(queue) \/ (\E j \in DOMAIN queue' : queue'[j] = c)
    BY <1>2, <1>4, <2>1, Zenon
  <2>2. ASSUME c = Head(queue) \/ (\E j \in DOMAIN queue' : queue'[j] = c)
        PROVE  \E i \in DOMAIN queue : queue[i] = c
    BY <1>2, <1>4, <2>2, Zenon
  <2> QED
    BY <2>1, <2>2, Zenon
<1>9. NoJob \notin Callers /\ Head(queue) # NoJob
  BY <1>2, Constants, Zenon
<1>10. \A c \in Callers : (\E v \in Workers : worker'[v].job = c)
                            <=> c = Head(queue) \/ (\E v \in Workers : worker[v].job = c)
  BY <1>9, Zenon
<1>11. \A c \in Callers : caller'[c].phase = "queued" <=>
          (\E i \in DOMAIN queue' : queue'[i] = c) \/ (\E v \in Workers : worker'[v].job = c)
  BY <1>1, <1>8, <1>10, Zenon DEF JobsAreSingle
<1>12. \A i, j \in DOMAIN queue' : queue'[i] = queue'[j] => i = j
  <2> SUFFICES ASSUME NEW i \in DOMAIN queue', NEW j \in DOMAIN queue', queue'[i] = queue'[j]
               PROVE  i = j
    BY Zenon
  <2>1. i + 1 = j + 1
    BY <1>4, <1>5
  <2> QED
    BY <1>2, <1>3, <2>1
<1>13. \A u, v \in Workers : worker'[u].job = worker'[v].job /\ worker'[u].job # NoJob => u = v
  BY <1>1, <1>7 DEF JobsAreSingle
<1>14. \A i \in DOMAIN queue', v \in Workers : queue'[i] # worker'[v].job
  BY <1>1, <1>4, <1>6 DEF JobsAreSingle
<1>15. Len(queue') <= QueueSize
  BY <1>1, <1>2, ScriptingAssumption
<1> QED
  BY <1>2, <1>11, <1>12, <1>13, <1>14, <1>15, Zenon DEF JobsAreSingle

\* A worker answers its job.
LEMMA JobAnswered ==
    ASSUME TypeOK, NEW w \in Workers, NEW c \in Callers, worker[w].job = c, queue' = queue,
           worker'[w].job = NoJob, \A v \in Workers \ {w} : worker'[v] = worker[v],
           caller'[c].phase # "queued", \A d \in Callers \ {c} : caller'[d] = caller[d]
    PROVE  JobsAreSingle'
<1>1. JobsAreSingle
  BY Zenon DEF TypeOK
<1>2. NoJob \notin Callers /\ queue \in Seq(Callers)
  BY Constants, Zenon DEF TypeOK
<1>3. \A i \in DOMAIN queue : queue[i] \in Callers
  BY <1>2
<1>4. c # NoJob
  BY <1>2, Zenon
<1>5. \A v \in Workers \ {w} : worker[v].job # c
  BY <1>1, <1>4, Zenon DEF JobsAreSingle
<1>6. \A i \in DOMAIN queue : queue[i] # c
  BY <1>1, Zenon DEF JobsAreSingle
<1>7. \A d \in Callers : (\E v \in Workers : worker'[v].job = d)
                            <=> d # c /\ (\E v \in Workers : worker[v].job = d)
  BY <1>2, <1>5, Zenon
<1>8. \A d \in Callers : caller'[d].phase = "queued" <=>
          (\E i \in DOMAIN queue' : queue'[i] = d) \/ (\E v \in Workers : worker'[v].job = d)
  <2>1. ASSUME NEW d \in Callers, d # c
        PROVE  caller'[d].phase = "queued" <=>
                  (\E i \in DOMAIN queue' : queue'[i] = d) \/ (\E v \in Workers : worker'[v].job = d)
    BY <1>1, <1>7, <2>1 DEF JobsAreSingle
  <2> QED
    BY <1>6, <1>7, <2>1, Zenon
<1>9. \A i, j \in DOMAIN queue' : queue'[i] = queue'[j] => i = j
  BY <1>1, Zenon DEF JobsAreSingle
<1>10. \A u, v \in Workers : worker'[u].job = worker'[v].job /\ worker'[u].job # NoJob => u = v
  BY <1>1 DEF JobsAreSingle
<1>11. \A i \in DOMAIN queue', v \in Workers : queue'[i] # worker'[v].job
  BY <1>1, <1>2, <1>3 DEF JobsAreSingle
<1> QED
  BY <1>8, <1>9, <1>10, <1>11, Zenon DEF JobsAreSingle

\* Jobs stay where they are while only calls that have none change.
LEMMA JobsSame ==
    ASSUME TypeOK, queue' = queue, worker' = worker,
           \A c \in Callers : caller'[c].phase = "queued" <=> caller[c].phase = "queued"
    PROVE  JobsAreSingle'
<1>1. JobsAreSingle
  BY Zenon DEF TypeOK
<1> QED
  BY <1>1, Zenon DEF JobsAreSingle

------------------------------------------------------------------------------
(* The registry's operators.                                               *)

LEMMA LoadFileShape ==
    ASSUME NEW s \in Scripts, NEW src \in Sources \cup {Absent}
    PROVE  /\ LoadFile(s, src) \in Entry
           /\ LoadFile(s, src).hash = src /\ LoadFile(s, src).streak = 0
           /\ LoadFile(s, src).status = "none" <=> src = Absent
           /\ LoadFile(s, src).program <=> src \in Sources \ Broken /\ s \notin SwitchedOff
           /\ LoadFile(s, src).status = "active" <=> LoadFile(s, src).program
           /\ LoadFile(s, src).status # "quarantined"
<1> DEFINE e == LoadFile(s, src)
<1>1. CASE src = Absent
  <2>1. e = NoEntry
    BY <1>1 DEF LoadFile
  <2>2. /\ e \in Entry /\ e.hash = src /\ e.streak = 0 /\ e.status = "none" /\ e.program = FALSE
    BY <1>1, <2>1 DEF NoEntry, Entry
  <2> HIDE DEF e
  <2>3. src \notin Sources
    BY <1>1, Constants, Zenon
  <2>4. e.status # "active" /\ e.status # "quarantined"
    BY <2>2
  <2> QED
    BY <1>1, <2>2, <2>3, <2>4, Zenon DEF e
<1>2. CASE src # Absent
  <2> DEFINE status == IF s \in SwitchedOff THEN "disabled"
                       ELSE IF src \in Broken THEN "failed" ELSE "active"
  <2>1. e = [status |-> status, hash |-> src, program |-> status = "active", streak |-> 0]
    BY <1>2, Zenon DEF LoadFile
  <2>2. /\ status \in {"disabled", "failed", "active"}
        /\ status = "active" <=> src \notin Broken /\ s \notin SwitchedOff
    BY Zenon
  <2> HIDE DEF status, e
  <2>3. /\ e \in Entry /\ e.hash = src /\ e.streak = 0 /\ e.status = status
        /\ e.program <=> status = "active"
    BY <2>1, <2>2 DEF Entry, Statuses
  <2>4. status # "none" /\ status # "quarantined"
    BY <2>2
  <2>5. src \in Sources
    BY <1>2, Zenon
  <2> QED
    BY <1>2, <2>2, <2>3, <2>4, <2>5, Zenon DEF e
<1> QED
  BY <1>1, <1>2, Zenon

LEMMA MergedShape ==
    ASSUME NEW old \in Entry, NEW new \in Entry
    PROVE  /\ Merged(old, new) \in Entry /\ Merged(old, new).hash = new.hash
           /\ Merged(old, new).program = new.program
           /\ \/ Merged(old, new).status = new.status
              \/ /\ new.status = "active" /\ old.status = "quarantined" /\ old.hash = new.hash
                 /\ Merged(old, new).status = "quarantined"
           /\ Merged(old, new).streak =
                 IF new.status = "active" /\ old.hash = new.hash THEN old.streak ELSE new.streak
           /\ old.status = "quarantined" /\ old.hash = new.hash
                 => Merged(old, new).status # "active"
<1> DEFINE e == Merged(old, new)
<1>1. CASE new.status = "active" /\ old.hash = new.hash
  <2> DEFINE status == IF old.status = "quarantined" THEN "quarantined" ELSE "active"
  <2>1. e = [new EXCEPT !.streak = old.streak, !.status = status]
    BY <1>1, Zenon DEF Merged
  <2>2. /\ status \in {"quarantined", "active"}
        /\ old.status = "quarantined" => status = "quarantined"
        /\ old.status # "quarantined" => status = "active"
    BY Zenon
  <2> HIDE DEF status, e
  <2>3. /\ e \in Entry /\ e.hash = new.hash /\ e.program = new.program
        /\ e.status = status /\ e.streak = old.streak
    BY <2>1, <2>2 DEF Entry, Statuses
  <2>4. "quarantined" # "active"
    OBVIOUS
  <2> QED
    BY <1>1, <2>2, <2>3, <2>4, Zenon DEF e
<1>2. CASE ~(new.status = "active" /\ old.hash = new.hash)
  <2>1. e = new
    BY <1>2, Zenon DEF Merged
  <2> HIDE DEF e
  <2> QED
    BY <1>2, <2>1, Zenon DEF e
<1> QED
  BY <1>1, <1>2, Zenon

LEMMA RecordedShape ==
    ASSUME NEW e \in Entry, NEW ok \in BOOLEAN
    PROVE  /\ Recorded(e, ok) \in Entry /\ Recorded(e, ok).hash = e.hash
           /\ Recorded(e, ok).program = e.program
           /\ Recorded(e, ok).streak = IF ok THEN 0 ELSE e.streak + 1
           /\ \/ Recorded(e, ok).status = e.status
              \/ /\ e.status = "active" /\ Recorded(e, ok).status = "quarantined"
                 /\ Recorded(e, ok).streak >= Threshold
           /\ e.status = "active" /\ Recorded(e, ok).streak >= Threshold
                 => Recorded(e, ok).status = "quarantined"
<1> DEFINE f == Recorded(e, ok)
           n == IF ok THEN 0 ELSE e.streak + 1
           status == IF e.status = "active" /\ n >= Threshold THEN "quarantined" ELSE e.status
<1>1. n \in Nat /\ e.status \in Statuses \cup {"none"}
  BY DEF Entry
<1>2. f = [e EXCEPT !.streak = n, !.status = status]
  BY DEF Recorded, Entry
<1> HIDE DEF n
<1>3. /\ status \in Statuses \cup {"none"}
      /\ status = e.status \/ (e.status = "active" /\ status = "quarantined" /\ n >= Threshold)
      /\ e.status = "active" /\ n >= Threshold => status = "quarantined"
  BY <1>1 DEF Statuses
<1> HIDE DEF status, f
<1>4. f \in Entry /\ f.hash = e.hash /\ f.program = e.program /\ f.streak = n /\ f.status = status
  BY <1>1, <1>2, <1>3 DEF Entry
<1> QED
  BY <1>3, <1>4, Zenon DEF f, n

LEMMA LastOfShape ==
    ASSUME NEW S, NEW s, record[s] \in Seq(S), Len(record[s]) <= Threshold, NEW x \in S
    PROVE  /\ LastOf(s, x) \in Seq(S) /\ Len(record[s]) \in Nat
           /\ Len(LastOf(s, x)) = IF Len(record[s]) < Threshold THEN Len(record[s]) + 1 ELSE Threshold
           /\ Back(LastOf(s, x), 0) = x
           /\ \A m \in 1..(Len(LastOf(s, x)) - 1) : Back(LastOf(s, x), m) = Back(record[s], m - 1)
<1> DEFINE q == record[s]
           all == Append(q, x)
           first == IF Len(all) > Threshold THEN 2 ELSE 1
           l == SubSeq(all, first, Len(all))
<1>1. /\ all \in Seq(S) /\ Len(all) = Len(q) + 1 /\ Len(q) \in Nat /\ q \in Seq(S)
      /\ \A i \in 1..Len(q) : all[i] = q[i]
      /\ all[Len(q) + 1] = x
  BY AppendShape
<1>2. LastOf(s, x) = l
  BY Zenon DEF LastOf
<1>3. Threshold \in Nat /\ Threshold >= 1
  BY ScriptingAssumption
<1> HIDE DEF all, q
<1>4. /\ first \in {1, 2} /\ first <= Len(all)
      /\ Len(all) - first + 1 = IF Len(q) < Threshold THEN Len(q) + 1 ELSE Threshold
  <2>1. Len(q) <= Threshold
    BY DEF q
  <2>2. CASE Len(q) < Threshold
    BY <1>1, <1>3, <2>2
  <2>3. CASE ~(Len(q) < Threshold)
    <3>1. Len(q) = Threshold
      BY <1>1, <1>3, <2>1, <2>3
    <3> QED
      BY <1>1, <1>3, <3>1
  <2> QED
    BY <2>2, <2>3, Zenon
<1> HIDE DEF first
<1>5. /\ l \in Seq(S) /\ Len(l) = Len(all) - first + 1
      /\ \A i \in 1..Len(l) : l[i] = all[first + i - 1]
  BY <1>1, <1>4
<1> HIDE DEF l
<1>6. Back(l, 0) = x
  BY <1>1, <1>4, <1>5 DEF Back
<1>7. ASSUME NEW m \in 1..(Len(l) - 1) PROVE Back(l, m) = Back(q, m - 1)
  <2>1. Len(l) - m \in 1..Len(l) /\ first + (Len(l) - m) - 1 = Len(q) - (m - 1)
    BY <1>1, <1>4, <1>5
  <2>2. Len(q) - (m - 1) \in 1..Len(q)
    BY <1>1, <1>4, <1>5
  <2> QED
    BY <1>1, <1>5, <2>1, <2>2 DEF Back
<1> QED
  BY <1>1, <1>2, <1>4, <1>5, <1>6, <1>7 DEF q

------------------------------------------------------------------------------
(* What a step does to the registry's entries.                             *)

Results == {"ok", "fail", "late"}

SameEntry(s) == reg'[s] = reg[s] /\ record'[s] = record[s]
TurnedOn(s)  == /\ reg[s].program /\ toggles' # toggles
                /\ reg'[s] = [reg[s] EXCEPT !.status = "active", !.streak = 0]
                /\ record'[s] = <<>>
TurnedOff(s) == /\ reg[s].status = "active" /\ record'[s] = record[s]
                /\ reg'[s] = [reg[s] EXCEPT !.status = "disabled"]
Reloaded(s)  == /\ watch.phase = "swap" /\ watch'.phase = "list"
                /\ reg'[s] = Merged(reg[s], LoadFile(s, watch.found[s]))
                /\ record'[s] = IF Fresh(s, LoadFile(s, watch.found[s])) THEN <<>> ELSE record[s]
FailedCheck(s) == /\ MetaRejected(reg[s].hash) /\ Present(reg[s]) /\ record'[s] = record[s]
                  /\ reg'[s] = [reg[s] EXCEPT !.status = "failed"]
Reported(s)  == \E ok \in BOOLEAN :
                   /\ Present(reg[s]) /\ reg'[s] = Recorded(reg[s], ok)
                   /\ record'[s] = LastOf(s, IF ok THEN "ok"
                                             ELSE IF reg[s].status = "active" THEN "fail" ELSE "late")

EntryStep(s) == \/ SameEntry(s) \/ TurnedOn(s) \/ TurnedOff(s) \/ Reloaded(s)
                \/ FailedCheck(s) \/ Reported(s)

\* Whenever what workers load changes, the generation goes up.
EntriesStep ==
    /\ reg' \in [Scripts -> Entry] /\ record' \in [Scripts -> Seq(Results)]
    /\ gen' \in Nat /\ gen <= gen' /\ (gen' = gen => Programs' = Programs)
    /\ \A s \in Scripts : EntryStep(s)

Regular == TypeOK /\ EntriesSound /\ \A s \in Scripts : Len(record[s]) <= Threshold

LEMMA EntriesSame ==
    ASSUME Regular, reg' = reg, record' = record, gen' = gen PROVE EntriesStep
<1>1. gen \in Nat /\ reg \in [Scripts -> Entry] /\ record \in [Scripts -> Seq(Results)]
  BY DEF Regular, TypeOK, Results
<1>2. gen <= gen
  BY <1>1
<1> QED
  BY <1>1, <1>2, Zenon DEF EntriesStep, EntryStep, SameEntry, Programs

\* The generation goes up.
LEMMA GenerationUp ==
    ASSUME Regular, gen' = gen + 1 PROVE gen' \in Nat /\ gen <= gen' /\ (gen' = gen => Programs' = Programs)
<1>1. gen \in Nat
  BY DEF Regular, TypeOK
<1> QED
  BY <1>1

LEMMA SetEnabledEntries ==
    ASSUME Regular, NEW s \in Scripts, NEW on \in BOOLEAN, SetEnabled(s, on) PROVE EntriesStep
<1> DEFINE e == [reg[s] EXCEPT !.status = IF on THEN "active" ELSE "disabled",
                               !.streak = IF on THEN 0 ELSE reg[s].streak]
           q == IF on THEN <<>> ELSE record[s]
<1>1. /\ reg \in [Scripts -> Entry] /\ record \in [Scripts -> Seq(Results)]
      /\ toggles \in 0..MaxToggles
  BY DEF Regular, TypeOK, Results
<1>2. /\ reg' = [reg EXCEPT ![s] = e] /\ record' = [record EXCEPT ![s] = q]
      /\ gen' = gen + 1 /\ toggles' = toggles + 1 /\ reg[s].program
      /\ ~on => reg[s].status = "active"
  BY <1>1 DEF SetEnabled
<1>3. reg[s] \in Entry
  BY <1>1
<1>4. e \in Entry /\ q \in Seq(Results)
  <2>1. q \in Seq(Results)
    BY <1>1
  <2>2. CASE on
    <3>1. e = [reg[s] EXCEPT !.status = "active", !.streak = 0]
      BY <2>2, Zenon
    <3> HIDE DEF e
    <3>2. e \in Entry
      BY <1>3, <3>1 DEF Entry, Statuses
    <3> QED
      BY <2>1, <3>2, Zenon
  <2>3. CASE ~on
    <3>1. e = [reg[s] EXCEPT !.status = "disabled", !.streak = reg[s].streak]
      BY <2>3, Zenon
    <3> HIDE DEF e
    <3>2. e \in Entry
      BY <1>3, <3>1 DEF Entry, Statuses
    <3> QED
      BY <2>1, <3>2, Zenon
  <2> QED
    BY <2>2, <2>3, Zenon
<1>5. toggles' # toggles
  BY <1>1, <1>2, ScriptingAssumption
<1>6. /\ on => e = [reg[s] EXCEPT !.status = "active", !.streak = 0] /\ q = <<>>
      /\ ~on => e = [reg[s] EXCEPT !.status = "disabled"] /\ q = record[s]
  BY <1>3 DEF Entry
<1> HIDE DEF e, q
<1>7. /\ reg' \in [Scripts -> Entry] /\ record' \in [Scripts -> Seq(Results)]
      /\ reg'[s] = e /\ record'[s] = q
      /\ \A r \in Scripts : r # s => reg'[r] = reg[r] /\ record'[r] = record[r]
  BY <1>1, <1>2, <1>4
<1>8. EntryStep(s)
  BY <1>2, <1>5, <1>6, <1>7, Zenon DEF EntryStep, TurnedOn, TurnedOff
<1>9. \A r \in Scripts : EntryStep(r)
  BY <1>7, <1>8, Zenon DEF EntryStep, SameEntry
<1> QED
  BY <1>2, <1>7, <1>9, GenerationUp, Zenon DEF EntriesStep

LEMMA SwapEntries == ASSUME Regular, Swap PROVE EntriesStep
<1>1. /\ reg \in [Scripts -> Entry] /\ record \in [Scripts -> Seq(Results)]
      /\ watch \in WatchState
  BY DEF Regular, TypeOK, Results
<1>2. /\ watch.phase = "swap" /\ gen' = gen + 1
      /\ reg' = [s \in Scripts |-> Merged(reg[s], LoadFile(s, watch.found[s]))]
      /\ record' = [s \in Scripts |-> IF Fresh(s, LoadFile(s, watch.found[s])) THEN <<>> ELSE record[s]]
      /\ watch' = [watch EXCEPT !.phase = "list", !.found = [s \in Scripts |-> Absent]]
  BY Zenon DEF Swap
<1>3. watch'.phase = "list"
  BY <1>1, <1>2 DEF WatchState
<1>4. \A s \in Scripts : watch.found[s] \in Sources \cup {Absent}
  BY <1>1 DEF WatchState, Directory
<1>5. \A s \in Scripts : Merged(reg[s], LoadFile(s, watch.found[s])) \in Entry
  <2> SUFFICES ASSUME NEW s \in Scripts PROVE Merged(reg[s], LoadFile(s, watch.found[s])) \in Entry
    OBVIOUS
  <2>1. reg[s] \in Entry /\ LoadFile(s, watch.found[s]) \in Entry
    BY <1>1, <1>4, LoadFileShape
  <2> QED
    BY <2>1, MergedShape
<1>6. reg' \in [Scripts -> Entry]
  BY <1>2, <1>5, Zenon
<1>7. record' \in [Scripts -> Seq(Results)]
  BY <1>1, <1>2
<1>8. \A s \in Scripts : Reloaded(s)
  BY <1>2, <1>3, Zenon DEF Reloaded
<1> QED
  BY <1>2, <1>6, <1>7, <1>8, GenerationUp, Zenon DEF EntriesStep, EntryStep

LEMMA CheckMetaEntries ==
    ASSUME Regular, NEW s \in Scripts, CheckMeta(s) PROVE EntriesStep
<1>1. /\ reg \in [Scripts -> Entry] /\ record \in [Scripts -> Seq(Results)]
  BY DEF Regular, TypeOK, Results
<1>2. record' = record
  BY Zenon DEF CheckMeta
<1>3. CASE reg' = reg /\ gen' = gen
  BY <1>2, <1>3, EntriesSame, Zenon
<1>4. CASE ~(reg' = reg /\ gen' = gen)
  <2> DEFINE e == [reg[s] EXCEPT !.status = "failed"]
  <2>1. /\ MetaRejected(reg[s].hash) /\ Present(reg[s])
        /\ reg' = [reg EXCEPT ![s] = e] /\ gen' = gen + 1
    BY <1>4, Zenon DEF CheckMeta, MarkFailed, Present
  <2>2. e \in Entry
    BY <1>1 DEF Entry, Statuses
  <2> HIDE DEF e
  <2>3. /\ reg' \in [Scripts -> Entry] /\ reg'[s] = e
        /\ \A r \in Scripts : r # s => reg'[r] = reg[r]
    BY <1>1, <2>1, <2>2
  <2>4. EntryStep(s)
    BY <1>2, <2>1, <2>3, Zenon DEF EntryStep, FailedCheck, e
  <2>5. \A r \in Scripts : EntryStep(r)
    BY <1>2, <2>3, <2>4, Zenon DEF EntryStep, SameEntry
  <2> QED
    BY <1>1, <1>2, <2>1, <2>3, <2>5, GenerationUp, Zenon DEF EntriesStep
<1> QED
  BY <1>3, <1>4, Zenon

LEMMA FinishEntries ==
    ASSUME Regular, Busy, NEW c \in Callers, NEW contract \in BOOLEAN, Finish(c, contract)
    PROVE  EntriesStep
<1> DEFINE s == caller[c].key
           ok == caller[c].reply = "ok" /\ contract
           e == Recorded(reg[s], ok)
           x == IF ok THEN "ok" ELSE IF reg[s].status = "active" THEN "fail" ELSE "late"
<1>1. /\ reg \in [Scripts -> Entry] /\ record \in [Scripts -> Seq(Results)] /\ gen \in Nat
  BY DEF Regular, TypeOK, Results
<1>2. s \in Scripts /\ reg[s] \in Entry
  <2>1. caller[c].phase = "replied" /\ "replied" # "idle"
    BY DEF Finish
  <2> QED
    BY <1>1, <2>1, Zenon DEF Busy
<1>3. CASE reg' = reg /\ gen' = gen /\ record' = record
  BY <1>3, EntriesSame, Zenon
<1>4. CASE ~(reg' = reg /\ gen' = gen /\ record' = record)
  <2>1. /\ Present(reg[s]) /\ reg' = [reg EXCEPT ![s] = e]
        /\ gen' = IF e.status # reg[s].status THEN gen + 1 ELSE gen
        /\ record' = [record EXCEPT ![s] = LastOf(s, x)]
    BY <1>4, Zenon DEF Finish
  <2>2. ok \in BOOLEAN
    OBVIOUS
  <2>3. e \in Entry /\ e.hash = reg[s].hash /\ e.program = reg[s].program
    <3> HIDE DEF ok, s
    <3> QED
      BY <1>2, <2>2, RecordedShape
  <2>4. x \in Results
    BY Zenon DEF Results
  <2>5. LastOf(s, x) \in Seq(Results)
    <3>1. record[s] \in Seq(Results) /\ Len(record[s]) <= Threshold
      BY <1>1, <1>2, Zenon DEF Regular
    <3> HIDE DEF s, x
    <3> QED
      BY <2>4, <3>1, LastOfShape
  <2>6. Reported(s)
    <3>1. reg'[s] = e /\ record'[s] = LastOf(s, x)
      BY <1>1, <1>2, <2>1
    <3> QED
      BY <2>1, <2>2, <3>1, Zenon DEF Reported
  <2> HIDE DEF e, s, x, ok
  <2>7. /\ reg' \in [Scripts -> Entry] /\ record' \in [Scripts -> Seq(Results)] /\ reg'[s] = e
        /\ \A r \in Scripts : r # s => reg'[r] = reg[r] /\ record'[r] = record[r]
    BY <1>1, <1>2, <2>1, <2>3, <2>5
  <2>8. gen' \in Nat /\ gen <= gen' /\ (gen' = gen => Programs' = Programs)
    <3>1. CASE gen' = gen + 1
      BY <3>1, GenerationUp, Zenon
    <3>2. CASE gen' = gen /\ e.status = reg[s].status
      <4>1. \A r \in Scripts : /\ reg'[r].status = reg[r].status /\ reg'[r].hash = reg[r].hash
                               /\ reg'[r].program = reg[r].program
        BY <2>3, <2>7, <3>2, Zenon
      <4>2. Programs' = Programs
        BY <4>1 DEF Programs
      <4> QED
        BY <1>1, <3>2, <4>2
    <3> QED
      BY <2>1, <3>1, <3>2, Zenon
  <2>9. \A r \in Scripts : EntryStep(r)
    BY <2>6, <2>7, Zenon DEF EntryStep, SameEntry
  <2> QED
    BY <2>7, <2>8, <2>9, Zenon DEF EntriesStep
<1> QED
  BY <1>3, <1>4, Zenon

------------------------------------------------------------------------------
(* What a step does to the pool and its callers.                           *)

WorkerStep(w) ==
    \/ /\ worker'[w].gen = worker[w].gen /\ worker'[w].exports = worker[w].exports
       /\ worker'[w].built = worker[w].built
       /\ worker'[w].phase # "build" => worker[w].phase # "build"
    \/ worker'[w].phase = "build" /\ worker'[w].gen = gen
    \/ worker'[w].gen = worker[w].gen /\ worker'[w].exports = Programs

PoolStep ==
    /\ queue' \in Seq(Callers) /\ Len(queue') <= QueueSize
    /\ worker' \in [Workers -> Interpreter] /\ caller' \in [Callers -> Invocation]
    /\ JobsAreSingle' /\ Busy'
    /\ \A w \in Workers : WorkerStep(w)

LEMMA PoolSame ==
    ASSUME TypeOK, Busy, queue' = queue, worker' = worker, caller' = caller PROVE PoolStep
<1>1. JobsAreSingle'
  BY JobsSame, Zenon
<1> QED
  BY <1>1, Zenon DEF TypeOK, Busy, PoolStep, WorkerStep

LEMMA CallerUpdate ==
    ASSUME TypeOK, NEW c \in Callers, NEW x \in Invocation, caller' = [caller EXCEPT ![c] = x]
    PROVE  /\ caller' \in [Callers -> Invocation] /\ caller'[c] = x
           /\ \A d \in Callers \ {c} : caller'[d] = caller[d]
<1>1. caller \in [Callers -> Invocation]
  BY DEF TypeOK
<1> QED
  BY <1>1

LEMMA WorkerUpdate ==
    ASSUME TypeOK, NEW w \in Workers, NEW x \in Interpreter, worker' = [worker EXCEPT ![w] = x]
    PROVE  /\ worker' \in [Workers -> Interpreter] /\ worker'[w] = x
           /\ \A v \in Workers \ {w} : worker'[v] = worker[v]
<1>1. worker \in [Workers -> Interpreter]
  BY DEF TypeOK
<1> QED
  BY <1>1

\* A call that has no job ends, or waits, or gets one.
LEMMA CallerPool ==
    ASSUME TypeOK, Busy, NEW c \in Callers, NEW x \in Invocation, caller[c].phase # "queued",
           caller' = [caller EXCEPT ![c] = x], worker' = worker,
           x.phase # "idle" => x.key \in Scripts,
           \/ x.phase # "queued" /\ queue' = queue
           \/ x.phase = "queued" /\ queue' = Append(queue, c) /\ Len(queue) < QueueSize
    PROVE  PoolStep
<1>1. /\ caller' \in [Callers -> Invocation] /\ caller'[c] = x
      /\ \A d \in Callers \ {c} : caller'[d] = caller[d]
  BY CallerUpdate, Zenon
<1>2. JobsAreSingle' /\ queue' \in Seq(Callers) /\ Len(queue') <= QueueSize
  <2>1. CASE x.phase # "queued" /\ queue' = queue
    <3>1. \A d \in Callers : caller'[d].phase = "queued" <=> caller[d].phase = "queued"
      BY <1>1, <2>1, Zenon
    <3> QED
      BY <2>1, <3>1, JobsSame, Zenon DEF TypeOK
  <2>2. CASE x.phase = "queued" /\ queue' = Append(queue, c) /\ Len(queue) < QueueSize
    <3>1. JobsAreSingle' /\ queue' \in Seq(Callers) /\ Len(queue') = Len(queue) + 1
      BY <1>1, <2>2, JobPushed, Zenon
    <3>2. Len(queue) \in Nat
      BY DEF TypeOK
    <3> QED
      BY <2>2, <3>1, <3>2, ScriptingAssumption
  <2> QED
    BY <2>1, <2>2, Zenon
<1>3. Busy'
  BY <1>1, Zenon DEF Busy
<1>4. worker' \in [Workers -> Interpreter] /\ \A w \in Workers : WorkerStep(w)
  BY Zenon DEF TypeOK, WorkerStep
<1> QED
  BY <1>1, <1>2, <1>3, <1>4, Zenon DEF PoolStep

LEMMA BeginPool ==
    ASSUME TypeOK, Busy, NEW c \in Callers, NEW s \in Scripts, Begin(c, s) PROVE PoolStep
<1> DEFINE room == Len(queue) < QueueSize
           x == [Idle EXCEPT !.key = s, !.phase = IF room THEN "queued" ELSE "waiting"]
<1>1. /\ caller' = [caller EXCEPT ![c] = x] /\ worker' = worker /\ caller[c].phase = "idle"
      /\ queue' = IF room THEN Append(queue, c) ELSE queue
  BY Zenon DEF Begin
<1>2. /\ x \in Invocation /\ x.key = s /\ x.phase = IF room THEN "queued" ELSE "waiting"
  BY DEF Idle, Invocation
<1> HIDE DEF x
<1>3. caller[c].phase # "queued"
  BY <1>1
<1>4. \/ x.phase # "queued" /\ queue' = queue
      \/ x.phase = "queued" /\ queue' = Append(queue, c) /\ room
  BY <1>1, <1>2
<1> QED
  BY <1>1, <1>2, <1>3, <1>4, CallerPool, Zenon

LEMMA EnqueuePool ==
    ASSUME TypeOK, Busy, NEW c \in Callers, Enqueue(c) PROVE PoolStep
<1> DEFINE x == [caller[c] EXCEPT !.phase = "queued"]
<1>1. /\ caller' = [caller EXCEPT ![c] = x] /\ worker' = worker /\ caller[c].phase = "waiting"
      /\ queue' = Append(queue, c) /\ Len(queue) < QueueSize
  BY Zenon DEF Enqueue
<1>2. caller[c] \in Invocation
  BY DEF TypeOK
<1>3. x \in Invocation /\ x.key = caller[c].key /\ x.phase = "queued"
  BY <1>2 DEF Invocation
<1>4. caller[c].phase # "queued" /\ caller[c].phase # "idle"
  BY <1>1
<1>5. x.key \in Scripts
  BY <1>3, <1>4, Zenon DEF Busy
<1> HIDE DEF x
<1> QED
  BY <1>1, <1>3, <1>4, <1>5, CallerPool, Zenon

LEMMA EndCallPool ==
    ASSUME TypeOK, Busy, NEW c \in Callers, caller[c].phase \in {"waiting", "replied"},
           caller' = [caller EXCEPT ![c] = Idle], worker' = worker, queue' = queue
    PROVE  PoolStep
<1>1. caller[c].phase # "queued" /\ Idle \in Invocation /\ Idle.phase = "idle" /\ "idle" # "queued"
  BY Constants
<1> QED
  BY <1>1, CallerPool, Zenon

LEMMA TakePool ==
    ASSUME TypeOK, Busy, NEW w \in Workers, Take(w) PROVE PoolStep
<1> DEFINE stale == ~worker[w].built \/ worker[w].dirty \/ worker[w].gen # gen
           phase == IF stale THEN "build" ELSE "run"
           g == IF stale THEN gen ELSE worker[w].gen
           x == [worker[w] EXCEPT !.job = Head(queue), !.phase = phase, !.gen = g]
<1>1. worker[w] \in Interpreter /\ gen \in Nat /\ worker \in [Workers -> Interpreter]
  BY DEF TypeOK
<1>2. /\ worker[w].phase = "idle" /\ queue # <<>> /\ queue' = Tail(queue) /\ caller' = caller
      /\ worker' = [worker EXCEPT ![w].job = Head(queue), ![w].phase = phase, ![w].gen = g]
  BY <1>1 DEF Take
<1>3. worker' = [worker EXCEPT ![w] = x]
  BY <1>1, <1>2
<1>4. Head(queue) \in Callers /\ phase \in {"build", "run"} /\ g \in Nat
  BY <1>1, <1>2 DEF TypeOK, Interpreter
<1>5. (phase = "build" /\ g = gen) \/ (phase = "run" /\ g = worker[w].gen)
  BY Zenon
<1> HIDE DEF phase, g
<1>6. /\ x \in Interpreter /\ x.job = Head(queue) /\ x.phase = phase /\ x.gen = g
      /\ x.exports = worker[w].exports /\ x.built = worker[w].built
  BY <1>1, <1>4 DEF Interpreter
<1> HIDE DEF x
<1>7. /\ worker' \in [Workers -> Interpreter] /\ worker'[w] = x
      /\ \A v \in Workers \ {w} : worker'[v] = worker[v]
  BY <1>3, <1>6, WorkerUpdate, Zenon
<1>8. worker[w].job = NoJob
  BY <1>2, Zenon DEF Busy
<1>9. JobsAreSingle' /\ queue' \in Seq(Callers) /\ Len(queue') <= QueueSize
  BY <1>2, <1>6, <1>7, <1>8, JobTaken, Zenon
<1>10. phase # "idle" /\ Head(queue) # NoJob /\ worker[w].phase # "build"
  BY <1>2, <1>4, Constants
<1>11. Busy'
  BY <1>2, <1>6, <1>7, <1>10, Zenon DEF Busy
<1>12. \A v \in Workers : WorkerStep(v)
  BY <1>5, <1>6, <1>7, <1>10, Zenon DEF WorkerStep
<1> QED
  BY <1>2, <1>7, <1>9, <1>11, <1>12, Zenon DEF PoolStep, TypeOK

LEMMA BuildPool ==
    ASSUME TypeOK, Busy, NEW w \in Workers, NEW hung \in BOOLEAN, Build(w, hung) PROVE PoolStep
<1> DEFINE x == [worker[w] EXCEPT !.phase = "run", !.built = TRUE, !.dirty = hung,
                                  !.exports = Programs]
<1>1. worker[w] \in Interpreter /\ worker \in [Workers -> Interpreter]
  BY DEF TypeOK
<1>2. /\ worker[w].phase = "build" /\ queue' = queue /\ caller' = caller
      /\ worker' = [worker EXCEPT ![w].phase = "run", ![w].built = TRUE, ![w].dirty = hung,
                                  ![w].exports = Programs]
  BY DEF Build
<1>3. Programs \in Directory
  BY DEF Programs, Directory, TypeOK, Entry
<1> HIDE DEF x
<1>4. worker' = [worker EXCEPT ![w] = x]
  BY <1>1, <1>2 DEF x
<1>5. /\ x \in Interpreter /\ x.job = worker[w].job /\ x.phase = "run"
      /\ x.gen = worker[w].gen /\ x.exports = Programs
  BY <1>1, <1>3 DEF Interpreter, x
<1>6. /\ worker' \in [Workers -> Interpreter] /\ worker'[w] = x
      /\ \A v \in Workers \ {w} : worker'[v] = worker[v]
  BY <1>4, <1>5, WorkerUpdate, Zenon
<1>7. worker[w].job # NoJob /\ "run" # "idle"
  <2>1. worker[w].phase # "idle"
    BY <1>2
  <2> QED
    BY <2>1 DEF Busy
<1>8. Busy'
  BY <1>2, <1>5, <1>6, <1>7, Zenon DEF Busy
<1>9. JobsAreSingle'
  <2>1. \A v \in Workers : worker'[v].job = worker[v].job
    BY <1>5, <1>6, Zenon
  <2>2. JobsAreSingle
    BY Zenon DEF TypeOK
  <2>3. \A d : (\E v \in Workers : worker'[v].job = d) <=> (\E v \in Workers : worker[v].job = d)
    BY <2>1, Zenon
  <2>4. ASSUME NEW u \in Workers, NEW v \in Workers, worker'[u].job = worker'[v].job,
               worker'[u].job # NoJob
        PROVE  u = v
    <3>1. worker[u].job = worker[v].job /\ worker[u].job # NoJob
      BY <2>1, <2>4, Zenon
    <3> QED
      BY <2>2, <3>1, Zenon DEF JobsAreSingle
  <2>5. \A i \in DOMAIN queue', v \in Workers : queue'[i] # worker'[v].job
    <3> SUFFICES ASSUME NEW i \in DOMAIN queue, NEW v \in Workers
                 PROVE  queue[i] # worker'[v].job
      BY <1>2, Zenon
    <3>1. queue[i] # worker[v].job
      BY <2>2, Zenon DEF JobsAreSingle
    <3> QED
      BY <2>1, <3>1, Zenon
  <2>6. \A d \in Callers : caller'[d].phase = "queued" <=>
           (\E i \in DOMAIN queue' : queue'[i] = d) \/ (\E v \in Workers : worker'[v].job = d)
    <3> SUFFICES ASSUME NEW d \in Callers
                 PROVE  caller[d].phase = "queued" <=>
                          (\E i \in DOMAIN queue : queue[i] = d) \/ (\E v \in Workers : worker'[v].job = d)
      BY <1>2, Zenon
    <3>1. caller[d].phase = "queued" <=>
             (\E i \in DOMAIN queue : queue[i] = d) \/ (\E v \in Workers : worker[v].job = d)
      BY <2>2, Zenon DEF JobsAreSingle
    <3> QED
      BY <2>3, <3>1, Zenon
  <2>7. \A i, j \in DOMAIN queue' : queue'[i] = queue'[j] => i = j
    BY <1>2, <2>2, Zenon DEF JobsAreSingle
  <2> QED
    BY <2>4, <2>5, <2>6, <2>7, Zenon DEF JobsAreSingle
<1>10. \A v \in Workers : WorkerStep(v)
  BY <1>5, <1>6, Zenon DEF WorkerStep
<1> QED
  BY <1>2, <1>6, <1>8, <1>9, <1>10, Zenon DEF PoolStep, TypeOK

LEMMA RunPool ==
    ASSUME TypeOK, Busy, NEW w \in Workers, NEW o, Run(w, o) PROVE PoolStep
<1> DEFINE c == worker[w].job
           x == [worker[w] EXCEPT !.phase = "idle", !.job = NoJob, !.dirty = worker[w].dirty \/ o.dirty]
           y == [caller[c] EXCEPT !.phase = "replied", !.reply = o.reply]
<1>1. worker[w] \in Interpreter /\ worker \in [Workers -> Interpreter]
      /\ caller \in [Callers -> Invocation]
  BY DEF TypeOK
<1>2. /\ worker[w].phase = "run" /\ queue' = queue
      /\ worker' = [worker EXCEPT ![w].phase = "idle", ![w].job = NoJob,
                                  ![w].dirty = worker[w].dirty \/ o.dirty]
      /\ caller' = [caller EXCEPT ![c].phase = "replied", ![c].reply = o.reply]
  BY <1>1 DEF Run
<1>3. o.reply \in {"ok", "fail", "platform"}
  BY DEF Run, Outcomes
<1>4. c \in Callers /\ worker[w].job # NoJob
  <2>1. worker[w].phase # "idle"
    BY <1>2
  <2>2. worker[w].job # NoJob
    BY <2>1, Zenon DEF Busy
  <2> QED
    BY <1>1, <2>2 DEF Interpreter
<1>5. worker' = [worker EXCEPT ![w] = x]
  BY <1>1, <1>2
<1>6. caller' = [caller EXCEPT ![c] = y]
  BY <1>1, <1>2, <1>4
<1>7. (worker[w].dirty \/ o.dirty) \in BOOLEAN
  OBVIOUS
<1>8. /\ x \in Interpreter /\ x.job = NoJob /\ x.phase = "idle"
      /\ x.gen = worker[w].gen /\ x.exports = worker[w].exports /\ x.built = worker[w].built
  BY <1>1, <1>7 DEF Interpreter
<1>9. caller[c] \in Invocation
  BY <1>1, <1>4, Zenon
<1>10. y \in Invocation /\ y.phase = "replied" /\ y.key = caller[c].key
  BY <1>3, <1>9 DEF Invocation
<1>11. caller[c].key \in Scripts
  <2>1. caller[c].phase = "queued"
    BY <1>4, Zenon DEF TypeOK, JobsAreSingle
  <2>2. caller[c].phase # "idle"
    BY <2>1
  <2> QED
    BY <1>4, <2>2, Zenon DEF Busy
<1> HIDE DEF x, y, c
<1>12. /\ worker' \in [Workers -> Interpreter] /\ worker'[w] = x
       /\ \A v \in Workers \ {w} : worker'[v] = worker[v]
  BY <1>5, <1>8, WorkerUpdate, Zenon
<1>13. /\ caller' \in [Callers -> Invocation] /\ caller'[c] = y
       /\ \A d \in Callers \ {c} : caller'[d] = caller[d]
  BY <1>4, <1>6, <1>10, CallerUpdate, Zenon
<1>14. caller'[c].phase # "queued"
  BY <1>10, <1>13
<1>15. JobsAreSingle'
  BY <1>2, <1>4, <1>8, <1>12, <1>13, <1>14, JobAnswered, Zenon DEF c
<1>16. Busy'
  <2>1. \A v \in Workers : worker'[v].phase = "idle" <=> worker'[v].job = NoJob
    BY <1>8, <1>12, Zenon DEF Busy
  <2>2. \A d \in Callers : caller'[d].phase # "idle" => caller'[d].key \in Scripts
    <3>1. caller'[c].key \in Scripts
      BY <1>10, <1>11, <1>13, Zenon
    <3>2. \A d \in Callers \ {c} : caller'[d].phase # "idle" => caller'[d].key \in Scripts
      BY <1>13, Zenon DEF Busy
    <3> QED
      BY <3>1, <3>2, Zenon
  <2> QED
    BY <2>1, <2>2, Zenon DEF Busy
<1>17. \A v \in Workers : WorkerStep(v)
  <2>1. worker[w].phase # "build"
    BY <1>2
  <2> QED
    BY <1>8, <1>12, <2>1, Zenon DEF WorkerStep
<1> QED
  BY <1>2, <1>12, <1>13, <1>15, <1>16, <1>17, Zenon DEF PoolStep, TypeOK

------------------------------------------------------------------------------
(* What a step does to the files and the watcher.                          *)

\* A script that waits for its check is checked before the watcher rests.
CheckStep(s) ==
    AwaitsCheck(s) /\ reg[s].program /\ reg[s].status = "active" /\ MetaRejected(reg[s].hash)
        => AwaitsCheck(s)' \/ reg'[s].status # "active"

WatchStep ==
    /\ files' \in Directory /\ edits' \in 0..MaxEdits /\ toggles' \in 0..MaxToggles
    /\ closed' \in BOOLEAN /\ watch' \in WatchState
    /\ WatchInv' /\ \A s \in Scripts : CheckStep(s)

\* Only a reload changes the source of an entry.
LEMMA SourceKept ==
    ASSUME Regular, NEW s \in Scripts, EntryStep(s), ~Reloaded(s)
    PROVE  /\ reg'[s].hash = reg[s].hash /\ reg'[s].program = reg[s].program
           /\ reg'[s].status = "none" <=> reg[s].status = "none"
<1>1. reg[s] \in Entry
  BY DEF Regular, TypeOK
<1>2. CASE SameEntry(s)
  BY <1>2, Zenon DEF SameEntry
<1>3. CASE TurnedOn(s)
  <2>1. reg[s].status # "none"
    BY <1>3, Constants, Zenon DEF TurnedOn, Regular, EntriesSound
  <2> QED
    BY <1>1, <1>3, <2>1 DEF TurnedOn, Entry
<1>4. CASE TurnedOff(s)
  BY <1>1, <1>4 DEF TurnedOff, Entry
<1>5. CASE FailedCheck(s)
  BY <1>1, <1>5 DEF FailedCheck, Present, Entry
<1>6. CASE Reported(s)
  <2>1. PICK ok \in BOOLEAN : Present(reg[s]) /\ reg'[s] = Recorded(reg[s], ok)
    BY <1>6, Zenon DEF Reported
  <2>2. /\ reg'[s].hash = reg[s].hash /\ reg'[s].program = reg[s].program
        /\ reg'[s].status = reg[s].status \/ reg'[s].status = "quarantined"
    BY <1>1, <2>1, RecordedShape
  <2>3. reg[s].status # "none" /\ "quarantined" # "none"
    BY <2>1 DEF Present
  <2> QED
    BY <2>2, <2>3, Zenon
<1> QED
  BY <1>2, <1>3, <1>4, <1>5, <1>6, Zenon DEF EntryStep

\* Nothing but a reload takes back what is served.
LEMMA ServedStays ==
    ASSUME Regular, EntriesStep, watch.phase # "swap" \/ watch'.phase # "list", files' = files, Served
    PROVE  Served'
<1>1. ASSUME NEW s \in Scripts
      PROVE  reg'[s].hash = reg[s].hash /\ (reg'[s].status = "none" <=> reg[s].status = "none")
  <2>1. EntryStep(s) /\ ~Reloaded(s)
    BY Zenon DEF EntriesStep, Reloaded
  <2> QED
    BY <2>1, SourceKept, Zenon
<1> QED
  BY <1>1, Zenon DEF Served, Present

\* Steps of everybody else leave the watcher alone.
LEMMA WatchSame ==
    ASSUME Regular, WatchInv, EntriesStep, files' = files, edits' = edits, watch' = watch
    PROVE  WatchInv' /\ \A s \in Scripts : CheckStep(s)
<1>1. \A s \in Scripts : CheckStep(s)
  BY Zenon DEF CheckStep, AwaitsCheck
<1>2. watch.phase # "swap" \/ watch'.phase # "list"
  <2>1. "swap" # "list"
    OBVIOUS
  <2> QED
    BY <2>1, Zenon
<1>3. Served => Served'
  BY <1>2, ServedStays, Zenon
<1> QED
  BY <1>1, <1>3, Zenon DEF WatchInv

LEMMA EditWatch ==
    ASSUME Regular, WatchInv, NEW s \in Scripts, NEW src \in Sources \cup {Absent},
           EditFile(s, src)
    PROVE  WatchStep
<1>1. /\ files \in Directory /\ edits \in 0..MaxEdits /\ toggles \in 0..MaxToggles
      /\ closed \in BOOLEAN /\ watch \in WatchState
  BY DEF Regular, TypeOK
<1>2. /\ edits < MaxEdits /\ files' = [files EXCEPT ![s] = src] /\ edits' = edits + 1
      /\ watch' = watch /\ reg' = reg /\ toggles' = toggles /\ closed' = closed
  BY Zenon DEF EditFile
<1>3. files' \in Directory
  BY <1>1, <1>2 DEF Directory
<1>4. edits' \in 0..MaxEdits /\ watch.sig <= edits' /\ watch.sig # edits'
  <2>1. watch.sig <= edits /\ watch.sig \in 0..MaxEdits
    BY <1>1 DEF WatchInv, WatchState
  <2> QED
    BY <1>1, <1>2, <2>1, ScriptingAssumption
<1>5. WatchInv'
  BY <1>2, <1>4, Zenon DEF WatchInv
<1>6. \A r \in Scripts : CheckStep(r)
  BY <1>2, Zenon DEF CheckStep, AwaitsCheck
<1> QED
  BY <1>1, <1>2, <1>3, <1>4, <1>5, <1>6, Zenon DEF WatchStep

LEMMA StartWatchStep == ASSUME Regular, WatchInv, StartWatch PROVE WatchStep
<1>1. /\ files \in Directory /\ edits \in 0..MaxEdits /\ toggles \in 0..MaxToggles
      /\ closed \in BOOLEAN /\ watch \in WatchState
  BY DEF Regular, TypeOK
<1>2. /\ watch.phase = "off" /\ watch' = [watch EXCEPT !.phase = "idle", !.sig = edits, !.first = edits]
      /\ reg' = reg /\ toggles' = toggles /\ closed' = closed /\ files' = files /\ edits' = edits
  BY Zenon DEF StartWatch, WatchStays
<1>3. watch' \in WatchState /\ watch'.phase = "idle" /\ watch'.sig = edits /\ watch'.first = edits
  BY <1>1, <1>2 DEF WatchState
<1>4. edits <= edits
  BY <1>1
<1>5. WatchInv'
  <2>1. "idle" \notin {"swap", "list", "check"}
    OBVIOUS
  <2> QED
    BY <1>2, <1>3, <1>4, <2>1, Zenon DEF WatchInv
<1>6. \A s \in Scripts : CheckStep(s)
  <2>1. "off" \notin {"list", "check"}
    OBVIOUS
  <2> QED
    BY <1>2, <2>1, Zenon DEF CheckStep, AwaitsCheck
<1> QED
  BY <1>1, <1>2, <1>3, <1>5, <1>6, Zenon DEF WatchStep

LEMMA LookStep == ASSUME Regular, WatchInv, Look PROVE WatchStep
<1>1. /\ files \in Directory /\ edits \in 0..MaxEdits /\ toggles \in 0..MaxToggles
      /\ closed \in BOOLEAN /\ watch \in WatchState
  BY DEF Regular, TypeOK
<1>2. /\ watch.phase = "idle" /\ watch' = [watch EXCEPT !.phase = "scan", !.sig = edits]
      /\ reg' = reg /\ toggles' = toggles /\ closed' = closed /\ files' = files /\ edits' = edits
  BY Zenon DEF Look, WatchStays
<1>3. watch' \in WatchState /\ watch'.phase = "scan" /\ watch'.sig = edits /\ watch'.first = watch.first
  BY <1>1, <1>2 DEF WatchState
<1>4. edits <= edits /\ watch.first <= edits
  BY <1>1 DEF WatchInv, WatchState
<1>5. WatchInv'
  <2>1. "scan" \notin {"swap", "list", "check", "idle"}
    OBVIOUS
  <2> QED
    BY <1>2, <1>3, <1>4, <2>1, Zenon DEF WatchInv
<1>6. \A s \in Scripts : CheckStep(s)
  <2>1. "idle" \notin {"list", "check"}
    OBVIOUS
  <2> QED
    BY <1>2, <2>1, Zenon DEF CheckStep, AwaitsCheck
<1> QED
  BY <1>1, <1>2, <1>3, <1>5, <1>6, Zenon DEF WatchStep

LEMMA ScanStep == ASSUME Regular, WatchInv, Scan PROVE WatchStep
<1>1. /\ files \in Directory /\ edits \in 0..MaxEdits /\ toggles \in 0..MaxToggles
      /\ closed \in BOOLEAN /\ watch \in WatchState
  BY DEF Regular, TypeOK
<1>2. /\ watch.phase = "scan" /\ watch' = [watch EXCEPT !.phase = "swap", !.found = files]
      /\ reg' = reg /\ toggles' = toggles /\ closed' = closed /\ files' = files /\ edits' = edits
  BY Zenon DEF Scan, WatchStays
<1>3. /\ watch' \in WatchState /\ watch'.phase = "swap" /\ watch'.found = files
      /\ watch'.sig = watch.sig /\ watch'.first = watch.first
  BY <1>1, <1>2 DEF WatchState
<1>4. WatchInv'
  <2>1. "swap" \notin {"list", "check", "idle"}
    OBVIOUS
  <2> QED
    BY <1>2, <1>3, <2>1, Zenon DEF WatchInv
<1>5. \A s \in Scripts : CheckStep(s)
  <2>1. "scan" \notin {"list", "check"}
    OBVIOUS
  <2> QED
    BY <1>2, <2>1, Zenon DEF CheckStep, AwaitsCheck
<1> QED
  BY <1>1, <1>2, <1>3, <1>4, <1>5, Zenon DEF WatchStep

LEMMA SwapStep == ASSUME Regular, WatchInv, Swap PROVE WatchStep
<1>1. /\ files \in Directory /\ edits \in 0..MaxEdits /\ toggles \in 0..MaxToggles
      /\ closed \in BOOLEAN /\ watch \in WatchState /\ reg \in [Scripts -> Entry]
  BY DEF Regular, TypeOK
<1>2. /\ watch.phase = "swap"
      /\ watch' = [watch EXCEPT !.phase = "list", !.found = [s \in Scripts |-> Absent]]
      /\ reg' = [s \in Scripts |-> Merged(reg[s], LoadFile(s, watch.found[s]))]
      /\ toggles' = toggles /\ closed' = closed /\ files' = files /\ edits' = edits
  BY Zenon DEF Swap, WatchStays
<1>3. /\ watch' \in WatchState /\ watch'.phase = "list"
      /\ watch'.sig = watch.sig /\ watch'.first = watch.first
  BY <1>1, <1>2 DEF WatchState, Directory
<1>4. ASSUME watch.found = files PROVE Served'
  <2> SUFFICES ASSUME NEW s \in Scripts
               PROVE  reg'[s].hash = files[s] /\ (reg'[s].status # "none" <=> files[s] # Absent)
    BY <1>2, Zenon DEF Served, Present
  <2>1. files[s] \in Sources \cup {Absent} /\ reg[s] \in Entry
    BY <1>1 DEF Directory
  <2> DEFINE new == LoadFile(s, files[s])
  <2>2. new \in Entry /\ new.hash = files[s] /\ (new.status = "none" <=> files[s] = Absent)
    BY <2>1, LoadFileShape
  <2> HIDE DEF new
  <2>3. reg'[s] = Merged(reg[s], new)
    BY <1>2, <1>4, Zenon DEF new
  <2>4. /\ reg'[s].hash = new.hash
        /\ \/ reg'[s].status = new.status
           \/ new.status = "active" /\ reg'[s].status = "quarantined"
    BY <2>1, <2>2, <2>3, MergedShape
  <2>5. "quarantined" # "none" /\ "active" # "none"
    OBVIOUS
  <2> QED
    BY <2>2, <2>4, <2>5, Zenon
<1>5. WatchInv'
  <2>1. "list" # "swap" /\ "list" # "idle"
    OBVIOUS
  <2> QED
    BY <1>2, <1>3, <1>4, <2>1, Zenon DEF WatchInv
<1>6. \A s \in Scripts : CheckStep(s)
  BY <1>3, Zenon DEF CheckStep, AwaitsCheck
<1> QED
  BY <1>1, <1>2, <1>3, <1>5, <1>6, Zenon DEF WatchStep

LEMMA ListStep == ASSUME Regular, WatchInv, ListActive PROVE WatchStep
<1> DEFINE todo == { s \in Scripts : reg[s].status = "active" /\ reg[s].program }
           phase == IF todo = {} THEN "idle" ELSE "check"
<1>1. /\ files \in Directory /\ edits \in 0..MaxEdits /\ toggles \in 0..MaxToggles
      /\ closed \in BOOLEAN /\ watch \in WatchState
  BY DEF Regular, TypeOK
<1>2. /\ watch.phase = "list" /\ watch' = [watch EXCEPT !.phase = phase, !.todo = todo]
      /\ reg' = reg /\ toggles' = toggles /\ closed' = closed /\ files' = files /\ edits' = edits
  BY Zenon DEF ListActive, WatchStays
<1>3. todo \subseteq Scripts /\ phase \in {"idle", "check"} /\ (todo # {} => phase = "check")
  BY Zenon
<1>4. \A s \in Scripts : reg[s].status = "active" /\ reg[s].program => s \in todo
  BY Zenon
<1> HIDE DEF todo, phase
<1>5. /\ watch' \in WatchState /\ watch'.phase = phase /\ watch'.todo = todo
      /\ watch'.sig = watch.sig /\ watch'.first = watch.first
  BY <1>1, <1>2, <1>3 DEF WatchState
<1>6. WatchInv'
  <2>1. phase # "swap" /\ phase # "list"
    BY <1>3
  <2>2. Served' <=> Served
    BY <1>2, Zenon DEF Served
  <2> QED
    BY <1>2, <1>5, <2>1, <2>2, Zenon DEF WatchInv
<1>7. \A s \in Scripts : CheckStep(s)
  BY <1>3, <1>4, <1>5, Zenon DEF CheckStep, AwaitsCheck
<1> QED
  BY <1>1, <1>2, <1>5, <1>6, <1>7, Zenon DEF WatchStep

LEMMA CheckMetaStep ==
    ASSUME Regular, WatchInv, NEW s \in Scripts, CheckMeta(s) PROVE WatchStep
<1> DEFINE todo == watch.todo \ {s}
           phase == IF todo = {} THEN "idle" ELSE "check"
<1>1. /\ files \in Directory /\ edits \in 0..MaxEdits /\ toggles \in 0..MaxToggles
      /\ closed \in BOOLEAN /\ watch \in WatchState /\ reg \in [Scripts -> Entry]
  BY DEF Regular, TypeOK
<1>2. /\ watch.phase = "check" /\ watch' = [watch EXCEPT !.phase = phase, !.todo = todo]
      /\ toggles' = toggles /\ closed' = closed /\ files' = files /\ edits' = edits
      /\ MetaRejected(reg[s].hash) => MarkFailed(s)
  BY Zenon DEF CheckMeta, WatchStays
<1>3. todo \subseteq Scripts /\ phase \in {"idle", "check"} /\ (todo # {} => phase = "check")
  BY <1>1 DEF WatchState
<1>4. \A r \in watch.todo : r = s \/ r \in todo
  BY Zenon
<1> HIDE DEF todo, phase
<1>5. /\ watch' \in WatchState /\ watch'.phase = phase /\ watch'.todo = todo
      /\ watch'.sig = watch.sig /\ watch'.first = watch.first
  BY <1>1, <1>2, <1>3 DEF WatchState
<1>6. EntriesStep
  BY CheckMetaEntries, Zenon
<1>7. watch.phase # "swap" /\ watch.phase # "list"
  BY <1>2
<1>8. Served => Served'
  BY <1>2, <1>6, <1>7, ServedStays, Zenon
<1>9. WatchInv'
  <2>1. phase # "swap" /\ phase # "list"
    BY <1>3
  <2> QED
    BY <1>2, <1>5, <1>8, <2>1, Zenon DEF WatchInv
<1>10. ASSUME MetaRejected(reg[s].hash), reg[s].status = "active" PROVE reg'[s].status = "failed"
  <2>1. reg[s].status # "none"
    BY <1>10
  <2>2. reg' = [reg EXCEPT ![s].status = "failed"]
    BY <1>2, <1>10, <2>1, Zenon DEF MarkFailed
  <2> QED
    BY <1>1, <2>2 DEF Entry
<1>11. \A r \in Scripts : CheckStep(r)
  <2> SUFFICES ASSUME NEW r \in Scripts, AwaitsCheck(r), reg[r].status = "active",
                      MetaRejected(reg[r].hash)
               PROVE  AwaitsCheck(r)' \/ reg'[r].status # "active"
    BY Zenon DEF CheckStep
  <2>1. r \in watch.todo
    BY <1>7, Zenon DEF AwaitsCheck
  <2>2. CASE r = s
    BY <1>10, <2>2
  <2>3. CASE r \in todo
    BY <1>3, <1>5, <2>3, Zenon DEF AwaitsCheck
  <2> QED
    BY <1>4, <2>1, <2>2, <2>3, Zenon
<1> QED
  BY <1>1, <1>2, <1>5, <1>9, <1>11, Zenon DEF WatchStep

------------------------------------------------------------------------------
(* Every step, and the invariants.                                         *)

LEMMA StepShape ==
    ASSUME ScriptingInv, [Next]_vars PROVE Regular /\ EntriesStep /\ PoolStep /\ WatchStep
<1>1. Regular /\ TypeOK /\ Busy /\ WatchInv
  BY Zenon DEF ScriptingInv, Regular, StreakInv
<1>2. /\ files \in Directory /\ edits \in 0..MaxEdits /\ toggles \in 0..MaxToggles
      /\ closed \in BOOLEAN /\ watch \in WatchState
  BY Zenon DEF ScriptingInv, TypeOK
\* The steps of callers, workers and the operator: the watcher stands still.
<1>3. ASSUME EntriesStep, files' = files, edits' = edits, watch' = watch,
             toggles' \in 0..MaxToggles, closed' \in BOOLEAN
      PROVE  WatchStep
  <2>1. WatchInv' /\ \A s \in Scripts : CheckStep(s)
    BY <1>1, <1>3, WatchSame, Zenon
  <2> QED
    BY <1>2, <1>3, <2>1, Zenon DEF WatchStep
<1>4. ASSUME reg' = reg, record' = record, gen' = gen PROVE EntriesStep
  BY <1>1, <1>4, EntriesSame, Zenon
<1>5. ASSUME queue' = queue, worker' = worker, caller' = caller PROVE PoolStep
  BY <1>1, <1>5, PoolSame, Zenon
<1>6. CASE UNCHANGED vars
  <2>1. /\ files' = files /\ edits' = edits /\ reg' = reg /\ gen' = gen /\ watch' = watch
        /\ queue' = queue /\ worker' = worker /\ caller' = caller /\ toggles' = toggles
        /\ record' = record /\ closed' = closed
    BY <1>6, Zenon DEF vars
  <2> QED
    BY <1>1, <1>2, <1>3, <1>4, <1>5, <2>1, Zenon
<1>7. ASSUME NEW s \in Scripts, NEW src \in Sources \cup {Absent}, EditFile(s, src)
      PROVE  EntriesStep /\ PoolStep /\ WatchStep
  <2>1. /\ reg' = reg /\ gen' = gen /\ record' = record
        /\ queue' = queue /\ worker' = worker /\ caller' = caller
    BY <1>7, Zenon DEF EditFile
  <2> QED
    BY <1>1, <1>4, <1>5, <1>7, <2>1, EditWatch, Zenon
<1>8. ASSUME NEW s \in Scripts, NEW on \in BOOLEAN, SetEnabled(s, on)
      PROVE  EntriesStep /\ PoolStep /\ WatchStep
  <2>1. /\ files' = files /\ edits' = edits /\ watch' = watch
        /\ queue' = queue /\ worker' = worker /\ caller' = caller /\ closed' = closed
        /\ toggles < MaxToggles /\ toggles' = toggles + 1
    BY <1>8, Zenon DEF SetEnabled
  <2>2. toggles' \in 0..MaxToggles
    BY <1>2, <2>1, ScriptingAssumption
  <2> QED
    BY <1>1, <1>2, <1>3, <1>5, <1>8, <2>1, <2>2, SetEnabledEntries, Zenon
<1>9. ASSUME Watcher PROVE EntriesStep /\ PoolStep /\ WatchStep
  <2>1. queue' = queue /\ worker' = worker /\ caller' = caller
    BY <1>9, Zenon DEF Watcher, StartWatch, Look, Scan, Swap, ListActive, CheckMeta, WatchStays
  <2>2. EntriesStep
    <3>1. ASSUME StartWatch \/ Look \/ Scan \/ ListActive PROVE reg' = reg /\ gen' = gen /\ record' = record
      BY <3>1, Zenon DEF StartWatch, Look, Scan, ListActive
    <3> QED
      BY <1>1, <1>4, <1>9, <3>1, SwapEntries, CheckMetaEntries, Zenon DEF Watcher
  <2>3. WatchStep
    BY <1>1, <1>9, StartWatchStep, LookStep, ScanStep, SwapStep, ListStep, CheckMetaStep,
       Zenon DEF Watcher
  <2> QED
    BY <1>5, <2>1, <2>2, <2>3, Zenon
<1>10. ASSUME NEW c \in Callers, (\E s \in Scripts : Begin(c, s)) \/ Enqueue(c) \/ GiveUp(c)
       PROVE  EntriesStep /\ PoolStep /\ WatchStep
  <2>1. /\ files' = files /\ edits' = edits /\ watch' = watch /\ closed' = closed
        /\ reg' = reg /\ gen' = gen /\ record' = record /\ toggles' = toggles
    BY <1>10, Zenon DEF Begin, Enqueue, GiveUp, CallStays
  <2>2. PoolStep
    <3>1. CASE GiveUp(c)
      <4>1. /\ caller[c].phase \in {"waiting", "replied"} /\ queue' = queue /\ worker' = worker
            /\ caller' = [caller EXCEPT ![c] = Idle]
        BY <3>1, Zenon DEF GiveUp
      <4> QED
        BY <1>1, <4>1, EndCallPool, Zenon
    <3> QED
      BY <1>1, <1>10, <3>1, BeginPool, EnqueuePool, Zenon
  <2> QED
    BY <1>2, <1>3, <1>4, <2>1, <2>2, Zenon
<1>11. ASSUME NEW c \in Callers, NEW contract \in BOOLEAN, Finish(c, contract)
       PROVE  EntriesStep /\ PoolStep /\ WatchStep
  <2>1. /\ files' = files /\ edits' = edits /\ watch' = watch /\ closed' = closed
        /\ toggles' = toggles /\ queue' = queue /\ worker' = worker
        /\ caller[c].phase \in {"waiting", "replied"} /\ caller' = [caller EXCEPT ![c] = Idle]
    BY <1>11, Zenon DEF Finish, CallStays
  <2>2. PoolStep
    BY <1>1, <2>1, EndCallPool, Zenon
  <2> QED
    BY <1>1, <1>2, <1>3, <1>11, <2>1, <2>2, FinishEntries, Zenon
<1>12. ASSUME NEW w \in Workers, Work(w) PROVE EntriesStep /\ PoolStep /\ WatchStep
  <2>1. /\ files' = files /\ edits' = edits /\ watch' = watch /\ closed' = closed
        /\ reg' = reg /\ gen' = gen /\ record' = record /\ toggles' = toggles
    BY <1>12, Zenon DEF Work, Take, Build, Run, WorkStays
  <2>2. PoolStep
    BY <1>1, <1>12, TakePool, BuildPool, RunPool, Zenon DEF Work
  <2> QED
    BY <1>2, <1>3, <1>4, <2>1, <2>2, Zenon
<1>13. ASSUME Close PROVE EntriesStep /\ PoolStep /\ WatchStep
  <2>1. /\ files' = files /\ edits' = edits /\ watch' = watch
        /\ reg' = reg /\ gen' = gen /\ record' = record /\ toggles' = toggles
        /\ queue' = queue /\ worker' = worker /\ caller' = caller /\ closed' \in BOOLEAN
    BY <1>13, Zenon DEF Close
  <2> QED
    BY <1>2, <1>3, <1>4, <1>5, <2>1, Zenon
<1> QED
  BY <1>1, <1>6, <1>7, <1>8, <1>9, <1>10, <1>11, <1>12, <1>13, Zenon DEF Next

\* What a reload makes of an entry.
LEMMA ReloadedShape ==
    ASSUME Regular, NEW s \in Scripts, Reloaded(s)
    PROVE  \E new \in Entry :
              /\ reg'[s] = Merged(reg[s], new) /\ reg[s] \in Entry /\ new.streak = 0
              /\ record'[s] = IF Fresh(s, new) THEN <<>> ELSE record[s]
              /\ new.status = "none" <=> new.hash = Absent
              /\ new.program <=> new.hash \in Sources \ Broken /\ s \notin SwitchedOff
              /\ new.status = "active" <=> new.program
              /\ new.status # "quarantined"
<1> DEFINE new == LoadFile(s, watch.found[s])
<1>1. watch.found[s] \in Sources \cup {Absent} /\ reg[s] \in Entry
  BY DEF Regular, TypeOK, WatchState, Directory
<1>2. /\ new \in Entry /\ new.streak = 0
      /\ new.status = "none" <=> new.hash = Absent
      /\ new.program <=> new.hash \in Sources \ Broken /\ s \notin SwitchedOff
      /\ new.status = "active" <=> new.program
      /\ new.status # "quarantined"
  BY <1>1, LoadFileShape
<1>3. reg'[s] = Merged(reg[s], new) /\ record'[s] = IF Fresh(s, new) THEN <<>> ELSE record[s]
  BY Zenon DEF Reloaded
<1> HIDE DEF new
<1> QED
  BY <1>1, <1>2, <1>3, Zenon

\* What the other steps make of an entry's status and streak.
LEMMA KeptShape ==
    ASSUME Regular, NEW s \in Scripts
    PROVE  /\ TurnedOn(s) => reg'[s].status = "active" /\ reg'[s].streak = 0
           /\ TurnedOff(s) => reg'[s].status = "disabled" /\ reg'[s].streak = reg[s].streak
           /\ FailedCheck(s) => reg'[s].status = "failed" /\ reg'[s].streak = reg[s].streak
<1>1. reg[s] \in Entry
  BY DEF Regular, TypeOK
<1> QED
  BY <1>1 DEF TurnedOn, TurnedOff, FailedCheck, Entry

LEMMA EntriesSoundStep == ASSUME Regular, EntriesStep PROVE EntriesSound'
<1> SUFFICES ASSUME NEW s \in Scripts
             PROVE  /\ reg'[s].program <=> reg'[s].hash \in Sources \ Broken /\ s \notin SwitchedOff
                    /\ reg'[s].status = "active" => reg'[s].program
                    /\ reg'[s].status = "none" <=> reg'[s].hash = Absent
  BY Zenon DEF EntriesSound
<1>1. /\ reg[s].program <=> reg[s].hash \in Sources \ Broken /\ s \notin SwitchedOff
      /\ reg[s].status = "active" => reg[s].program
      /\ reg[s].status = "none" <=> reg[s].hash = Absent
      /\ reg[s] \in Entry
  BY Zenon DEF Regular, EntriesSound, TypeOK
<1>2. CASE Reloaded(s)
  <2>1. PICK new \in Entry :
              /\ reg'[s] = Merged(reg[s], new)
              /\ new.status = "none" <=> new.hash = Absent
              /\ new.program <=> new.hash \in Sources \ Broken /\ s \notin SwitchedOff
              /\ new.status = "active" <=> new.program
    BY <1>2, ReloadedShape, Zenon
  <2>2. /\ reg'[s].hash = new.hash /\ reg'[s].program = new.program
        /\ \/ reg'[s].status = new.status
           \/ new.status = "active" /\ reg'[s].status = "quarantined"
    BY <1>1, <2>1, MergedShape
  <2>3. "quarantined" # "none" /\ "active" # "none" /\ "quarantined" # "active"
    OBVIOUS
  <2> QED
    BY <2>1, <2>2, <2>3, Zenon
<1>3. CASE ~Reloaded(s)
  <2>1. EntryStep(s)
    BY Zenon DEF EntriesStep
  <2>2. /\ reg'[s].hash = reg[s].hash /\ reg'[s].program = reg[s].program
        /\ reg'[s].status = "none" <=> reg[s].status = "none"
    BY <1>3, <2>1, SourceKept, Zenon
  <2>3. reg'[s].status = "active" => reg[s].program
    <3>1. CASE Reported(s)
      <4>1. PICK ok \in BOOLEAN : reg'[s] = Recorded(reg[s], ok)
        BY <3>1, Zenon DEF Reported
      <4>2. reg'[s].status = reg[s].status \/ reg'[s].status = "quarantined"
        BY <1>1, <4>1, RecordedShape
      <4> QED
        BY <1>1, <4>2
    <3>2. CASE TurnedOff(s) \/ FailedCheck(s)
      <4>1. reg'[s].status # "active"
        BY <3>2, KeptShape
      <4> QED
        BY <4>1, Zenon
    <3> QED
      BY <1>1, <1>3, <2>1, <3>1, <3>2, Zenon DEF EntryStep, SameEntry, TurnedOn
  <2> QED
    BY <1>1, <2>2, <2>3, Zenon
<1> QED
  BY <1>2, <1>3, Zenon

LEMMA GenerationStep ==
    ASSUME TypeOK, GenerationInv, EntriesStep, PoolStep PROVE GenerationInv'
<1> SUFFICES ASSUME NEW w \in Workers
             PROVE  /\ worker'[w].gen <= gen'
                    /\ worker'[w].built /\ worker'[w].phase # "build" /\ worker'[w].gen = gen'
                          => worker'[w].exports = Programs'
  BY Zenon DEF GenerationInv, LoadedMatchesGeneration
<1>1. /\ gen \in Nat /\ gen' \in Nat /\ gen <= gen' /\ (gen' = gen => Programs' = Programs)
      /\ worker[w].gen \in Nat /\ worker[w].gen <= gen /\ WorkerStep(w)
  BY DEF TypeOK, Interpreter, EntriesStep, PoolStep, GenerationInv
<1>2. worker'[w].gen <= gen'
  BY <1>1 DEF WorkerStep
<1>3. ASSUME worker'[w].built, worker'[w].phase # "build", worker'[w].gen = gen'
      PROVE  worker'[w].exports = Programs'
  <2>1. worker'[w].gen = worker[w].gen
    BY <1>1, <1>3, Zenon DEF WorkerStep
  <2>2. gen' = gen /\ worker[w].gen = gen
    BY <1>1, <1>3, <2>1
  <2>3. CASE worker'[w].exports = Programs
    BY <1>1, <2>2, <2>3, Zenon
  <2>4. CASE worker'[w].exports # Programs
    <3>1. /\ worker'[w].exports = worker[w].exports /\ worker[w].built
          /\ worker[w].phase # "build"
      BY <1>1, <1>3, <2>4, Zenon DEF WorkerStep
    <3>2. worker[w].exports = Programs
      BY <2>2, <3>1, Zenon DEF GenerationInv, LoadedMatchesGeneration
    <3> QED
      BY <2>4, <3>1, <3>2, Zenon
  <2> QED
    BY <2>3, <2>4, Zenon
<1> QED
  BY <1>2, <1>3, Zenon

\* The part of StreakInv about one script, for given results and streak.
Counted(q, streak) ==
    /\ \A m \in 0..(Threshold - 1) : m < streak => m < Len(q) /\ Back(q, m) # "ok"
    /\ \A n \in 1..Len(q) : (\A m \in 0..(n - 1) : Back(q, m) # "ok") => streak >= n

LEMMA CountedEmpty == Counted(<<>>, 0)
  BY ScriptingAssumption DEF Counted

\* One more result keeps the count.
LEMMA CountedReport ==
    ASSUME NEW q \in Seq(Results), Len(q) <= Threshold, NEW streak \in Nat, Counted(q, streak),
           NEW p \in Seq(Results), NEW x \in Results, NEW n2 \in Nat,
           Len(p) = IF Len(q) < Threshold THEN Len(q) + 1 ELSE Threshold,
           Back(p, 0) = x,
           \A m \in 1..(Len(p) - 1) : Back(p, m) = Back(q, m - 1),
           n2 = IF x = "ok" THEN 0 ELSE streak + 1
    PROVE  Counted(p, n2)
<1>1. Len(q) \in Nat /\ Len(p) \in Nat /\ Threshold \in Nat /\ Threshold >= 1 /\ Len(p) >= 1
  BY ScriptingAssumption
<1>2. ASSUME NEW m \in 0..(Threshold - 1), m < n2 PROVE m < Len(p) /\ Back(p, m) # "ok"
  <2>1. x # "ok" /\ n2 = streak + 1
    BY <1>2
  <2>2. CASE m = 0
    BY <1>1, <2>1, <2>2
  <2>3. CASE m # 0
    <3>1. m - 1 \in 0..(Threshold - 1) /\ m - 1 < streak
      BY <1>1, <1>2, <2>1, <2>3
    <3>2. m - 1 < Len(q) /\ Back(q, m - 1) # "ok"
      BY <3>1 DEF Counted
    <3>3. m < Len(p) /\ m \in 1..(Len(p) - 1)
      BY <1>1, <1>2, <2>3, <3>2
    <3> QED
      BY <3>2, <3>3
  <2> QED
    BY <2>2, <2>3
<1>3. ASSUME NEW n \in 1..Len(p), \A m \in 0..(n - 1) : Back(p, m) # "ok" PROVE n2 >= n
  <2>1. 0 \in 0..(n - 1)
    BY <1>1
  <2>2. x # "ok" /\ n2 = streak + 1
    BY <1>3, <2>1
  <2>3. CASE n = 1
    BY <2>2, <2>3
  <2>4. CASE n # 1
    <3>1. n - 1 \in 1..Len(q)
      BY <1>1, <2>4
    <3>2. ASSUME NEW m \in 0..(n - 1 - 1) PROVE Back(q, m) # "ok"
      <4>1. m + 1 \in 0..(n - 1) /\ m + 1 \in 1..(Len(p) - 1) /\ (m + 1) - 1 = m
        BY <1>1, <2>4
      <4> QED
        BY <1>3, <4>1
    <3>3. streak >= n - 1
      BY <3>1, <3>2 DEF Counted
    <3> QED
      BY <1>1, <2>2, <3>3
  <2> QED
    BY <2>3, <2>4
<1> QED
  BY <1>2, <1>3 DEF Counted

LEMMA StreakStep == ASSUME Regular, StreakInv, EntriesStep PROVE StreakInv'
<1> SUFFICES ASSUME NEW s \in Scripts
             PROVE  /\ Len(record'[s]) <= Threshold
                    /\ reg'[s].program => Counted(record'[s], reg'[s].streak)
  BY Zenon DEF StreakInv, Counted
<1>1. /\ EntryStep(s) /\ reg[s] \in Entry /\ record[s] \in Seq(Results)
      /\ record'[s] \in Seq(Results) /\ Len(record[s]) <= Threshold
  BY DEF EntriesStep, Regular, TypeOK, Results
<1>2. reg[s].program => Counted(record[s], reg[s].streak)
  BY Zenon DEF StreakInv, Counted
<1>3. 0 <= Threshold /\ Len(<<>>) = 0
  BY ScriptingAssumption
<1>4. CASE Reloaded(s)
  <2>1. PICK new \in Entry :
              /\ reg'[s] = Merged(reg[s], new) /\ new.streak = 0
              /\ record'[s] = IF Fresh(s, new) THEN <<>> ELSE record[s]
              /\ new.status = "none" <=> new.hash = Absent
              /\ new.program <=> new.hash \in Sources \ Broken /\ s \notin SwitchedOff
              /\ new.status = "active" <=> new.program
    BY <1>4, ReloadedShape, Zenon
  <2>2. /\ reg'[s].program = new.program
        /\ reg'[s].streak = IF new.status = "active" /\ reg[s].hash = new.hash
                            THEN reg[s].streak ELSE new.streak
    BY <1>1, <2>1, MergedShape
  <2>3. CASE Fresh(s, new)
    <3>1. ASSUME new.program PROVE reg'[s].streak = 0
      <4>1. new.hash # Absent /\ (reg[s].status = "none" <=> reg[s].hash = Absent)
        BY <2>1, <3>1, Constants, Zenon DEF Regular, EntriesSound
      <4>2. reg[s].hash # new.hash
        BY <2>3, <4>1, Zenon DEF Fresh, Present
      <4> QED
        BY <2>1, <2>2, <4>2, Zenon
    <3> QED
      BY <1>3, <2>1, <2>2, <2>3, <3>1, CountedEmpty, Zenon
  <2>4. CASE ~Fresh(s, new)
    <3>1. reg[s].hash = new.hash /\ record'[s] = record[s]
      BY <2>1, <2>4, Zenon DEF Fresh
    <3>2. ASSUME new.program PROVE reg[s].program /\ reg'[s].streak = reg[s].streak
      BY <2>1, <2>2, <3>1, <3>2, Zenon DEF Regular, EntriesSound
    <3> QED
      BY <1>1, <1>2, <2>2, <3>1, <3>2, Zenon
  <2> QED
    BY <2>3, <2>4, Zenon
<1>5. CASE ~Reloaded(s)
  <2>1. reg'[s].program = reg[s].program
    BY <1>1, <1>5, SourceKept, Zenon
  <2>2. CASE SameEntry(s)
    BY <1>1, <1>2, <2>2, Zenon DEF SameEntry
  <2>3. CASE TurnedOn(s)
    <3>1. record'[s] = <<>> /\ reg'[s].streak = 0
      BY <2>3, KeptShape, Zenon DEF TurnedOn
    <3> QED
      BY <1>3, <3>1, CountedEmpty, Zenon
  <2>4. CASE TurnedOff(s) \/ FailedCheck(s)
    <3>1. record'[s] = record[s] /\ reg'[s].streak = reg[s].streak
      BY <2>4, KeptShape, Zenon DEF TurnedOff, FailedCheck
    <3> QED
      BY <1>1, <1>2, <2>1, <3>1, Zenon
  <2>5. CASE Reported(s)
    <3>1. PICK ok \in BOOLEAN :
             /\ reg'[s] = Recorded(reg[s], ok)
             /\ record'[s] = LastOf(s, IF ok THEN "ok" ELSE IF reg[s].status = "active" THEN "fail" ELSE "late")
      BY <2>5, Zenon DEF Reported
    <3> DEFINE x == IF ok THEN "ok" ELSE IF reg[s].status = "active" THEN "fail" ELSE "late"
    <3>2. x \in Results /\ (x = "ok" <=> ok)
      BY DEF Results
    <3> HIDE DEF x
    <3>3. /\ Len(record[s]) \in Nat
          /\ Len(record'[s]) = IF Len(record[s]) < Threshold THEN Len(record[s]) + 1 ELSE Threshold
          /\ Back(record'[s], 0) = x
          /\ \A m \in 1..(Len(record'[s]) - 1) : Back(record'[s], m) = Back(record[s], m - 1)
      <4>1. record'[s] = LastOf(s, x)
        BY <3>1, Zenon DEF x
      <4> QED
        BY <1>1, <3>2, <4>1, LastOfShape
    <3>4. reg[s].streak \in Nat /\ reg'[s].streak = IF ok THEN 0 ELSE reg[s].streak + 1
      BY <1>1, <3>1, RecordedShape DEF Entry
    <3>5. reg'[s].streak \in Nat /\ reg'[s].streak = IF x = "ok" THEN 0 ELSE reg[s].streak + 1
      BY <3>2, <3>4
    <3>6. Len(record'[s]) <= Threshold
      BY <1>1, <3>3, ScriptingAssumption
    <3>7. ASSUME reg[s].program PROVE Counted(record'[s], reg'[s].streak)
      <4> DEFINE q == record[s]
                 p == record'[s]
                 n == reg[s].streak
                 n2 == reg'[s].streak
      <4>1. /\ q \in Seq(Results) /\ Len(q) <= Threshold /\ n \in Nat /\ Counted(q, n)
            /\ p \in Seq(Results) /\ n2 \in Nat
        BY <1>1, <1>2, <3>4, <3>5, <3>7, Zenon
      <4>2. /\ Len(p) = IF Len(q) < Threshold THEN Len(q) + 1 ELSE Threshold
            /\ Back(p, 0) = x
            /\ \A m \in 1..(Len(p) - 1) : Back(p, m) = Back(q, m - 1)
            /\ n2 = IF x = "ok" THEN 0 ELSE n + 1
        BY <3>3, <3>5
      <4> HIDE DEF q, p, n, n2
      <4>3. Counted(p, n2)
        BY <3>2, <4>1, <4>2, CountedReport
      <4> QED
        BY <4>3 DEF p, n2
    <3> QED
      BY <2>1, <3>6, <3>7, Zenon
  <2> QED
    BY <1>1, <1>5, <2>2, <2>3, <2>4, <2>5, Zenon DEF EntryStep
<1> QED
  BY <1>4, <1>5, Zenon

\* Threshold results without a success among them, seen from either end.
LEMMA AllBack ==
    ASSUME NEW q \in Seq(Results), Len(q) = Threshold, NEW S
    PROVE  (\A i \in DOMAIN q : q[i] \in S) <=> (\A m \in 0..(Threshold - 1) : Back(q, m) \in S)
<1>1. Threshold \in Nat /\ Threshold >= 1 /\ DOMAIN q = 1..Threshold
  BY ScriptingAssumption
<1>2. ASSUME NEW m \in 0..(Threshold - 1) PROVE Threshold - m \in DOMAIN q /\ Back(q, m) = q[Threshold - m]
  BY <1>1 DEF Back
<1>3. ASSUME NEW i \in DOMAIN q PROVE Threshold - i \in 0..(Threshold - 1) /\ Back(q, Threshold - i) = q[i]
  <2>1. Threshold - i \in 0..(Threshold - 1) /\ Threshold - (Threshold - i) = i
    BY <1>1
  <2> QED
    BY <2>1 DEF Back
<1>4. ASSUME \A i \in DOMAIN q : q[i] \in S, NEW m \in 0..(Threshold - 1) PROVE Back(q, m) \in S
  BY <1>2, <1>4
<1>5. ASSUME \A m \in 0..(Threshold - 1) : Back(q, m) \in S, NEW i \in DOMAIN q PROVE q[i] \in S
  BY <1>3, <1>5
<1> QED
  BY <1>4, <1>5

LEMMA QuarantineStep ==
    ASSUME Regular, QuarantineInv, EntriesStep, StreakInv', \A s \in Scripts : CheckStep(s)
    PROVE  QuarantineInv'
<1> SUFFICES ASSUME NEW s \in Scripts, reg'[s].program, AllOf(record'[s], {"fail"})
             PROVE  \/ reg'[s].status = "quarantined"
                    \/ /\ MetaRejected(reg'[s].hash)
                       /\ reg'[s].status = "active" => AwaitsCheck(s)'
  BY Zenon DEF QuarantineInv, AllOf
<1>1. /\ EntryStep(s) /\ reg[s] \in Entry /\ record[s] \in Seq(Results)
      /\ record'[s] \in Seq(Results) /\ Len(record[s]) <= Threshold
  BY DEF EntriesStep, Regular, TypeOK, Results
<1>2. record'[s] # <<>>
  BY ScriptingAssumption DEF AllOf
<1>3. CASE Reloaded(s)
  <2>1. PICK new \in Entry :
              /\ reg'[s] = Merged(reg[s], new)
              /\ record'[s] = IF Fresh(s, new) THEN <<>> ELSE record[s]
              /\ new.program <=> new.hash \in Sources \ Broken /\ s \notin SwitchedOff
              /\ new.status = "active" <=> new.program
    BY <1>3, ReloadedShape, Zenon
  <2>2. /\ reg'[s].program = new.program /\ reg'[s].hash = new.hash
        /\ \/ reg'[s].status = new.status
           \/ new.status = "active" /\ reg'[s].status = "quarantined"
        /\ reg[s].status = "quarantined" /\ reg[s].hash = new.hash => reg'[s].status # "active"
    <3> DEFINE e == Merged(reg[s], new)
    <3>1. /\ e.program = new.program /\ e.hash = new.hash
          /\ \/ e.status = new.status
             \/ new.status = "active" /\ e.status = "quarantined"
          /\ reg[s].status = "quarantined" /\ reg[s].hash = new.hash => e.status # "active"
      BY <1>1, MergedShape, Zenon
    <3>2. reg'[s] = e
      BY <2>1, Zenon
    <3> QED
      BY <3>1, <3>2, Zenon
  <2>3. record'[s] = record[s] /\ reg[s].hash = new.hash
    BY <1>2, <2>1, Zenon DEF Fresh
  <2>4. reg[s].program
    BY <2>1, <2>2, <2>3, Zenon DEF Regular, EntriesSound
  <2>5. reg[s].status = "quarantined" \/ MetaRejected(reg[s].hash)
    BY <2>3, <2>4, Zenon DEF QuarantineInv
  <2> QED
    BY <1>3, <2>1, <2>2, <2>3, <2>5, Zenon DEF Reloaded, AwaitsCheck
<1>4. CASE ~Reloaded(s)
  <2>1. reg'[s].hash = reg[s].hash /\ reg[s].program
    BY <1>1, <1>4, SourceKept, Zenon
  <2>2. CASE SameEntry(s)
    <3>1. record'[s] = record[s] /\ reg'[s] = reg[s]
      BY <2>2, Zenon DEF SameEntry
    <3>2. \/ reg[s].status = "quarantined"
          \/ MetaRejected(reg[s].hash) /\ (reg[s].status = "active" => AwaitsCheck(s))
      BY <2>1, <3>1, Zenon DEF QuarantineInv
    <3>3. CheckStep(s)
      BY Zenon
    <3> QED
      <4>1. ASSUME reg'[s].status = "active", MetaRejected(reg[s].hash), AwaitsCheck(s)
            PROVE  AwaitsCheck(s)'
        BY <2>1, <3>1, <3>3, <4>1 DEF CheckStep
      <4> QED
        BY <2>1, <3>1, <3>2, <4>1
  <2>3. ~TurnedOn(s)
    BY <1>2, Zenon DEF TurnedOn
  <2>4. CASE TurnedOff(s)
    <3>1. record'[s] = record[s] /\ reg[s].status = "active" /\ reg'[s].status = "disabled"
      BY <2>4, KeptShape, Zenon DEF TurnedOff
    <3>2. reg[s].status # "quarantined" /\ reg'[s].status # "active"
      BY <3>1
    <3> QED
      BY <2>1, <3>1, <3>2, Zenon DEF QuarantineInv
  <2>5. CASE FailedCheck(s)
    <3>1. reg'[s].status # "active" /\ MetaRejected(reg[s].hash)
      BY <2>5, KeptShape DEF FailedCheck
    <3> QED
      BY <2>1, <3>1, Zenon
  <2>6. CASE Reported(s)
    <3>1. PICK ok \in BOOLEAN :
             /\ reg'[s] = Recorded(reg[s], ok)
             /\ record'[s] = LastOf(s, IF ok THEN "ok" ELSE IF reg[s].status = "active" THEN "fail" ELSE "late")
      BY <2>6, Zenon DEF Reported
    <3> DEFINE x == IF ok THEN "ok" ELSE IF reg[s].status = "active" THEN "fail" ELSE "late"
    <3>2. x \in Results /\ (x = "fail" => reg[s].status = "active")
      BY DEF Results
    <3> HIDE DEF x
    <3>3. Back(record'[s], 0) = x
      <4>1. record'[s] = LastOf(s, x)
        BY <3>1, Zenon DEF x
      <4> QED
        BY <1>1, <3>2, <4>1, LastOfShape
    <3>4. Len(record'[s]) = Threshold /\ Threshold \in Nat /\ Threshold >= 1
      BY ScriptingAssumption DEF AllOf
    <3>5. \A m \in 0..(Threshold - 1) : Back(record'[s], m) \in {"fail"}
      BY <1>1, <3>4, AllBack, Zenon DEF AllOf
    <3>6. x = "fail"
      BY <3>3, <3>4, <3>5
    <3>7. reg'[s].streak >= Threshold
      <4>1. \A m \in 0..(Threshold - 1) : Back(record'[s], m) # "ok"
        BY <3>5
      <4>2. Threshold \in 1..Len(record'[s])
        BY <3>4
      <4> QED
        BY <4>1, <4>2, Zenon DEF StreakInv
    <3> QED
      BY <1>1, <3>1, <3>2, <3>6, <3>7, RecordedShape
  <2> QED
    BY <1>1, <1>4, <2>2, <2>3, <2>4, <2>5, <2>6, Zenon DEF EntryStep
<1> QED
  BY <1>3, <1>4, Zenon

------------------------------------------------------------------------------
(* The invariant.                                                          *)

LEMMA CheckedShape ==
    ASSUME NEW e \in Entry
    PROVE  /\ Checked(e) \in Entry /\ Checked(e).hash = e.hash /\ Checked(e).program = e.program
           /\ Checked(e).streak = e.streak
           /\ Checked(e).status = e.status \/ (e.status = "active" /\ Checked(e).status = "failed")
<1>1. CASE e.status = "active" /\ MetaRejected(e.hash)
  <2>1. Checked(e) = [e EXCEPT !.status = "failed"]
    BY <1>1, Zenon DEF Checked
  <2>2. "failed" \in Statuses \cup {"none"}
    BY DEF Statuses
  <2> QED
    BY <1>1, <2>1, <2>2 DEF Entry
<1>2. CASE ~(e.status = "active" /\ MetaRejected(e.hash))
  <2>1. Checked(e) = e
    BY <1>2, Zenon DEF Checked
  <2> QED
    BY <2>1, Zenon
<1> QED
  BY <1>1, <1>2, Zenon

LEMMA InitInv == Init => ScriptingInv
<1> SUFFICES ASSUME Init PROVE ScriptingInv
  OBVIOUS
<1>1. /\ files \in Directory /\ edits = 0 /\ gen = 1 /\ queue = <<>> /\ toggles = 0 /\ closed = FALSE
      /\ reg = [s \in Scripts |-> Checked(LoadFile(s, files[s]))]
      /\ watch = [phase |-> "off", sig |-> 0, first |-> 0,
                  found |-> [s \in Scripts |-> Absent], todo |-> {}]
      /\ worker = [w \in Workers |-> [ phase |-> "idle", job |-> NoJob, built |-> FALSE, dirty |-> FALSE,
                                       gen |-> 0, exports |-> [s \in Scripts |-> Absent] ]]
      /\ caller = [c \in Callers |-> Idle]
      /\ record = [s \in Scripts |-> <<>>]
  BY Zenon DEF Init, Directory
<1>2. ASSUME NEW s \in Scripts
      PROVE  /\ reg[s] \in Entry /\ reg[s].streak = 0
             /\ reg[s].program <=> reg[s].hash \in Sources \ Broken /\ s \notin SwitchedOff
             /\ reg[s].status = "active" => reg[s].program
             /\ reg[s].status = "none" <=> reg[s].hash = Absent
  <2> DEFINE e == LoadFile(s, files[s])
  <2>1. files[s] \in Sources \cup {Absent}
    BY <1>1 DEF Directory
  <2>2. /\ e \in Entry /\ e.hash = files[s] /\ e.streak = 0
        /\ e.status = "none" <=> files[s] = Absent
        /\ e.program <=> files[s] \in Sources \ Broken /\ s \notin SwitchedOff
        /\ e.status = "active" <=> e.program
    BY <2>1, LoadFileShape, Zenon
  <2>3. reg[s] = Checked(e)
    BY <1>1, Zenon
  <2> HIDE DEF e
  <2>4. /\ reg[s] \in Entry /\ reg[s].hash = e.hash /\ reg[s].program = e.program /\ reg[s].streak = e.streak
        /\ reg[s].status = e.status \/ (e.status = "active" /\ reg[s].status = "failed")
    BY <2>2, <2>3, CheckedShape, Zenon
  <2> QED
    BY <2>2, <2>4
<1>3. reg \in [Scripts -> Entry]
  <2>1. \A s \in Scripts : Checked(LoadFile(s, files[s])) \in Entry
    BY <1>1, <1>2
  <2> QED
    BY <1>1, <2>1, Zenon
<1>4. [s \in Scripts |-> Absent] \in Directory
  BY DEF Directory
<1>5. watch \in WatchState /\ watch.phase = "off" /\ watch.sig = 0 /\ watch.first = 0
  BY <1>1, <1>4, ScriptingAssumption DEF WatchState
<1>6. /\ worker \in [Workers -> Interpreter]
      /\ \A w \in Workers : /\ worker[w].phase = "idle" /\ worker[w].job = NoJob
                            /\ worker[w].built = FALSE /\ worker[w].gen = 0
  <2> DEFINE i == [ phase |-> "idle", job |-> NoJob, built |-> FALSE, dirty |-> FALSE,
                    gen |-> 0, exports |-> [s \in Scripts |-> Absent] ]
  <2>1. i \in Interpreter /\ i.phase = "idle" /\ i.job = NoJob /\ i.built = FALSE /\ i.gen = 0
    BY <1>4 DEF Interpreter
  <2>2. worker = [w \in Workers |-> i]
    BY <1>1, Zenon
  <2> HIDE DEF i
  <2> QED
    BY <2>1, <2>2, Zenon
<1>7. caller \in [Callers -> Invocation] /\ \A c \in Callers : caller[c].phase = "idle"
  BY <1>1, Constants, Zenon
<1>8. queue \in Seq(Callers) /\ Len(queue) = 0 /\ DOMAIN queue = {} /\ Len(queue) <= QueueSize
  BY <1>1, ScriptingAssumption
<1>9. JobsAreSingle
  <2>1. "idle" # "queued"
    OBVIOUS
  <2>2. \A c \in Callers : c # NoJob
    BY Constants, Zenon
  <2> QED
    BY <1>6, <1>7, <1>8, <2>1, <2>2, Zenon DEF JobsAreSingle
<1>10. record \in [Scripts -> Seq({"ok", "fail", "late"})] /\ \A s \in Scripts : record[s] = <<>>
  BY <1>1
<1>11. edits \in 0..MaxEdits /\ toggles \in 0..MaxToggles /\ gen \in Nat /\ closed \in BOOLEAN
  <2>1. 0 \in 0..MaxEdits /\ 0 \in 0..MaxToggles /\ 1 \in Nat
    BY ScriptingAssumption
  <2> QED
    BY <1>1, <2>1, Zenon
<1>12. TypeOK
  BY <1>1, <1>3, <1>5, <1>6, <1>7, <1>8, <1>9, <1>10, <1>11, Zenon DEF TypeOK
<1>13. Busy
  BY <1>6, <1>7, Zenon DEF Busy
<1>14. EntriesSound
  BY <1>2, Zenon DEF EntriesSound
<1>15. GenerationInv
  BY <1>1, <1>6 DEF GenerationInv, LoadedMatchesGeneration
<1>16. WatchInv
  BY <1>1, <1>5 DEF WatchInv
<1>17. StreakInv
  <2>1. Len(<<>>) <= Threshold
    BY ScriptingAssumption
  <2> QED
    BY <1>2, <1>10, <2>1, CountedEmpty, Zenon DEF StreakInv, Counted
<1>18. QuarantineInv
  <2>1. Len(<<>>) # Threshold
    BY ScriptingAssumption
  <2> QED
    BY <1>10, <2>1, Zenon DEF QuarantineInv, AllOf
<1> QED
  BY <1>12, <1>13, <1>14, <1>15, <1>16, <1>17, <1>18, Zenon DEF ScriptingInv

LEMMA Inductive == ScriptingInv /\ [Next]_vars => ScriptingInv'
<1> SUFFICES ASSUME ScriptingInv, [Next]_vars PROVE ScriptingInv'
  OBVIOUS
<1>1. Regular /\ EntriesStep /\ PoolStep /\ WatchStep
  BY StepShape
<1>2. TypeOK /\ GenerationInv /\ StreakInv /\ QuarantineInv
  BY Zenon DEF ScriptingInv
<1>3. TypeOK' /\ Busy' /\ WatchInv'
  BY <1>1, Zenon DEF TypeOK, Results, EntriesStep, PoolStep, WatchStep
<1>4. EntriesSound'
  BY <1>1, EntriesSoundStep
<1>5. GenerationInv'
  BY <1>1, <1>2, GenerationStep
<1>6. StreakInv'
  BY <1>1, <1>2, StreakStep
<1>7. QuarantineInv'
  <2>1. \A s \in Scripts : CheckStep(s)
    BY <1>1, Zenon DEF WatchStep
  <2> QED
    BY <1>1, <1>2, <1>6, <2>1, QuarantineStep, Zenon
<1> QED
  BY <1>3, <1>4, <1>5, <1>6, <1>7, Zenon DEF ScriptingInv

LEMMA Invariance == Spec => []ScriptingInv
  BY InitInv, Inductive, PTL DEF Spec

------------------------------------------------------------------------------

\* In every run of the scripting subsystem its state has its type, the job
\* channel holds no more than its capacity, and a job queued by Pool.Call is
\* once in the channel or with one worker until it is answered.
THEOREM TypeCorrect == Spec => []TypeOK
<1>1. ScriptingInv => TypeOK
  BY Zenon DEF ScriptingInv
<1> QED
  BY <1>1, Invariance, PTL

\* An interpreter of the current generation holds exactly what the registry
\* serves (Pool.build and call, and every registry operation that bumps gen).
THEOREM InterpretersMatch == Spec => []LoadedMatchesGeneration
<1>1. ScriptingInv => LoadedMatchesGeneration
  BY Zenon DEF ScriptingInv, GenerationInv
<1> QED
  BY <1>1, Invariance, PTL

\* A watcher at rest that would find nothing new has served every change since
\* its first look (Watch, Registry.Reload), however edits fall between its steps.
THEOREM EditsServed == Spec => []EditsAreServed
<1>1. ScriptingInv => EditsAreServed
  BY Zenon DEF ScriptingInv, WatchInv, EditsAreServed
<1> QED
  BY <1>1, Invariance, PTL

\* No script stays in service after Threshold failures in a row that were
\* reported while it served (RecordResult, CallChecked), whatever reloads,
\* switches and late replies come between them.
THEOREM FailingScriptsLeave == Spec => []FailuresQuarantine
<1>1. ScriptingInv => FailuresQuarantine
  <2> SUFFICES ASSUME ScriptingInv, NEW s \in Scripts, reg[s].status = "active",
                      watch.phase \notin {"list", "check"}, AllOf(record[s], {"fail"})
               PROVE  FALSE
    BY Zenon DEF FailuresQuarantine
  <2>1. reg[s].program
    BY Zenon DEF ScriptingInv, EntriesSound
  <2>2. \/ reg[s].status = "quarantined"
        \/ MetaRejected(reg[s].hash) /\ (reg[s].status = "active" => AwaitsCheck(s))
    BY <2>1, Zenon DEF ScriptingInv, QuarantineInv
  <2>3. watch.phase # "list" /\ watch.phase # "check" /\ "active" # "quarantined"
    OBVIOUS
  <2> QED
    BY <2>2, <2>3, Zenon DEF AwaitsCheck
<1> QED
  BY <1>1, Invariance, PTL

LEMMA EarnedAndKept ==
    ASSUME ScriptingInv, ScriptingInv', [Next]_vars, NEW s \in Scripts
    PROVE  /\ reg'[s].status = "quarantined" /\ reg[s].status # "quarantined"
                  => AllOf(record'[s], {"fail", "late"})
           /\ reg[s].status = "quarantined" /\ reg'[s].status = "active"
                  => reg'[s].hash # reg[s].hash \/ toggles' # toggles
<1>1. Regular /\ EntriesStep /\ StreakInv' /\ EntriesSound'
  BY StepShape, Zenon DEF ScriptingInv
<1>2. EntryStep(s) /\ reg[s] \in Entry /\ record'[s] \in Seq(Results)
  BY <1>1 DEF EntriesStep, Regular, TypeOK
<1>3. CASE SameEntry(s)
  <2>1. reg'[s] = reg[s] /\ "quarantined" # "active"
    BY <1>3 DEF SameEntry
  <2> QED
    BY <2>1, Zenon
<1>4. CASE TurnedOn(s)
  <2>1. reg'[s].status = "active" /\ toggles' # toggles /\ "quarantined" # "active"
    BY <1>1, <1>4, KeptShape DEF TurnedOn
  <2> QED
    BY <2>1, Zenon
<1>5. CASE TurnedOff(s) \/ FailedCheck(s)
  <2>1. reg'[s].status \in {"disabled", "failed"}
    BY <1>1, <1>5, KeptShape, Zenon
  <2> QED
    BY <2>1
<1>6. CASE Reloaded(s)
  <2>1. PICK new \in Entry : reg'[s] = Merged(reg[s], new) /\ new.status # "quarantined"
    BY <1>1, <1>6, ReloadedShape, Zenon
  <2> DEFINE e == Merged(reg[s], new)
  <2>2. /\ e.hash = new.hash
        /\ \/ e.status = new.status
           \/ /\ new.status = "active" /\ reg[s].status = "quarantined" /\ reg[s].hash = new.hash
              /\ e.status = "quarantined"
        /\ reg[s].status = "quarantined" /\ reg[s].hash = new.hash => e.status # "active"
    BY <1>2, MergedShape, Zenon
  <2>3. reg'[s] = e
    BY <2>1, Zenon
  <2> HIDE DEF e
  <2> QED
    BY <2>1, <2>2, <2>3, Zenon
<1>7. CASE Reported(s)
  <2>1. PICK ok \in BOOLEAN : reg'[s] = Recorded(reg[s], ok)
    BY <1>7, Zenon DEF Reported
  <2> DEFINE e == Recorded(reg[s], ok)
  <2>2. /\ e \in Entry
        /\ \/ e.status = reg[s].status
           \/ /\ reg[s].status = "active" /\ e.status = "quarantined" /\ e.program = reg[s].program
              /\ e.streak >= Threshold
    BY <1>2, RecordedShape
  <2>3. reg'[s] = e
    BY <2>1, Zenon
  <2> HIDE DEF e
  <2>4. CASE e.status = reg[s].status
    <3>1. "quarantined" # "active"
      OBVIOUS
    <3> QED
      BY <2>3, <2>4, <3>1, Zenon
  <2>5. CASE /\ reg[s].status = "active" /\ e.status = "quarantined" /\ e.program = reg[s].program
             /\ e.streak >= Threshold
    <3>1. reg'[s].program /\ reg'[s].streak \in Nat /\ reg'[s].streak >= Threshold
      BY <1>1, <2>2, <2>3, <2>5 DEF Regular, EntriesSound, Entry
    <3>2. /\ Len(record'[s]) <= Threshold
          /\ \A m \in 0..(Threshold - 1) : m < reg'[s].streak =>
                m < Len(record'[s]) /\ Back(record'[s], m) # "ok"
      BY <1>1, <3>1, Zenon DEF StreakInv
    <3>3. \A m \in 0..(Threshold - 1) : m < reg'[s].streak
      BY <3>1, ScriptingAssumption
    <3>4. Len(record'[s]) = Threshold
      <4>1. Len(record'[s]) \in Nat /\ Threshold \in Nat /\ Threshold - 1 \in 0..(Threshold - 1)
        BY <1>2, ScriptingAssumption
      <4>2. Threshold - 1 < Len(record'[s])
        BY <3>2, <3>3, <4>1, Zenon
      <4> QED
        BY <3>2, <4>1, <4>2
    <3>5. \A m \in 0..(Threshold - 1) : Back(record'[s], m) \in Results \ {"ok"}
      <4>1. ASSUME NEW m \in 0..(Threshold - 1) PROVE Back(record'[s], m) \in Results
        BY <1>2, <3>4, ScriptingAssumption DEF Back
      <4>2. \A m \in 0..(Threshold - 1) : Back(record'[s], m) # "ok"
        BY <3>2, <3>3, Zenon
      <4> QED
        BY <4>1, <4>2
    <3>6. \A i \in DOMAIN record'[s] : record'[s][i] \in Results \ {"ok"}
      BY <1>2, <3>4, <3>5, AllBack, Zenon
    <3>7. Results \ {"ok"} = {"fail", "late"} /\ "quarantined" # "active"
      BY DEF Results
    <3>8. AllOf(record'[s], {"fail", "late"})
      BY <3>4, <3>6, <3>7, Zenon DEF AllOf
    <3> QED
      BY <2>3, <2>5, <3>7, <3>8, Zenon
  <2> QED
    BY <2>2, <2>4, <2>5, Zenon
<1> QED
  BY <1>2, <1>3, <1>4, <1>5, <1>6, <1>7, Zenon DEF EntryStep

\* A script is quarantined by the last of Threshold failures in a row and by
\* nothing else (RecordResult); a reload of the same source keeps it out, and
\* only another source or the operator brings it back (Reload, SetEnabled).
THEOREM QuarantineEarned == Spec => QuarantineIsEarnedAndKept
<1> DEFINE A == \A s \in Scripts :
           /\ reg'[s].status = "quarantined" /\ reg[s].status # "quarantined"
                  => AllOf(record'[s], {"fail", "late"})
           /\ reg[s].status = "quarantined" /\ reg'[s].status = "active"
                  => reg'[s].hash # reg[s].hash \/ toggles' # toggles
<1>1. ASSUME ScriptingInv, ScriptingInv', [Next]_vars PROVE [A]_vars
  <2>1. A
    BY <1>1, EarnedAndKept
  <2> QED
    BY <2>1
<1>2. ScriptingInv /\ ScriptingInv' /\ [Next]_vars => [A]_vars
  BY <1>1
<1>3. [][A]_vars => QuarantineIsEarnedAndKept
  BY PTL DEF QuarantineIsEarnedAndKept
<1> HIDE DEF A
<1> QED
  BY <1>2, <1>3, Invariance, PTL DEF Spec
==============================================================================
