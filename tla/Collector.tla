------------------------------ MODULE Collector ------------------------------
(***************************************************************************)
(* The collector's scheduler (internal/collector/scheduler.go): one loop   *)
(* hands due devices to a fixed set of workers over an unbuffered channel, *)
(* and a worker polls its device, publishes what it found and takes the    *)
(* device out of the in-flight table.                                      *)
(*                                                                         *)
(* Time is relative, so that behaviours are unbounded and the state is     *)
(* not: due counts down to a device's next poll, ages count up from the    *)
(* start of a poll, of a scan and of the newest published poll.  A poll    *)
(* ends at the latest when its deadline, the device's interval, is over; a *)
(* publish has no deadline and waits as long as its acknowledgement does.  *)
(***************************************************************************)
EXTENDS Integers, Sequences, FiniteSets

CONSTANTS
    DeviceList,   \* registry.List: devices in the order the scan visits them
    Enabled,      \* the ones that are enabled and polled over SNMP
    Interval,     \* [device -> its interval, or the default one]
    Offset,       \* [device -> delay of its first poll]
    Workers,
    MaxLag,       \* bound: how long a hand-off keeps the scan waiting
    Oldest        \* bound: ages are told apart up to here, and a poll with its
                  \* publish, if that is acknowledged, is over before it is that old

None == "none"

Devices == { DeviceList[i] : i \in DOMAIN DeviceList }

ASSUME CollectorAssumption ==
    /\ DeviceList \in Seq(Devices) /\ None \notin Devices /\ Enabled \subseteq Devices
    /\ \A d \in Devices : Interval[d] \in Nat \ {0} /\ Offset[d] \in 0..(Interval[d] - 1)
    /\ Workers # {} /\ MaxLag \in Nat
    /\ Oldest \in Nat /\ \A d \in Devices : Oldest > Interval[d] + MaxLag

VARIABLES
    due,        \* next: time left until the device is due, once it is known;
                \* negative: how long it has been due, as far as that matters
    known,      \* devices in the next map
    inflight,   \* Scheduler.inflight
    scan,       \* the loop: where it is, which device, how old its "now" is
    worker,     \* [Workers -> phase, device, age of the poll]
    newest,     \* history: age of the newest published poll of each device
    stopped     \* ctx is cancelled

vars == <<due, known, inflight, scan, worker, newest, stopped>>

Free  == [phase |-> "idle", device |-> None, age |-> 0]
Sleep == [phase |-> "sleep", i |-> 0, lag |-> 0]

(***************************************************************************)
(* The scheduler's loop.                                                   *)
(***************************************************************************)
LoopStays == UNCHANGED <<newest, stopped>>

\* The timer fires; it is never set later than a second ahead.
Wake ==
    /\ scan.phase = "sleep" /\ ~stopped
    /\ scan' = [phase |-> "scan", i |-> 1, lag |-> 0]
    /\ UNCHANGED <<due, known, inflight, worker>> /\ LoopStays

\* A device the scan does not pass over.
Eligible(d) == d \in Enabled

\* When a device that was not known before is due.
DueAt(d) == IF d \in known THEN due[d] ELSE Offset[d] - scan.lag

\* One device of the scan: unknown ones get their first due time, one that was
\* due when the scan began is marked in flight and handed over, or skipped for
\* a cycle if its last poll is still running.
Visit ==
    LET d    == DeviceList[scan.i]
        hit  == Eligible(d) /\ DueAt(d) + scan.lag <= 0
        busy == d \in inflight
    IN  /\ scan.phase = "scan" /\ scan.i <= Len(DeviceList)
        /\ known' = IF Eligible(d) THEN known \cup {d} ELSE known
        /\ due' = [due EXCEPT ![d] = IF hit THEN Interval[d] - scan.lag
                                     ELSE IF Eligible(d) THEN DueAt(d) ELSE @]
        /\ inflight' = IF hit THEN inflight \cup {d} ELSE inflight
        /\ scan' = IF hit /\ ~busy THEN [scan EXCEPT !.phase = "handoff"]
                   ELSE [scan EXCEPT !.i = @ + 1]
        /\ UNCHANGED worker /\ LoopStays

\* The unbuffered send: a worker that waits takes the device.
HandOff(w) ==
    /\ scan.phase = "handoff" /\ worker[w].phase = "idle"
    /\ worker' = [worker EXCEPT ![w] = [Free EXCEPT !.phase = "polling", !.device = DeviceList[scan.i]]]
    /\ scan' = [scan EXCEPT !.phase = "scan", !.i = @ + 1]
    /\ UNCHANGED <<due, known, inflight>> /\ LoopStays

EndScan ==
    /\ scan.phase = "scan" /\ scan.i > Len(DeviceList)
    /\ scan' = Sleep
    /\ UNCHANGED <<due, known, inflight, worker>> /\ LoopStays

\* Mutated: only the blocked hand-off looks at the context.
LeaveAsleep ==
    /\ stopped /\ scan.phase = "handoff"
    /\ scan' = [Sleep EXCEPT !.phase = "left"]
    /\ UNCHANGED <<due, known, inflight, worker>> /\ LoopStays

\* Run returns from either select once the context is cancelled and closes the
\* channel; idle workers leave their loop.
Leave ==
    /\ stopped /\ scan.phase \in {"sleep", "handoff"}
    /\ scan' = [Sleep EXCEPT !.phase = "left"]
    /\ UNCHANGED <<due, known, inflight, worker>> /\ LoopStays

Loop == Wake \/ Visit \/ (\E w \in Workers : HandOff(w)) \/ EndScan \/ Leave

(***************************************************************************)
(* The workers: PollOnce and the end of the in-flight entry.               *)
(***************************************************************************)
\* Mutated: the device leaves the in-flight table as soon as its poll is over.
PollEndsEarly(w) ==
    /\ worker[w].phase = "polling"
    /\ worker' = [worker EXCEPT ![w].phase = "publishing"]
    /\ inflight' = inflight \ {worker[w].device}
    /\ UNCHANGED <<due, known, scan>> /\ LoopStays

\* Poll returns: a result, an error of the device, or the deadline's or the
\* context's error.  Either way there is a cycle to publish.
PollEnds(w) ==
    /\ worker[w].phase = "polling"
    /\ worker' = [worker EXCEPT ![w].phase = "publishing"]
    /\ UNCHANGED <<due, known, inflight, scan>> /\ LoopStays

\* Mutated: a cycle whose publish failed leaves its in-flight entry behind.
PublishForgets(w, stored) ==
    LET d == worker[w].device
    IN  /\ worker[w].phase = "publishing"
        /\ newest' = [newest EXCEPT ![d] = IF stored THEN worker[w].age ELSE @]
        /\ worker' = [worker EXCEPT ![w] = Free]
        /\ inflight' = IF stored THEN inflight \ {d} ELSE inflight
        /\ UNCHANGED <<due, known, scan, stopped>>

\* Sink.Observations stores the cycle, or fails and the cycle is given up; on
\* either path the worker removes the in-flight entry and waits for a job.
Publish(w, stored) ==
    LET d == worker[w].device
    IN  /\ worker[w].phase = "publishing"
        /\ newest' = [newest EXCEPT ![d] = IF stored THEN worker[w].age ELSE @]
        /\ worker' = [worker EXCEPT ![w] = Free]
        /\ inflight' = inflight \ {d}
        /\ UNCHANGED <<due, known, scan, stopped>>

\* The acknowledgement of a publish is lost, with or without the message: the
\* worker goes on waiting, and the device stays in flight.
LoseAck(w, stored) ==
    LET d == worker[w].device
    IN  /\ worker[w].phase = "publishing"
        /\ newest' = [newest EXCEPT ![d] = IF stored THEN worker[w].age ELSE @]
        /\ worker' = [worker EXCEPT ![w].phase = "blocked"]
        /\ UNCHANGED <<due, known, inflight, scan, stopped>>

\* What ends that wait is the error of a lost connection or the context.
GiveUp(w) ==
    /\ worker[w].phase = "blocked"
    /\ worker' = [worker EXCEPT ![w] = Free]
    /\ inflight' = inflight \ {worker[w].device}
    /\ UNCHANGED <<due, known, scan>> /\ LoopStays

\* What a worker does in the end: a poll has its deadline, a publish ends
\* unless its acknowledgement is lost, and a lost one ends with the context.
Poll(w) == \/ PollEnds(w) \/ \E stored \in BOOLEAN : Publish(w, stored)
           \/ stopped /\ GiveUp(w)

(***************************************************************************)
(* The environment.                                                        *)
(***************************************************************************)
Older(n) == IF n < Oldest THEN n + 1 ELSE n

\* Time passes: not beyond the deadline of a poll, but for as long as it takes
\* while a publish waits for an acknowledgement that does not come.
Tick ==
    /\ ~stopped
    /\ \A w \in Workers : worker[w].phase = "polling" => worker[w].age < Interval[worker[w].device]
    /\ \A w \in Workers : worker[w].phase \in {"polling", "publishing"} => worker[w].age < Oldest - 1
    /\ scan.lag < MaxLag
    /\ due' = [d \in Devices |-> IF d \in known /\ due[d] > 0 - MaxLag THEN due[d] - 1 ELSE due[d]]
    /\ worker' = [w \in Workers |-> IF worker[w].phase = "idle" THEN worker[w]
                                    ELSE [worker[w] EXCEPT !.age = Older(@)]]
    /\ newest' = [d \in Devices |-> Older(newest[d])]
    /\ scan' = IF scan.phase \in {"scan", "handoff"} THEN [scan EXCEPT !.lag = @ + 1] ELSE scan
    /\ UNCHANGED <<known, inflight, stopped>>

Stop ==
    /\ ~stopped /\ stopped' = TRUE
    /\ UNCHANGED <<due, known, inflight, scan, worker, newest>>

Init ==
    /\ due = [d \in Devices |-> 0] /\ known = {} /\ inflight = {}
    /\ scan = Sleep
    /\ worker = [w \in Workers |-> Free]
    /\ newest = [d \in Devices |-> Oldest]
    /\ stopped = FALSE

Next == \/ Loop \/ Tick \/ Stop
        \/ \E w \in Workers : \/ Poll(w) \/ GiveUp(w)
                              \/ \E stored \in BOOLEAN : LoseAck(w, stored)

\* The loop and the workers are goroutines and polls have deadlines; time
\* passes.  Nothing makes an operator stop the process, an acknowledgement get
\* lost or a lost connection report its error.
Fairness == WF_vars(Loop) /\ WF_vars(Tick) /\ \A w \in Workers : WF_vars(Poll(w))

Spec == Init /\ [][Next]_vars /\ Fairness

------------------------------------------------------------------------------

\* Type invariant; only enabled devices are ever known or in flight.
TypeOK ==
    /\ due \in [Devices -> (0 - MaxLag)..Oldest] /\ known \subseteq Enabled
    /\ inflight \subseteq Enabled
    /\ scan.phase \in {"sleep", "scan", "handoff", "left"} /\ scan.lag \in 0..MaxLag
    /\ \A w \in Workers : /\ worker[w].phase \in {"idle", "polling", "publishing", "blocked"}
                          /\ worker[w].device \in Devices \cup {None}
                          /\ worker[w].age \in 0..Oldest
    /\ newest \in [Devices -> 0..Oldest] /\ stopped \in BOOLEAN

\* A device is polled by one worker at a time, and no cycle it publishes began
\* before the one published before it: the processor discards samples that are
\* older than what it has (Scheduler.Run, inflight).
PublishedInOrder ==
    \A w \in Workers : worker[w].phase # "idle" =>
        /\ newest[worker[w].device] >= worker[w].age
        /\ \A v \in Workers \ {w} : worker[v].device # worker[w].device

Polled(d) == \E w \in Workers : worker[w].phase = "polling" /\ worker[w].device = d

\* This device's, or every worker's, publish waits for a lost acknowledgement.
Blocked(d) == \E w \in Workers : worker[w].phase = "blocked" /\ worker[w].device = d
AllBlocked == \A w \in Workers : worker[w].phase = "blocked"

\* While the collector runs every enabled device is polled again and again,
\* whatever the other devices' polls and publishes do: the in-flight entry is
\* removed on every path that returns, a hand-off waits at most for a poll's
\* deadline, and a publish that waits for a lost acknowledgement holds up its
\* own device and, only when it has got every worker, the others (Run,
\* PollOnce).
EveryDeviceIsPolledAgain ==
    \A d \in Enabled : []<>(Polled(d) \/ stopped \/ Blocked(d) \/ AllBlocked)

\* After the context is cancelled the loop returns and no worker is left in a
\* poll or a publish, lost acknowledgements included (Run's deferred close and
\* wait).
ShutdownCompletes ==
    stopped ~> scan.phase = "left" /\ \A w \in Workers : worker[w].phase = "idle"
==============================================================================
