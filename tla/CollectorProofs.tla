-------------------------- MODULE CollectorProofs --------------------------
(***************************************************************************)
(* The collector never has two workers on one device and publishes the     *)
(* cycles of a device in the order they began, for every device list, any  *)
(* number of workers and every choice of intervals.                        *)
(***************************************************************************)
EXTENDS Collector, TLAPS

Phases == {"idle", "polling", "publishing", "blocked"}
Polls  == [phase : Phases, device : Devices \cup {None}, age : Nat]
Scans  == [phase : {"sleep", "scan", "handoff", "left"}, i : Nat, lag : Nat]

\* The part of the type invariant the argument needs.
Shape ==
    /\ worker \in [Workers -> Polls] /\ newest \in [Devices -> Nat]
    /\ scan \in Scans /\ inflight \subseteq Devices

Busy(w) == worker[w].phase # "idle"

\* The in-flight table covers every worker that has a device: that is what
\* makes the loop's check for an earlier poll sound.
BusyIsInFlight ==
    \A w \in Workers : IF Busy(w) THEN worker[w].device \in inflight
                       ELSE worker[w].device = None

OneWorkerPerDevice ==
    \A v, w \in Workers : Busy(v) /\ Busy(w) /\ v # w => worker[v].device # worker[w].device

\* The device offered on the channel is marked already and nobody has it.
OfferedIsReserved ==
    scan.phase = "handoff" =>
        /\ scan.i \in 1..Len(DeviceList) /\ DeviceList[scan.i] \in inflight
        /\ \A w \in Workers : worker[w].device # DeviceList[scan.i]

ScanStarts == scan.phase = "scan" => scan.i >= 1

\* A running poll began after the newest published one.
NewestIsOlder ==
    \A w \in Workers : Busy(w) => newest[worker[w].device] >= worker[w].age

\* The inductive invariant: PublishedInOrder says nothing of the in-flight
\* table or of the device that is waiting on the channel.
IInv == /\ Shape /\ BusyIsInFlight /\ OneWorkerPerDevice /\ OfferedIsReserved
        /\ ScanStarts /\ NewestIsOlder

-----------------------------------------------------------------------------
LEMMA InitIInv == Init => IInv
<1> SUFFICES ASSUME Init PROVE IInv
  OBVIOUS
<1>1. Free \in Polls /\ Free.phase = "idle" /\ Free.device = None
  BY DEF Free, Polls, Phases
<1>2. Sleep \in Scans /\ Sleep.phase = "sleep"
  BY DEF Sleep, Scans
<1> QED
  BY <1>1, <1>2, CollectorAssumption DEF Init, IInv, Shape, BusyIsInFlight, OneWorkerPerDevice,
     OfferedIsReserved, ScanStarts, NewestIsOlder, Busy

LEMMA NextIInv == IInv /\ [Next]_vars => IInv'
<1> SUFFICES ASSUME IInv, [Next]_vars PROVE IInv'
  OBVIOUS
<1>a. /\ Shape /\ BusyIsInFlight /\ OneWorkerPerDevice /\ OfferedIsReserved
      /\ ScanStarts /\ NewestIsOlder
  BY DEF IInv
<1>b. \A w \in Workers : worker[w] \in Polls
  BY <1>a DEF Shape
<1>c. DeviceList \in Seq(Devices) /\ None \notin Devices
  BY CollectorAssumption
<1>s. Free \in Polls /\ Free.phase = "idle" /\ Free.device = None
      /\ Sleep \in Scans /\ Sleep.phase = "sleep"
  BY DEF Free, Polls, Phases, Sleep, Scans
<1>1. CASE Wake
  <2>1. scan' \in Scans /\ scan'.phase = "scan" /\ scan'.i = 1
    BY <1>1 DEF Wake, Scans
  <2> QED
    BY <1>1, <1>a, <2>1 DEF Wake, LoopStays, IInv, Shape, BusyIsInFlight, OneWorkerPerDevice,
       OfferedIsReserved, ScanStarts, NewestIsOlder, Busy
<1>2. CASE Visit
  <2> DEFINE d == DeviceList[scan.i]
             hit == Eligible(d) /\ DueAt(d) + scan.lag <= 0
  <2>1. /\ scan.phase = "scan" /\ scan.i <= Len(DeviceList)
        /\ inflight' = IF hit THEN inflight \cup {d} ELSE inflight
        /\ scan' = IF hit /\ d \notin inflight THEN [scan EXCEPT !.phase = "handoff"]
                   ELSE [scan EXCEPT !.i = @ + 1]
        /\ worker' = worker /\ newest' = newest
    BY <1>2 DEF Visit, LoopStays
  <2>2. scan.i \in 1..Len(DeviceList) /\ d \in Devices
    BY <1>a, <1>c, <2>1 DEF Shape, Scans, ScanStarts
  <2> HIDE DEF d, hit
  <2>3. scan' \in Scans /\ (scan'.phase = "handoff" => scan'.i = scan.i /\ hit /\ d \notin inflight)
        /\ (scan'.phase = "scan" => scan'.i >= 1)
    BY <1>a, <2>1, <2>2 DEF Shape, Scans
  <2>4. inflight \subseteq inflight' /\ inflight' \subseteq Devices /\ (hit => d \in inflight')
    BY <1>a, <2>1, <2>2 DEF Shape
  <2>5. Shape'
    BY <1>a, <2>1, <2>3, <2>4 DEF Shape
  <2>6. BusyIsInFlight' /\ OneWorkerPerDevice' /\ NewestIsOlder' /\ ScanStarts'
    BY <1>a, <2>1, <2>3, <2>4 DEF BusyIsInFlight, OneWorkerPerDevice, NewestIsOlder, Busy, ScanStarts
  <2>7. OfferedIsReserved'
    <3> SUFFICES ASSUME scan'.phase = "handoff"
                 PROVE  /\ scan'.i \in 1..Len(DeviceList) /\ d \in inflight'
                        /\ DeviceList[scan'.i] = d
                        /\ \A w \in Workers : worker[w].device # d
      BY <2>1 DEF OfferedIsReserved
    <3>1. \A w \in Workers : worker[w].device # d
      BY <1>a, <1>c, <2>2, <2>3 DEF BusyIsInFlight
    <3> QED
      BY <2>2, <2>3, <2>4, <3>1 DEF d
  <2> QED
    BY <2>5, <2>6, <2>7 DEF IInv
<1>3. ASSUME NEW w \in Workers, HandOff(w) PROVE IInv'
  <2> DEFINE d == DeviceList[scan.i]
             job == [Free EXCEPT !.phase = "polling", !.device = d]
  <2>1. /\ scan.phase = "handoff" /\ worker[w].phase = "idle"
        /\ worker' = [worker EXCEPT ![w] = job]
        /\ scan' = [scan EXCEPT !.phase = "scan", !.i = @ + 1]
        /\ inflight' = inflight /\ newest' = newest
    BY <1>3 DEF HandOff, LoopStays
  <2>2. d \in inflight /\ d \in Devices /\ scan.i \in Nat /\ \A v \in Workers : worker[v].device # d
    BY <1>a, <2>1 DEF OfferedIsReserved, Shape, Scans
  <2> HIDE DEF d
  <2>3. scan' \in Scans /\ scan'.phase = "scan" /\ scan'.i >= 1
    <3>1. scan \in Scans
      BY <1>a DEF Shape
    <3>2. scan' = [scan EXCEPT !.phase = "scan", !.i = scan.i + 1]
      BY <2>1, Zenon
    <3>3. scan.i \in Nat /\ scan.lag \in Nat
      BY <3>1 DEF Scans
    <3>4. scan' = [phase |-> "scan", i |-> scan.i + 1, lag |-> scan.lag]
      BY <3>1, <3>2 DEF Scans
    <3> QED
      BY <3>3, <3>4 DEF Scans
  <2>4. job \in Polls /\ job.phase = "polling" /\ job.device = d /\ job.age = 0
    BY <2>2 DEF Free, Polls, Phases
  <2> HIDE DEF job
  <2>5. \A v \in Workers : worker'[v] = IF v = w THEN job ELSE worker[v]
    BY <1>a, <2>1 DEF Shape
  <2>6. Shape'
    BY <1>a, <2>1, <2>3, <2>4 DEF Shape
  <2>7. BusyIsInFlight' /\ OneWorkerPerDevice'
    BY <1>a, <2>1, <2>2, <2>4, <2>5 DEF BusyIsInFlight, OneWorkerPerDevice, Busy
  <2>8. NewestIsOlder'
    BY <1>a, <2>1, <2>2, <2>4, <2>5 DEF NewestIsOlder, Busy, Shape
  <2> QED
    BY <2>3, <2>6, <2>7, <2>8 DEF IInv, OfferedIsReserved, ScanStarts
<1>4. CASE EndScan \/ Leave
  <2>1. scan' \in Scans /\ scan'.phase \in {"sleep", "left"}
    BY <1>4, <1>s DEF EndScan, Leave, Scans, Sleep
  <2> QED
    BY <1>4, <1>a, <2>1 DEF EndScan, Leave, LoopStays, IInv, Shape, BusyIsInFlight,
       OneWorkerPerDevice, OfferedIsReserved, ScanStarts, NewestIsOlder, Busy
<1>5. ASSUME NEW w \in Workers, PollEnds(w) PROVE IInv'
  <2>1. /\ worker[w].phase = "polling"
        /\ worker' = [worker EXCEPT ![w].phase = "publishing"]
        /\ inflight' = inflight /\ newest' = newest /\ scan' = scan
    BY <1>5 DEF PollEnds, LoopStays
  <2>2. /\ worker' \in [Workers -> Polls]
        /\ \A v \in Workers : /\ worker'[v].device = worker[v].device /\ worker'[v].age = worker[v].age
                              /\ worker'[v].phase = "idle" <=> worker[v].phase = "idle"
    BY <1>a, <1>b, <2>1 DEF Shape, Polls, Phases
  <2> QED
    BY <1>a, <2>1, <2>2 DEF IInv, Shape, BusyIsInFlight,
       OneWorkerPerDevice, OfferedIsReserved, ScanStarts, NewestIsOlder, Busy
<1>6. ASSUME NEW w \in Workers, NEW stored \in BOOLEAN, Publish(w, stored) PROVE IInv'
  <2> DEFINE d == worker[w].device
  <2>1. /\ worker[w].phase = "publishing"
        /\ newest' = [newest EXCEPT ![d] = IF stored THEN worker[w].age ELSE @]
        /\ worker' = [worker EXCEPT ![w] = Free]
        /\ inflight' = inflight \ {d} /\ scan' = scan
    BY <1>6 DEF Publish
  <2>2. d \in inflight /\ d \in Devices
    BY <1>a, <2>1 DEF BusyIsInFlight, Busy, Shape
  <2>3. \A v \in Workers : worker'[v] = IF v = w THEN Free ELSE worker[v]
    BY <1>a, <2>1 DEF Shape
  <2>4. \A v \in Workers \ {w} : worker[v].phase # "idle" => worker[v].device # d
    BY <1>a, <2>1 DEF OneWorkerPerDevice, Busy
  <2>5. newest' \in [Devices -> Nat] /\ \A e \in Devices : e # d => newest'[e] = newest[e]
    <3>1. worker[w].age \in Nat
      BY <1>b DEF Polls
    <3> QED
      BY <1>a, <2>1, <2>2, <3>1 DEF Shape
  <2>6. Shape'
    BY <1>a, <1>s, <2>1, <2>5 DEF Shape
  <2>7. BusyIsInFlight' /\ OneWorkerPerDevice'
    BY <1>a, <1>s, <2>1, <2>3, <2>4 DEF BusyIsInFlight, OneWorkerPerDevice, Busy
  <2>8. NewestIsOlder'
    <3> SUFFICES ASSUME NEW v \in Workers, worker'[v].phase # "idle"
                 PROVE  newest'[worker'[v].device] >= worker'[v].age
      BY DEF NewestIsOlder, Busy
    <3>1. v # w /\ worker'[v] = worker[v]
      BY <1>s, <2>3
    <3>2. worker[v].device \in Devices /\ worker[v].device # d
      BY <1>a, <2>4, <3>1 DEF BusyIsInFlight, Busy, Shape
    <3> QED
      BY <1>a, <2>5, <3>1, <3>2 DEF NewestIsOlder, Busy
  <2>9. OfferedIsReserved' /\ ScanStarts'
    <3>1. \A v \in Workers : worker'[v].device \in {worker[v].device, None}
      BY <1>s, <2>3
    <3>2. scan.phase = "handoff" => DeviceList[scan.i] # None
      BY <1>a, <1>c DEF OfferedIsReserved
    <3> QED
      BY <1>a, <2>1, <3>1, <3>2 DEF OfferedIsReserved, ScanStarts
  <2> QED
    BY <2>6, <2>7, <2>8, <2>9 DEF IInv
<1>7. ASSUME NEW w \in Workers, NEW stored \in BOOLEAN, LoseAck(w, stored) PROVE IInv'
  <2> DEFINE d == worker[w].device
  <2>1. /\ worker[w].phase = "publishing"
        /\ newest' = [newest EXCEPT ![d] = IF stored THEN worker[w].age ELSE @]
        /\ worker' = [worker EXCEPT ![w].phase = "blocked"]
        /\ inflight' = inflight /\ scan' = scan
    BY <1>7 DEF LoseAck
  <2>2. d \in Devices /\ worker[w].age \in Nat
    BY <1>a, <1>b, <2>1 DEF BusyIsInFlight, Busy, Shape, Polls
  <2>3. /\ worker' \in [Workers -> Polls]
        /\ \A v \in Workers : /\ worker'[v].device = worker[v].device /\ worker'[v].age = worker[v].age
                              /\ worker'[v].phase = "idle" <=> worker[v].phase = "idle"
    BY <1>a, <1>b, <2>1 DEF Shape, Polls, Phases
  <2>4. \A v \in Workers \ {w} : worker[v].phase # "idle" => worker[v].device # d
    BY <1>a, <2>1 DEF OneWorkerPerDevice, Busy
  <2>5. /\ newest' \in [Devices -> Nat] /\ \A e \in Devices : e # d => newest'[e] = newest[e]
        /\ newest'[d] = IF stored THEN worker[w].age ELSE newest[d]
    BY <1>a, <2>1, <2>2 DEF Shape
  <2>6. NewestIsOlder'
    <3> SUFFICES ASSUME NEW v \in Workers, worker'[v].phase # "idle"
                 PROVE  newest'[worker'[v].device] >= worker'[v].age
      BY DEF NewestIsOlder, Busy
    <3>1. /\ worker[v].phase # "idle" /\ worker'[v].device = worker[v].device
          /\ worker'[v].age = worker[v].age /\ newest[worker[v].device] >= worker[v].age
      BY <1>a, <2>3 DEF NewestIsOlder, Busy
    <3>2. CASE v = w
      BY <2>2, <2>5, <3>1, <3>2
    <3>3. CASE v # w
      <4>1. worker[v].device \in Devices /\ worker[v].device # d
        BY <1>a, <2>4, <3>1, <3>3 DEF BusyIsInFlight, Busy, Shape
      <4> QED
        BY <2>5, <3>1, <4>1
    <3> QED
      BY <3>2, <3>3
  <2> QED
    BY <1>a, <2>1, <2>3, <2>5, <2>6 DEF IInv, Shape, BusyIsInFlight,
       OneWorkerPerDevice, OfferedIsReserved, ScanStarts, Busy
<1>8. ASSUME NEW w \in Workers, GiveUp(w) PROVE IInv'
  <2> DEFINE d == worker[w].device
  <2>1. /\ worker[w].phase = "blocked" /\ newest' = newest
        /\ worker' = [worker EXCEPT ![w] = Free]
        /\ inflight' = inflight \ {d} /\ scan' = scan
    BY <1>8 DEF GiveUp, LoopStays
  <2>2. \A v \in Workers : worker'[v] = IF v = w THEN Free ELSE worker[v]
    BY <1>a, <2>1 DEF Shape
  <2>3. \A v \in Workers \ {w} : worker[v].phase # "idle" => worker[v].device # d
    BY <1>a, <2>1 DEF OneWorkerPerDevice, Busy
  <2>4. Shape'
    BY <1>a, <1>s, <2>1 DEF Shape
  <2>5. BusyIsInFlight' /\ OneWorkerPerDevice' /\ NewestIsOlder'
    BY <1>a, <1>s, <2>1, <2>2, <2>3 DEF BusyIsInFlight, OneWorkerPerDevice, NewestIsOlder, Busy
  <2>6. OfferedIsReserved' /\ ScanStarts'
    <3>1. \A v \in Workers : worker'[v].device \in {worker[v].device, None}
      BY <1>s, <2>2
    <3>2. scan.phase = "handoff" => DeviceList[scan.i] # None /\ DeviceList[scan.i] # d
      BY <1>a, <1>c DEF OfferedIsReserved
    <3> QED
      BY <1>a, <2>1, <3>1, <3>2 DEF OfferedIsReserved, ScanStarts
  <2> QED
    BY <2>4, <2>5, <2>6 DEF IInv
<1>9. CASE Tick
  <2>1. /\ worker' = [w \in Workers |-> IF worker[w].phase = "idle" THEN worker[w]
                                        ELSE [worker[w] EXCEPT !.age = Older(@)]]
        /\ newest' = [e \in Devices |-> Older(newest[e])]
        /\ scan' = IF scan.phase \in {"scan", "handoff"} THEN [scan EXCEPT !.lag = @ + 1] ELSE scan
        /\ inflight' = inflight
    BY <1>9 DEF Tick
  <2>2. /\ worker' \in [Workers -> Polls]
        /\ \A v \in Workers : /\ worker'[v].device = worker[v].device
                              /\ worker'[v].phase = worker[v].phase
                              /\ worker[v].phase # "idle" => worker'[v].age = Older(worker[v].age)
    BY <1>b, <2>1 DEF Polls, Older
  <2>3. /\ scan' \in Scans /\ scan'.phase = scan.phase /\ scan'.i = scan.i
    BY <1>a, <2>1 DEF Shape, Scans
  <2>4. /\ newest' \in [Devices -> Nat]
        /\ \A e \in Devices : newest'[e] = IF newest[e] < Oldest THEN newest[e] + 1 ELSE newest[e]
    BY <1>a, <2>1 DEF Shape, Older
  <2>5. Shape' /\ BusyIsInFlight' /\ OneWorkerPerDevice' /\ OfferedIsReserved' /\ ScanStarts'
    <3>1. Shape'
      BY <1>a, <2>1, <2>2, <2>3, <2>4 DEF Shape
    <3>2. inflight' = inflight
      BY <2>1
    <3>3. BusyIsInFlight' /\ OneWorkerPerDevice'
      BY <1>a, <2>2, <3>2 DEF BusyIsInFlight, OneWorkerPerDevice, Busy
    <3>4. OfferedIsReserved' /\ ScanStarts'
      BY <1>a, <2>2, <2>3, <3>2 DEF OfferedIsReserved, ScanStarts
    <3> QED
      BY <3>1, <3>3, <3>4
  <2>6. NewestIsOlder'
    <3> SUFFICES ASSUME NEW v \in Workers, worker'[v].phase # "idle"
                 PROVE  newest'[worker'[v].device] >= worker'[v].age
      BY DEF NewestIsOlder, Busy
    <3>1. worker[v].phase # "idle" /\ worker'[v].device = worker[v].device
          /\ worker'[v].age = Older(worker[v].age)
      BY <2>2
    <3>2. worker[v].device \in Devices
      BY <1>a, <3>1 DEF BusyIsInFlight, Busy, Shape
    <3>3. worker[v].age \in Nat /\ newest[worker[v].device] \in Nat /\ Oldest \in Nat
      BY <1>a, <1>b, <3>2, CollectorAssumption DEF Shape, Polls
    <3>4. newest[worker[v].device] >= worker[v].age
      BY <1>a, <3>1 DEF NewestIsOlder, Busy
    <3> QED
      BY <2>4, <3>1, <3>2, <3>3, <3>4 DEF Older
  <2> QED
    BY <2>5, <2>6 DEF IInv
<1>10. CASE Stop \/ UNCHANGED vars
  BY <1>10, <1>a DEF Stop, vars, IInv, Shape, BusyIsInFlight, OneWorkerPerDevice,
     OfferedIsReserved, ScanStarts, NewestIsOlder, Busy
<1> QED
  BY <1>1, <1>2, <1>3, <1>4, <1>5, <1>6, <1>7, <1>8, <1>9, <1>10 DEF Next, Loop, Poll

\* No device is polled by two workers at a time and no published cycle began
\* before the one published before it, for every device list, set of workers,
\* interval and stretch of waiting, lost acknowledgements included
\* (Scheduler.Run, inflight).
THEOREM CyclesInOrder == Spec => []PublishedInOrder
<1>1. IInv => PublishedInOrder
  BY CollectorAssumption DEF IInv, PublishedInOrder, BusyIsInFlight, OneWorkerPerDevice,
     NewestIsOlder, Busy, Shape
<1> QED
  BY <1>1, InitIInv, NextIInv, PTL DEF Spec
=============================================================================
