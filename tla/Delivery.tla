------------------------------ MODULE Delivery ------------------------------
(***************************************************************************)
(* One durable JetStream consumer and the workers that share it            *)
(* (internal/messaging): delivery, sharded handling, retry by error        *)
(* category, dead-lettering, shutdown, crashes, and the watcher on the     *)
(* server's MAX_DELIVERIES advisory.  Stage A, stage B, the inventory      *)
(* consumer and the automation consumer are all instances of it.           *)
(*                                                                         *)
(* The server (external) keeps a delivery count per stream sequence and    *)
(* stops redelivering at MaxDeliver.  A message that waits in a worker's   *)
(* buffers gets no heartbeat; only a running handler keeps it pending.     *)
(***************************************************************************)
EXTENDS Integers, Sequences, FiniteSets

CONSTANTS
    Payloads,     \* message contents
    Key,          \* [Payloads -> ordering keys], KeyFunc (the device)
    Outcomes,     \* [Payloads -> what the handler may return for it]
    Workers,      \* worker processes sharing the durable consumer
    Shards,       \* Shards of a worker: 0 .. Shards - 1
    ShardOf,      \* [ordering keys -> shard], the hash of shardFor
    QueueSize,    \* messages buffered per shard
    MaxDeliver,   \* deliveries the server makes
    MaxSeq,       \* bound: length of the stream, replays included
    MaxCrashes,   \* bound: crashes
    MaxStops,     \* bound: graceful shutdowns
    MaxDlqFaults, \* bound: dead-letter publishes of a worker, or deletes of a replay, that fail
    MaxRescueFaults, \* bound: dead-letter publishes of the advisory watcher that fail
    MaxAckLoss    \* bound: acknowledgements the server never receives

Seqs     == 1..MaxSeq
ShardIds == 0..(Shards - 1)
\* Work a worker pulls ahead: PullMaxMessages(shards * (queue + 1)).
Capacity == Shards * (QueueSize + 1)

ASSUME DeliveryAssumption ==
    /\ \A p \in Payloads : Outcomes[p] \in (SUBSET {"ok", "transient", "permanent"}) \ {{}}
    /\ \A p \in Payloads : ShardOf[Key[p]] \in ShardIds
    /\ IsFiniteSet(Workers) /\ Shards \in Nat \ {0} /\ QueueSize \in Nat \ {0}
    /\ MaxDeliver \in Nat \ {0} /\ MaxSeq \in Nat
    /\ {MaxCrashes, MaxStops, MaxDlqFaults, MaxRescueFaults, MaxAckLoss} \subseteq Nat

VARIABLES
    stream,      \* the stream: a sequence of payloads
    cstate,      \* consumer: [Seqs -> "absent" | "ready" | "pending" | "settled" | "exhausted"]
    count,       \* consumer: deliveries made of each sequence
    dseq,        \* consumer: deliveries made in all
    status,      \* [Workers -> "up" | "stopping" | "down"]
    watching,    \* workers subscribed to the advisory
    advisories,  \* advisories on their way: <<worker, seq>>
    fetched,     \* [Workers -> deliveries pulled, not yet in a shard]
    queue,       \* [Workers -> [ShardIds -> buffered deliveries]]
    busy,        \* [Workers -> [ShardIds -> the delivery whose handler runs, or none]]
    dlq,         \* sequences in the dead-letter stream
    done,        \* history: payloads whose handler succeeded
    recorded,    \* history: sequences that were ever dead-lettered
    faults       \* faults so far, by kind

consumer == <<cstate, count, dseq>>
buffers  == <<fetched, queue, busy>>
history  == <<done, recorded>>
vars == <<stream, cstate, count, dseq, status, watching, advisories, fetched,
          queue, busy, dlq, done, recorded, faults>>

\* A delivery: its stream sequence, its attempt number and its position in
\* the consumer's order.
Deliveries == [seq : Seqs, attempt : 1..MaxDeliver, n : Nat]
NoDelivery == [seq |-> 0, attempt |-> 0, n |-> 0]
FaultKinds == {"crash", "stop", "dlq", "rescue", "ack"}

Payload(q) == stream[q]
\* shardFor: one shard per ordering key.
ShardForAny(d) ==        \* mutant: spread deliveries over all shards
    d.n % Shards
ShardFor(d) == ShardOf[Key[Payload(d.seq)]]

Fault(kind, max) == /\ faults[kind] < max
                    /\ faults' = [faults EXCEPT ![kind] = @ + 1]

-----------------------------------------------------------------------------
(* The server.                                                             *)

\* The consumer wants sequence q redelivered: again if the budget allows,
\* otherwise an advisory goes to whoever is subscribed right now.
Requeue(q) ==
    IF count[q] < MaxDeliver
    THEN /\ cstate' = [cstate EXCEPT ![q] = "ready"]
         /\ UNCHANGED advisories
    ELSE /\ cstate' = [cstate EXCEPT ![q] = "exhausted"]
         /\ advisories' = advisories \cup (watching \X {q})

\* A NAK counts only while the sequence is pending.
Nak(q) == IF cstate[q] = "pending" THEN Requeue(q) ELSE UNCHANGED <<cstate, advisories>>

\* An Ack or a Term of any delivery of q settles it.
Settle(q) == cstate' = [cstate EXCEPT ![q] = IF @ \in {"pending", "ready"} THEN "settled" ELSE @]

Publish(p) ==
    /\ Len(stream) < MaxSeq
    /\ stream' = Append(stream, p)
    /\ cstate' = [cstate EXCEPT ![Len(stream) + 1] = "ready"]

Produce(p) ==
    /\ p \notin {stream[i] : i \in DOMAIN stream}
    /\ Publish(p)
    /\ UNCHANGED <<count, dseq, status, watching, advisories, buffers, dlq, history, faults>>

\* New messages come in stream order; redeliveries come at any time.
Deliver(w, q) ==
    /\ status[w] = "up" /\ Len(fetched[w]) < Capacity
    /\ cstate[q] = "ready"
    /\ count[q] = 0 => \A r \in Seqs : cstate[r] = "ready" /\ count[r] = 0 => q <= r
    /\ cstate' = [cstate EXCEPT ![q] = "pending"]
    /\ count' = [count EXCEPT ![q] = @ + 1]
    /\ dseq' = dseq + 1
    /\ fetched' = [fetched EXCEPT ![w] =
                     Append(@, [seq |-> q, attempt |-> count[q] + 1, n |-> dseq + 1])]
    /\ UNCHANGED <<stream, status, watching, advisories, queue, busy, dlq, history, faults>>

Handled(q) == \E w \in Workers, s \in ShardIds : busy[w][s].seq = q

\* A buffered delivery of q that nothing holds up moves on long before AckWait.
Advancing(q) ==
    \E w \in Workers :
        /\ status[w] = "up"
        /\ \E s \in ShardIds :
              \/ /\ \E i \in DOMAIN queue[w][s] : queue[w][s][i].seq = q
                 /\ busy[w][s] = NoDelivery
              \/ /\ \E i \in DOMAIN fetched[w] : fetched[w][i].seq = q
                 /\ s = ShardFor(Head(fetched[w]))
                 /\ busy[w][s] = NoDelivery \/ Len(queue[w][s]) < QueueSize

\* AckWait passes.  A running handler's heartbeat prevents it; a message that
\* waits in a buffer behind other work, or whose worker is gone, is redelivered.
AckTimeout(q) ==
    /\ cstate[q] = "pending" /\ ~Handled(q) /\ ~Advancing(q)
    /\ Requeue(q)
    /\ UNCHANGED <<stream, count, dseq, status, watching, buffers, dlq, history, faults>>

-----------------------------------------------------------------------------
(* A worker.                                                               *)

\* The Consume callback puts one message into its shard, and blocks all the
\* others while that shard is full.
DispatchUnbounded(w) ==  \* mutant: buffer without limit
    /\ status[w] = "up" /\ fetched[w] # <<>>
    /\ LET s == ShardFor(Head(fetched[w]))
       IN  queue' = [queue EXCEPT ![w][s] = Append(@, Head(fetched[w]))]
    /\ fetched' = [fetched EXCEPT ![w] = Tail(@)]
    /\ UNCHANGED <<stream, consumer, status, watching, advisories, busy, dlq, history, faults>>
Dispatch(w) ==
    /\ status[w] = "up" /\ fetched[w] # <<>>
    /\ LET d == Head(fetched[w])
           s == ShardFor(d)
       IN  /\ Len(queue[w][s]) < QueueSize
           /\ queue' = [queue EXCEPT ![w][s] = Append(@, d)]
    /\ fetched' = [fetched EXCEPT ![w] = Tail(@)]
    /\ UNCHANGED <<stream, consumer, status, watching, advisories, busy, dlq, history, faults>>

Start(w, s) ==
    /\ status[w] = "up" /\ queue[w][s] # <<>> /\ busy[w][s] = NoDelivery
    /\ busy' = [busy EXCEPT ![w][s] = Head(queue[w][s])]
    /\ queue' = [queue EXCEPT ![w][s] = Tail(@)]
    /\ UNCHANGED <<stream, consumer, status, watching, advisories, fetched, dlq, history, faults>>

\* The handler of the delivery in shard s returns `outcome`.
Returns(w, s, outcome) ==
    /\ busy[w][s] # NoDelivery /\ status[w] # "down"
    /\ outcome \in Outcomes[Payload(busy[w][s].seq)]
    /\ busy' = [busy EXCEPT ![w][s] = NoDelivery]
    /\ UNCHANGED <<stream, count, dseq, status, watching, fetched, queue>>

\* err == nil: acknowledge, even during shutdown.  The ack may be lost.
Succeed(w, s) ==
    LET q == busy[w][s].seq IN
    /\ Returns(w, s, "ok")
    /\ done' = done \cup {Payload(q)}
    /\ \/ Settle(q) /\ UNCHANGED faults
       \/ Fault("ack", MaxAckLoss) /\ UNCHANGED cstate
    /\ UNCHANGED <<advisories, dlq, recorded>>

\* An error while shutting down, whatever its category: hand it back.
Interrupt(w, s) ==
    LET q == busy[w][s].seq IN
    /\ status[w] = "stopping"
    /\ \E outcome \in {"transient", "permanent"} : Returns(w, s, outcome)
    /\ Nak(q)
    /\ UNCHANGED <<dlq, history, faults>>

\* A retryable error with attempts left: NAK with backoff.
Retry(w, s) ==
    LET d == busy[w][s] IN
    /\ status[w] = "up" /\ d.attempt < MaxDeliver
    /\ Returns(w, s, "transient")
    /\ Nak(d.seq)
    /\ UNCHANGED <<dlq, done, recorded, faults>>

\* Anything else is dead-lettered and terminated, and only if the dead-letter
\* publish succeeded; otherwise the message is NAKed.  The Term may be lost, also
\* with a worker that dies before it.
GivesUp(w, s) ==
    /\ status[w] = "up"
    /\ \/ Returns(w, s, "permanent")
       \/ Returns(w, s, "transient") /\ busy[w][s].attempt >= MaxDeliver

DeadLetterUnsent(w, s) ==  \* mutant: Term without waiting for the dead letter
    LET q == busy[w][s].seq IN
    /\ GivesUp(w, s)
    /\ Settle(q)
    /\ UNCHANGED <<advisories, dlq, done, recorded, faults>>
DeadLetter(w, s) ==
    LET q == busy[w][s].seq IN
    /\ GivesUp(w, s)
    /\ dlq' = dlq \cup {q} /\ recorded' = recorded \cup {q}
    /\ \/ Settle(q) /\ UNCHANGED faults
       \/ Fault("ack", MaxAckLoss) /\ UNCHANGED cstate
    /\ UNCHANGED <<advisories, done>>

DeadLetterFails(w, s) ==
    LET q == busy[w][s].seq IN
    /\ GivesUp(w, s)
    /\ Fault("dlq", MaxDlqFaults)
    /\ Nak(q)
    /\ UNCHANGED <<dlq, done, recorded>>

-----------------------------------------------------------------------------
(* Shutdown, crash and restart.                                            *)

\* The context is cancelled: fetching stops, the subscription ends, and what
\* the client had pulled is dropped, except a message the callback is blocked
\* on, which is NAKed.
Stop(w) ==
    /\ status[w] = "up" /\ Fault("stop", MaxStops)
    /\ status' = [status EXCEPT ![w] = "stopping"]
    /\ watching' = watching \ {w}
    /\ \/ fetched[w] # <<>> /\ Nak(Head(fetched[w]).seq)
       \/ UNCHANGED <<cstate, advisories>>
    /\ fetched' = [fetched EXCEPT ![w] = <<>>]
    /\ UNCHANGED <<stream, count, dseq, queue, busy, dlq, history>>

\* A buffered message goes straight back to the server.
HandBack(w, s) ==
    /\ status[w] = "stopping" /\ queue[w][s] # <<>>
    /\ Nak(Head(queue[w][s]).seq)
    /\ queue' = [queue EXCEPT ![w][s] = Tail(@)]
    /\ UNCHANGED <<stream, count, dseq, status, watching, fetched, busy, dlq, history, faults>>

\* The process is gone: after a drain (a handler may outlast the shutdown
\* timeout) or by a crash.  Advisories on their way to it are lost.
Gone(w) ==
    /\ status' = [status EXCEPT ![w] = "down"]
    /\ watching' = watching \ {w}
    /\ advisories' = { a \in advisories : a[1] # w }
    /\ fetched' = [fetched EXCEPT ![w] = <<>>]
    /\ queue' = [queue EXCEPT ![w] = [s \in ShardIds |-> <<>>]]
    /\ busy' = [busy EXCEPT ![w] = [s \in ShardIds |-> NoDelivery]]
    /\ UNCHANGED <<stream, consumer, dlq, history>>

Exit(w) == /\ status[w] = "stopping" /\ \A s \in ShardIds : queue[w][s] = <<>>
           /\ Gone(w) /\ UNCHANGED faults

Crash(w) == /\ status[w] # "down" /\ Fault("crash", MaxCrashes)
            /\ Gone(w)

\* Run starts the worker first and subscribes to the advisory afterwards.
Restart(w) ==
    /\ status[w] = "down"
    /\ status' = [status EXCEPT ![w] = "up"]
    /\ UNCHANGED <<stream, consumer, watching, advisories, buffers, dlq, history, faults>>

Subscribe(w) ==
    /\ status[w] = "up" /\ w \notin watching
    /\ watching' = watching \cup {w}
    /\ UNCHANGED <<stream, consumer, status, advisories, buffers, dlq, history, faults>>

-----------------------------------------------------------------------------
(* The advisory watcher and the operator's dead-letter commands.           *)

\* WatchMaxDeliveries: read the message back from the stream and dead-letter
\* it; if the publish fails the error is logged and that is all.
Rescue(w, q) ==
    /\ <<w, q>> \in advisories
    /\ advisories' = advisories \ {<<w, q>>}
    /\ \/ dlq' = dlq \cup {q} /\ recorded' = recorded \cup {q} /\ UNCHANGED faults
       \/ Fault("rescue", MaxRescueFaults) /\ UNCHANGED <<dlq, recorded>>
    /\ UNCHANGED <<stream, consumer, status, watching, buffers, done>>

\* ReplayDeadLetter republishes under a fresh message id, then deletes the
\* dead letter; the delete may fail.
Replay(q) ==
    /\ q \in dlq
    /\ Publish(Payload(q))
    /\ \/ dlq' = dlq \ {q} /\ UNCHANGED faults
       \/ Fault("dlq", MaxDlqFaults) /\ UNCHANGED dlq
    /\ UNCHANGED <<count, dseq, status, watching, advisories, buffers, history>>

PurgeDeadLetters ==
    /\ dlq # {}
    /\ dlq' = {}
    /\ UNCHANGED <<stream, consumer, status, watching, advisories, buffers, history, faults>>

-----------------------------------------------------------------------------
Init ==
    /\ stream = <<>>
    /\ cstate = [q \in Seqs |-> "absent"] /\ count = [q \in Seqs |-> 0] /\ dseq = 0
    /\ status = [w \in Workers |-> "up"] /\ watching = Workers
    /\ advisories = {}
    /\ fetched = [w \in Workers |-> <<>>]
    /\ queue = [w \in Workers |-> [s \in ShardIds |-> <<>>]]
    /\ busy = [w \in Workers |-> [s \in ShardIds |-> NoDelivery]]
    /\ dlq = {} /\ done = {} /\ recorded = {}
    /\ faults = [kind \in FaultKinds |-> 0]

ServerStep(q) == AckTimeout(q) \/ \E w \in Workers : Deliver(w, q)
Settles(w, s) == \/ Succeed(w, s) \/ Interrupt(w, s) \/ Retry(w, s)
                 \/ DeadLetter(w, s) \/ DeadLetterFails(w, s)

Next ==
    \/ \E p \in Payloads : Produce(p)
    \/ \E q \in Seqs : ServerStep(q) \/ Replay(q)
    \/ \E w \in Workers : \/ Dispatch(w) \/ Stop(w) \/ Exit(w) \/ Crash(w)
                          \/ Restart(w) \/ Subscribe(w)
                          \/ \E q \in Seqs : Rescue(w, q)
                          \/ \E s \in ShardIds : \/ Start(w, s) \/ Settles(w, s)
                                                 \/ HandBack(w, s)
    \/ PurgeDeadLetters

\* Fairness: the server delivers and times out, goroutines run, a handler
\* returns (its context has a deadline or is cancelled), the supervisor
\* restarts a dead process.  Nothing is assumed of operators or of faults.
Fairness ==
    /\ \A q \in Seqs : WF_vars(ServerStep(q))
    /\ \A w \in Workers :
         /\ WF_vars(Dispatch(w)) /\ WF_vars(Exit(w)) /\ WF_vars(Restart(w))
         /\ WF_vars(Subscribe(w))
         /\ \A q \in Seqs : WF_vars(Rescue(w, q))
         /\ \A s \in ShardIds : /\ WF_vars(Start(w, s)) /\ WF_vars(Settles(w, s))
                                /\ WF_vars(HandBack(w, s))

Spec     == Init /\ [][Next]_vars
FairSpec == Spec /\ Fairness
-----------------------------------------------------------------------------
TypeOK ==
    /\ stream \in Seq(Payloads) /\ Len(stream) <= MaxSeq
    /\ cstate \in [Seqs -> {"absent", "ready", "pending", "settled", "exhausted"}]
    /\ count \in [Seqs -> 0..MaxDeliver] /\ dseq \in Nat
    /\ status \in [Workers -> {"up", "stopping", "down"}] /\ watching \subseteq Workers
    /\ advisories \subseteq Workers \X Seqs
    /\ fetched \in [Workers -> Seq(Deliveries)]
    /\ queue \in [Workers -> [ShardIds -> Seq(Deliveries)]]
    /\ busy \in [Workers -> [ShardIds -> Deliveries \cup {NoDelivery}]]
    /\ dlq \subseteq recorded /\ recorded \subseteq Seqs
    /\ done \subseteq Payloads /\ faults \in [FaultKinds -> Nat]
    /\ \A w \in Workers : /\ Len(fetched[w]) <= Capacity
                          /\ \A s \in ShardIds : Len(queue[w][s]) <= QueueSize

Elements(s) == { s[i] : i \in DOMAIN s }
Held(w) == Elements(fetched[w])
           \cup UNION { Elements(queue[w][s]) \cup ({busy[w][s]} \ {NoDelivery}) : s \in ShardIds }

\* A message the server will not deliver again, that no worker holds and of
\* which no advisory is on its way, was processed or dead-lettered: the ack,
\* Term, NAK and advisory paths together never drop one (process, deadLetter,
\* WatchMaxDeliveries).
NothingDisappears ==
    \A q \in Seqs :
        /\ cstate[q] \in {"settled", "exhausted"}
        /\ \A w \in Workers : <<w, q>> \notin advisories /\ ~\E d \in Held(w) : d.seq = q
        => Payload(q) \in done \/ q \in recorded

\* Messages of one key are handled by a worker one at a time and in delivery
\* order: whatever a worker holds of a key sits in one shard, the running one
\* first, then the buffered ones, then the pulled ones (shardFor, Run).
Precedes(w, d, e) ==
    \/ \E s \in ShardIds : busy[w][s] = d /\ e # d
    \/ \E s \in ShardIds : d \in Elements(queue[w][s]) /\ e \in Elements(fetched[w])
    \/ \E s \in ShardIds, i, j \in 1..QueueSize :
          /\ i < j /\ j <= Len(queue[w][s]) /\ queue[w][s][i] = d /\ queue[w][s][j] = e
    \/ \E i, j \in 1..Capacity :
          i < j /\ j <= Len(fetched[w]) /\ fetched[w][i] = d /\ fetched[w][j] = e
HandledInDeliveryOrder ==
    \A w \in Workers : \A d, e \in Held(w) :
        /\ Key[Payload(d.seq)] = Key[Payload(e.seq)] /\ d.n < e.n
        => Precedes(w, d, e) /\ ~Precedes(w, e, d)

\* Every message that enters the stream is eventually processed or recorded
\* as a dead letter, whatever its handler returns and whichever worker dies
\* (process, WatchMaxDeliveries).
EveryMessageIsSettled ==
    \A q \in Seqs : cstate[q] # "absent" ~> (q \in recorded \/ (q <= Len(stream) /\ Payload(q) \in done))
=============================================================================
