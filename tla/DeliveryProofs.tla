---------------------------- MODULE DeliveryProofs ----------------------------
(***************************************************************************)
(* The durable consumer and its workers, for every set of messages, keys,  *)
(* workers and shards, every buffer size and delivery limit: types and     *)
(* bounds, handling in delivery order, and no message that disappears.     *)
(***************************************************************************)
EXTENDS Delivery, FiniteSetTheorems, TLAPS

\* What the consumer knows of a sequence follows the stream, and a sequence it
\* will deliver again has deliveries left.
StreamInv ==
    \A q \in Seqs :
        /\ cstate[q] = "absent" <=> q > Len(stream)
        /\ cstate[q] = "absent" => count[q] = 0
        /\ cstate[q] = "ready" => count[q] < MaxDeliver

\* Only messages of the stream are dead-lettered or announced as undeliverable.
InStream ==
    /\ \A q \in recorded : q <= Len(stream)
    /\ \A a \in advisories : a[2] <= Len(stream)

\* A delivery of a message of the stream, made before now.
Made(d) == d.seq <= Len(stream) /\ d.n <= dseq

Increasing(ds) == \A i, j \in DOMAIN ds : i < j => ds[i].n < ds[j].n
AllBefore(d, ds) == \A i \in DOMAIN ds : d.n < ds[i].n
AllMade(ds) == \A i \in DOMAIN ds : Made(ds[i])

\* What a worker has pulled is in delivery order ...
PulledInOrder(w) == AllMade(fetched[w]) /\ Increasing(fetched[w])

\* ... and so is what sits in a shard: the running delivery, then the buffered
\* ones, all of them of the shard's keys, and then everything pulled since.
ShardInOrder(w, s) ==
    /\ AllMade(queue[w][s]) /\ Increasing(queue[w][s])
    /\ \A i \in DOMAIN queue[w][s] :
          ShardFor(queue[w][s][i]) = s /\ AllBefore(queue[w][s][i], fetched[w])
    /\ busy[w][s] # NoDelivery =>
          /\ Made(busy[w][s]) /\ ShardFor(busy[w][s]) = s
          /\ AllBefore(busy[w][s], queue[w][s]) /\ AllBefore(busy[w][s], fetched[w])

OrderInv == \A w \in Workers : PulledInOrder(w) /\ \A s \in ShardIds : ShardInOrder(w, s)

\* A settled message was processed or dead-lettered.
SettledInv == \A q \in Seqs : cstate[q] = "settled" => Payload(q) \in done \/ q \in recorded

\* A worker that has been subscribed to the advisory since the start, as far
\* as an exhausted message can tell: it is dead-lettered, or the worker is
\* about to hear of it.
Guards(w) ==
    /\ status[w] = "up" /\ w \in watching
    /\ \A q \in Seqs : cstate[q] = "exhausted" => q \in recorded \/ <<w, q>> \in advisories

\* Every worker but those that a fault has taken away once guards.
Departures == faults["crash"] + faults["stop"]
GuardInv ==
    faults["rescue"] = 0 =>
        \E gone \in SUBSET Workers :
            /\ Cardinality(gone) <= Departures
            /\ \A w \in Workers \ gone : Guards(w)

DeliveryInv == TypeOK /\ StreamInv /\ InStream /\ OrderInv /\ SettledInv /\ GuardInv

------------------------------------------------------------------------------

(* Sequences, functions and constants.                                     *)

LEMMA AppendShape ==
    ASSUME NEW S, NEW q \in Seq(S), NEW x \in S
    PROVE  /\ Append(q, x) \in Seq(S) /\ Len(Append(q, x)) = Len(q) + 1 /\ Len(q) \in Nat
           /\ \A i \in 1..Len(q) : Append(q, x)[i] = q[i]
           /\ Append(q, x)[Len(q) + 1] = x
  OBVIOUS

LEMMA TailShape ==
    ASSUME NEW S, NEW q \in Seq(S), q # <<>>
    PROVE  /\ Tail(q) \in Seq(S) /\ Head(q) = q[1] /\ Head(q) \in S
           /\ Len(q) \in Nat \ {0} /\ Len(Tail(q)) = Len(q) - 1
           /\ \A i \in 1..(Len(q) - 1) : Tail(q)[i] = q[i + 1]
  OBVIOUS

LEMMA DomainShape == ASSUME NEW S, NEW q \in Seq(S) PROVE DOMAIN q = 1..Len(q) /\ Len(q) \in Nat
  OBVIOUS

LEMMA EmptyShape ==
    ASSUME NEW S
    PROVE  <<>> \in Seq(S) /\ Len(<<>>) = 0 /\ DOMAIN <<>> = {}
  OBVIOUS

\* One place of a table by worker, or by worker and shard, gets a new value.
LEMMA WorkerSet ==
    ASSUME NEW S, NEW f \in [Workers -> S], NEW w \in Workers, NEW x \in S,
           NEW g, g = [f EXCEPT ![w] = x]
    PROVE  g \in [Workers -> S] /\ g[w] = x /\ \A v \in Workers \ {w} : g[v] = f[v]
  OBVIOUS

LEMMA ShardSet ==
    ASSUME NEW S, NEW f \in [Workers -> [ShardIds -> S]], NEW w \in Workers, NEW s \in ShardIds,
           NEW x \in S, NEW g, g = [f EXCEPT ![w][s] = x]
    PROVE  /\ g \in [Workers -> [ShardIds -> S]] /\ g[w][s] = x
           /\ \A v \in Workers, r \in ShardIds : (v # w \/ r # s) => g[v][r] = f[v][r]
<1>1. f[w] \in [ShardIds -> S]
  OBVIOUS
<1>2. [f[w] EXCEPT ![s] = x] \in [ShardIds -> S]
  BY <1>1
<1>3. g = [f EXCEPT ![w] = [f[w] EXCEPT ![s] = x]]
  OBVIOUS
<1> QED
  BY <1>1, <1>2, <1>3

LEMMA NoDeliveryShape ==
    NoDelivery \notin Deliveries /\ \A d \in Deliveries : d.seq \in Seqs /\ d.n \in Nat /\ d.attempt \in 1..MaxDeliver
  BY DEF NoDelivery, Deliveries, Seqs

\* The types of the buffers, one worker and shard at a time.
BuffersTyped ==
    /\ fetched \in [Workers -> Seq(Deliveries)]
    /\ queue \in [Workers -> [ShardIds -> Seq(Deliveries)]]
    /\ busy \in [Workers -> [ShardIds -> Deliveries \cup {NoDelivery}]]
    /\ \A w \in Workers : /\ Len(fetched[w]) <= Capacity
                          /\ \A s \in ShardIds : Len(queue[w][s]) <= QueueSize

\* The stream only gets longer and deliveries are counted upwards.
Grows ==
    /\ stream \in Seq(Payloads) /\ stream' \in Seq(Payloads)
    /\ Len(stream) <= Len(stream') /\ Len(stream') <= MaxSeq
    /\ \A q \in 1..Len(stream) : stream'[q] = stream[q]
    /\ dseq \in Nat /\ dseq' \in Nat /\ dseq <= dseq'

\* Made and ShardFor after a step.
MadeNext(d)  == d.seq <= Len(stream') /\ d.n <= dseq'
ShardNext(d) == ShardOf[Key[stream'[d.seq]]]

LEMMA MadeStays ==
    ASSUME Grows, NEW d \in Deliveries, Made(d)
    PROVE  MadeNext(d) /\ ShardNext(d) = ShardFor(d)
<1>1. /\ Len(stream) \in Nat /\ Len(stream') \in Nat /\ d.seq \in 1..Len(stream) /\ d.n \in Nat
      /\ dseq \in Nat /\ dseq' \in Nat /\ dseq <= dseq' /\ Len(stream) <= Len(stream')
      /\ d.seq <= Len(stream) /\ d.n <= dseq
  BY NoDeliveryShape DEF Grows, Made, Seqs
<1>2. stream'[d.seq] = stream[d.seq]
  BY <1>1, Zenon DEF Grows
<1>3. d.seq <= Len(stream') /\ d.n <= dseq'
  BY <1>1
<1> QED
  BY <1>2, <1>3, Zenon DEF MadeNext, ShardNext, ShardFor, Payload

\* ShardInOrder after a step, for the values the buffers have then.
LEMMA NextShard ==
    ASSUME NEW w \in Workers, NEW s \in ShardIds, NEW q, NEW b, NEW f,
           queue'[w][s] = q, busy'[w][s] = b, fetched'[w] = f, Increasing(q),
           \A i \in DOMAIN q : MadeNext(q[i]) /\ ShardNext(q[i]) = s /\ AllBefore(q[i], f),
           b # NoDelivery => /\ MadeNext(b) /\ ShardNext(b) = s
                             /\ AllBefore(b, q) /\ AllBefore(b, f)
    PROVE  ShardInOrder(w, s)'
  BY Zenon DEF ShardInOrder, AllMade, Made, MadeNext, ShardFor, Payload, ShardNext, Increasing, AllBefore

LEMMA NextPulled ==
    ASSUME NEW w \in Workers, NEW f, fetched'[w] = f, Increasing(f), \A i \in DOMAIN f : MadeNext(f[i])
    PROVE  PulledInOrder(w)'
  BY Zenon DEF PulledInOrder, AllMade, Made, MadeNext, Increasing

------------------------------------------------------------------------------
(* The order of what a worker holds, for each thing that happens to it.    *)

\* Every later element is an old one or a delivery made just now.
Renewed(new, old) ==
    \A j \in DOMAIN new : (\E i \in DOMAIN old : new[j] = old[i]) \/ new[j].n > dseq

LEMMA BeforeStays ==
    ASSUME NEW d, d.n <= dseq, d.n \in Nat, dseq \in Nat,
           NEW old, NEW new \in Seq(Deliveries), AllBefore(d, old), Renewed(new, old)
    PROVE  AllBefore(d, new)
<1> SUFFICES ASSUME NEW j \in DOMAIN new PROVE d.n < new[j].n
  BY Zenon DEF AllBefore
<1>1. new[j].n \in Nat
  BY DomainShape, NoDeliveryShape
<1>2. CASE \E i \in DOMAIN old : new[j] = old[i]
  BY <1>2 DEF AllBefore
<1>3. CASE new[j].n > dseq
  BY <1>1, <1>3
<1> QED
  BY <1>2, <1>3, Zenon DEF Renewed

\* What ShardInOrder says, element by element and with types.
LEMMA ShardShape ==
    ASSUME BuffersTyped, Grows, NEW w \in Workers, NEW s \in ShardIds, ShardInOrder(w, s)
    PROVE  /\ queue[w][s] \in Seq(Deliveries) /\ fetched[w] \in Seq(Deliveries) /\ dseq \in Nat
           /\ DOMAIN queue[w][s] = 1..Len(queue[w][s]) /\ Len(queue[w][s]) \in Nat
           /\ Increasing(queue[w][s]) /\ AllMade(queue[w][s])
           /\ \A i \in 1..Len(queue[w][s]) :
                 /\ queue[w][s][i] \in Deliveries /\ Made(queue[w][s][i]) /\ queue[w][s][i].n \in Nat
                 /\ queue[w][s][i].n <= dseq /\ ShardFor(queue[w][s][i]) = s
                 /\ AllBefore(queue[w][s][i], fetched[w])
           /\ busy[w][s] \in Deliveries \cup {NoDelivery}
           /\ busy[w][s] # NoDelivery =>
                 /\ busy[w][s] \in Deliveries /\ busy[w][s].n \in Nat
                 /\ Made(busy[w][s]) /\ ShardFor(busy[w][s]) = s
                 /\ AllBefore(busy[w][s], queue[w][s]) /\ AllBefore(busy[w][s], fetched[w])
<1> DEFINE q == queue[w][s]
           b == busy[w][s]
<1>1. /\ q \in Seq(Deliveries) /\ fetched[w] \in Seq(Deliveries) /\ dseq \in Nat
      /\ b \in Deliveries \cup {NoDelivery}
  BY DEF BuffersTyped, Grows
<1>2. DOMAIN q = 1..Len(q) /\ Len(q) \in Nat
  BY <1>1, DomainShape, Zenon
<1>3. \A i \in 1..Len(q) : q[i] \in Deliveries /\ q[i].n \in Nat
  BY <1>1, NoDeliveryShape
<1>4. b # NoDelivery => b \in Deliveries /\ b.n \in Nat
  BY <1>1, NoDeliveryShape, Zenon
<1>5. /\ Increasing(q) /\ AllMade(q)
      /\ \A i \in DOMAIN q : ShardFor(q[i]) = s /\ AllBefore(q[i], fetched[w])
      /\ b # NoDelivery => /\ Made(b) /\ ShardFor(b) = s
                           /\ AllBefore(b, q) /\ AllBefore(b, fetched[w])
  BY Zenon DEF ShardInOrder
<1>6. \A i \in 1..Len(q) : Made(q[i]) /\ q[i].n <= dseq
  BY <1>2, <1>5, Zenon DEF AllMade, Made
<1> HIDE DEF q, b
<1>7. \A i \in 1..Len(q) :
         /\ q[i] \in Deliveries /\ Made(q[i]) /\ q[i].n \in Nat
         /\ q[i].n <= dseq /\ ShardFor(q[i]) = s /\ AllBefore(q[i], fetched[w])
  BY <1>2, <1>3, <1>5, <1>6, Zenon
<1> QED
  BY <1>1, <1>2, <1>4, <1>5, <1>7, Zenon DEF q, b

\* The first buffered delivery leaves the buffer: to its handler, or back.
LEMMA ShardAdvances ==
    ASSUME BuffersTyped, Grows, NEW w \in Workers, NEW s \in ShardIds, ShardInOrder(w, s),
           queue[w][s] # <<>>, queue'[w][s] = Tail(queue[w][s]), fetched'[w] = fetched[w],
           busy'[w][s] = busy[w][s] \/ busy'[w][s] = Head(queue[w][s])
    PROVE  ShardInOrder(w, s)'
<1> DEFINE q == queue[w][s]
           t == Tail(q)
           f == fetched[w]
           b == busy[w][s]
           c == busy'[w][s]
<1>1. /\ q \in Seq(Deliveries) /\ f \in Seq(Deliveries) /\ dseq \in Nat /\ q # <<>>
      /\ DOMAIN q = 1..Len(q) /\ Increasing(q)
      /\ \A i \in 1..Len(q) :
            /\ q[i] \in Deliveries /\ Made(q[i]) /\ q[i].n \in Nat
            /\ q[i].n <= dseq /\ ShardFor(q[i]) = s /\ AllBefore(q[i], f)
      /\ b # NoDelivery => /\ b \in Deliveries /\ b.n \in Nat /\ Made(b) /\ ShardFor(b) = s
                           /\ AllBefore(b, q) /\ AllBefore(b, f)
  BY ShardShape, Zenon
<1>2. /\ t \in Seq(Deliveries) /\ Len(q) \in Nat \ {0} /\ Len(t) = Len(q) - 1 /\ Head(q) = q[1]
      /\ \A i \in 1..(Len(q) - 1) : t[i] = q[i + 1]
  BY <1>1, TailShape, Zenon
<1>3. c = b \/ c = q[1]
  BY <1>2, Zenon
<1>4. queue'[w][s] = t /\ fetched'[w] = f
  OBVIOUS
<1>5. DOMAIN t = 1..(Len(q) - 1)
  BY <1>2, DomainShape, Zenon
<1> HIDE DEF q, t, f, b, c
<1>6. \A i \in 1..(Len(q) - 1) : i + 1 \in 1..Len(q)
  BY <1>2
<1>7. \A i \in DOMAIN t : i + 1 \in DOMAIN q /\ t[i] = q[i + 1]
  BY <1>1, <1>2, <1>5, <1>6, Zenon
<1>8. Increasing(t)
  <2> SUFFICES ASSUME NEW i \in DOMAIN t, NEW j \in DOMAIN t, i < j PROVE t[i].n < t[j].n
    BY Zenon DEF Increasing
  <2>1. i + 1 < j + 1
    BY <1>5, <1>2
  <2> QED
    BY <1>1, <1>7, <2>1, Zenon DEF Increasing
<1>9. \A i \in DOMAIN t : /\ t[i] \in Deliveries /\ Made(t[i]) /\ ShardFor(t[i]) = s /\ AllBefore(t[i], f)
  BY <1>1, <1>7, Zenon
<1>10. \A i \in DOMAIN t : MadeNext(t[i]) /\ ShardNext(t[i]) = s
  BY <1>9, MadeStays, Zenon
<1>11. AllBefore(q[1], t)
  <2> SUFFICES ASSUME NEW i \in DOMAIN t PROVE q[1].n < t[i].n
    BY Zenon DEF AllBefore
  <2>1. 1 \in DOMAIN q /\ 1 < i + 1
    BY <1>1, <1>2, <1>5
  <2> QED
    BY <1>1, <1>7, <2>1, Zenon DEF Increasing
<1>12. b # NoDelivery => AllBefore(b, t)
  BY <1>1, <1>7, Zenon DEF AllBefore
<1>13. ASSUME c # NoDelivery
       PROVE  /\ c \in Deliveries /\ Made(c) /\ ShardFor(c) = s /\ AllBefore(c, t) /\ AllBefore(c, f)
  <2>1. 1 \in 1..Len(q)
    BY <1>2
  <2> QED
    BY <1>1, <1>3, <1>11, <1>12, <1>13, <2>1, Zenon
<1>14. c # NoDelivery => MadeNext(c) /\ ShardNext(c) = s
  BY <1>13, MadeStays, Zenon
<1>15. busy'[w][s] = c
  BY DEF c
<1> QED
  BY <1>4, <1>8, <1>9, <1>10, <1>13, <1>14, <1>15, NextShard, Zenon

\* Work is pulled or passed on to another shard, or the handler returns.
LEMMA ShardStays ==
    ASSUME BuffersTyped, BuffersTyped', Grows, NEW w \in Workers, NEW s \in ShardIds, ShardInOrder(w, s),
           Renewed(fetched'[w], fetched[w]), queue'[w][s] = queue[w][s],
           busy'[w][s] = busy[w][s] \/ busy'[w][s] = NoDelivery
    PROVE  ShardInOrder(w, s)'
<1> DEFINE q == queue[w][s]
           b == busy[w][s]
           c == busy'[w][s]
           f == fetched[w]
           g == fetched'[w]
<1>1. /\ dseq \in Nat /\ DOMAIN q = 1..Len(q) /\ Increasing(q)
      /\ \A i \in 1..Len(q) :
            /\ q[i] \in Deliveries /\ Made(q[i]) /\ q[i].n \in Nat
            /\ q[i].n <= dseq /\ ShardFor(q[i]) = s /\ AllBefore(q[i], f)
      /\ b # NoDelivery => /\ b \in Deliveries /\ b.n \in Nat /\ Made(b) /\ ShardFor(b) = s
                           /\ AllBefore(b, q) /\ AllBefore(b, f)
  BY ShardShape, Zenon
<1>2. g \in Seq(Deliveries) /\ Renewed(g, f) /\ (c = b \/ c = NoDelivery)
  BY DEF BuffersTyped
<1>3. queue'[w][s] = q /\ busy'[w][s] = c /\ fetched'[w] = g
  OBVIOUS
<1> HIDE DEF q, b, c, f, g
<1>4. ASSUME NEW i \in DOMAIN q
      PROVE  MadeNext(q[i]) /\ ShardNext(q[i]) = s /\ AllBefore(q[i], g)
  <2>1. /\ q[i] \in Deliveries /\ Made(q[i]) /\ q[i].n \in Nat /\ q[i].n <= dseq
        /\ ShardFor(q[i]) = s /\ AllBefore(q[i], f)
    BY <1>1, <1>4, Zenon
  <2>2. MadeNext(q[i]) /\ ShardNext(q[i]) = s
    BY <2>1, MadeStays, Zenon
  <2>3. AllBefore(q[i], g)
    BY <1>1, <1>2, <2>1, BeforeStays, Zenon
  <2> QED
    BY <2>2, <2>3, Zenon
<1>5. ASSUME c # NoDelivery
      PROVE  MadeNext(c) /\ ShardNext(c) = s /\ AllBefore(c, q) /\ AllBefore(c, g)
  <2>1. c = b /\ b \in Deliveries /\ b.n \in Nat /\ Made(b) /\ ShardFor(b) = s
        /\ AllBefore(b, q) /\ AllBefore(b, f)
    BY <1>1, <1>2, <1>5, Zenon
  <2>2. b.n <= dseq
    BY <2>1, Zenon DEF Made
  <2>3. MadeNext(b) /\ ShardNext(b) = s
    BY <2>1, MadeStays, Zenon
  <2>4. AllBefore(b, g)
    BY <1>1, <1>2, <2>1, <2>2, BeforeStays, Zenon
  <2> QED
    BY <2>1, <2>3, <2>4, Zenon
<1>6. Increasing(q)
  BY <1>1
<1>7. \A i \in DOMAIN q : MadeNext(q[i]) /\ ShardNext(q[i]) = s /\ AllBefore(q[i], g)
  BY <1>4, Zenon
<1>8. c # NoDelivery => MadeNext(c) /\ ShardNext(c) = s /\ AllBefore(c, q) /\ AllBefore(c, g)
  BY <1>5, Zenon
<1> QED
  BY <1>3, <1>6, <1>7, <1>8, NextShard, Zenon

\* The delivery pulled first goes to its shard.
LEMMA ShardGains ==
    ASSUME BuffersTyped, Grows, NEW w \in Workers, NEW s \in ShardIds,
           ShardInOrder(w, s), PulledInOrder(w),
           fetched[w] # <<>>, ShardFor(Head(fetched[w])) = s,
           queue'[w][s] = Append(queue[w][s], Head(fetched[w])),
           fetched'[w] = Tail(fetched[w]), busy'[w][s] = busy[w][s]
    PROVE  ShardInOrder(w, s)'
<1> DEFINE q == queue[w][s]
           b == busy[w][s]
           f == fetched[w]
           g == Tail(f)
           h == Head(f)
           p == Append(q, h)
<1>1. /\ q \in Seq(Deliveries) /\ f \in Seq(Deliveries) /\ f # <<>>
      /\ dseq \in Nat /\ DOMAIN q = 1..Len(q) /\ Len(q) \in Nat /\ Increasing(q)
      /\ \A i \in 1..Len(q) :
            /\ q[i] \in Deliveries /\ Made(q[i]) /\ q[i].n \in Nat
            /\ q[i].n <= dseq /\ ShardFor(q[i]) = s /\ AllBefore(q[i], f)
      /\ b # NoDelivery => /\ b \in Deliveries /\ b.n \in Nat /\ Made(b) /\ ShardFor(b) = s
                           /\ AllBefore(b, q) /\ AllBefore(b, f)
  BY ShardShape, Zenon
<1>2. /\ g \in Seq(Deliveries) /\ Len(f) \in Nat \ {0} /\ Len(g) = Len(f) - 1
      /\ h = f[1] /\ h \in Deliveries
      /\ \A i \in 1..(Len(f) - 1) : g[i] = f[i + 1]
  BY <1>1, TailShape, Zenon
<1>3. /\ p \in Seq(Deliveries) /\ Len(p) = Len(q) + 1
      /\ \A i \in 1..Len(q) : p[i] = q[i]
      /\ p[Len(q) + 1] = h
  <2>1. q \in Seq(Deliveries) /\ h \in Deliveries
    BY <1>1, <1>2, Zenon
  <2> HIDE DEF h, q
  <2> QED
    BY <2>1, AppendShape
<1>4. DOMAIN p = 1..(Len(q) + 1) /\ DOMAIN g = 1..(Len(f) - 1) /\ DOMAIN f = 1..Len(f)
  <2> HIDE DEF q, f, g, p
  <2>1. DOMAIN p = 1..Len(p)
    BY <1>3, DomainShape, Zenon
  <2>2. DOMAIN g = 1..Len(g)
    BY <1>2, DomainShape, Zenon
  <2>3. DOMAIN f = 1..Len(f)
    BY <1>1, DomainShape, Zenon
  <2> QED
    BY <1>2, <1>3, <2>1, <2>2, <2>3, Zenon
<1>5. queue'[w][s] = p /\ fetched'[w] = g /\ busy'[w][s] = b /\ ShardFor(h) = s
  OBVIOUS
<1>6. AllMade(f) /\ Increasing(f)
  BY Zenon DEF PulledInOrder
<1> HIDE DEF q, b, f, g, h, p
<1>7. 1 \in DOMAIN f /\ \A i \in DOMAIN g : i + 1 \in DOMAIN f /\ 1 < i + 1 /\ g[i] = f[i + 1]
  BY <1>2, <1>4
<1>8. Made(h) /\ AllBefore(h, g)
  BY <1>2, <1>6, <1>7, Zenon DEF AllMade, Increasing, AllBefore
<1>9. ASSUME NEW d, AllBefore(d, f) PROVE d.n < h.n /\ AllBefore(d, g)
  <2>1. d.n < f[1].n
    BY <1>7, <1>9, Zenon DEF AllBefore
  <2>2. AllBefore(d, g)
    BY <1>7, <1>9, Zenon DEF AllBefore
  <2> QED
    BY <1>2, <2>1, <2>2, Zenon
<1>10. \A i \in DOMAIN p : i \in 1..Len(q) \/ i = Len(q) + 1
  <2>1. Len(q) \in Nat /\ DOMAIN p = 1..(Len(q) + 1)
    BY <1>1, <1>4, Zenon
  <2> QED
    BY <2>1
<1>11. Increasing(p)
  <2> SUFFICES ASSUME NEW i \in DOMAIN p, NEW j \in DOMAIN p, i < j PROVE p[i].n < p[j].n
    BY Zenon DEF Increasing
  <2>1. i \in 1..Len(q)
    BY <1>1, <1>4
  <2>2. CASE j \in 1..Len(q)
    BY <1>1, <1>3, <2>1, <2>2, Zenon DEF Increasing
  <2>3. CASE j = Len(q) + 1
    BY <1>1, <1>3, <1>9, <2>1, <2>3, Zenon
  <2> QED
    BY <1>10, <2>2, <2>3, Zenon
<1>12. \A i \in DOMAIN p : p[i] \in Deliveries /\ Made(p[i]) /\ ShardFor(p[i]) = s /\ AllBefore(p[i], g)
  BY <1>1, <1>2, <1>3, <1>5, <1>8, <1>9, <1>10, Zenon
<1>13. \A i \in DOMAIN p : MadeNext(p[i]) /\ ShardNext(p[i]) = s /\ AllBefore(p[i], g)
  BY <1>12, MadeStays, Zenon
<1>14. ASSUME b # NoDelivery
       PROVE  MadeNext(b) /\ ShardNext(b) = s /\ AllBefore(b, p) /\ AllBefore(b, g)
  <2>1. b.n < h.n /\ AllBefore(b, g) /\ AllBefore(b, q)
    BY <1>1, <1>9, <1>14, Zenon
  <2>2. AllBefore(b, p)
    <3> SUFFICES ASSUME NEW i \in DOMAIN p PROVE b.n < p[i].n
      BY Zenon DEF AllBefore
    <3> QED
      BY <1>1, <1>3, <1>10, <2>1, Zenon DEF AllBefore
  <2> QED
    BY <1>1, <1>14, <2>1, <2>2, MadeStays, Zenon
<1> QED
  BY <1>5, <1>11, <1>13, <1>14, NextShard, Zenon

\* Nothing is left in the shard.
LEMMA ShardEmptied ==
    ASSUME NEW w \in Workers, NEW s \in ShardIds, queue'[w][s] = <<>>, busy'[w][s] = NoDelivery
    PROVE  ShardInOrder(w, s)'
<1>1. DOMAIN <<>> = {}
  OBVIOUS
<1>2. Increasing(<<>>)
  BY <1>1, Zenon DEF Increasing
<1> QED
  BY <1>1, <1>2, NextShard, Zenon

\* What a worker has pulled: nothing new, less, one more, or nothing at all.
LEMMA PulledStays ==
    ASSUME BuffersTyped, Grows, NEW w \in Workers, PulledInOrder(w),
           \/ fetched'[w] = fetched[w]
           \/ fetched[w] # <<>> /\ fetched'[w] = Tail(fetched[w])
           \/ fetched'[w] = <<>>
    PROVE  PulledInOrder(w)' /\ Renewed(fetched'[w], fetched[w])
<1> DEFINE f == fetched[w]
           g == fetched'[w]
<1>1. f \in Seq(Deliveries) /\ AllMade(f) /\ Increasing(f) /\ dseq \in Nat
  BY DEF BuffersTyped, PulledInOrder, Grows
<1>2. DOMAIN f = 1..Len(f) /\ Len(f) \in Nat /\ \A i \in DOMAIN f : f[i] \in Deliveries /\ Made(f[i])
  <2>1. DOMAIN f = 1..Len(f) /\ Len(f) \in Nat /\ \A i \in DOMAIN f : f[i] \in Deliveries
    BY <1>1, DomainShape
  <2> QED
    BY <1>1, <2>1, Zenon DEF AllMade
<1>3. \A i \in DOMAIN f : MadeNext(f[i])
  BY <1>2, MadeStays, Zenon
<1>4. CASE g = f
  BY <1>1, <1>3, <1>4, NextPulled, Zenon DEF Renewed
<1>5. CASE f # <<>> /\ g = Tail(f)
  <2>1. /\ Len(f) \in Nat \ {0} /\ Len(g) = Len(f) - 1 /\ g \in Seq(Deliveries)
        /\ \A i \in 1..(Len(f) - 1) : g[i] = f[i + 1]
    BY <1>1, <1>5, TailShape, Zenon
  <2>2. DOMAIN g = 1..(Len(f) - 1)
    BY <2>1, DomainShape, Zenon
  <2>3. fetched'[w] = g
    OBVIOUS
  <2> HIDE DEF f, g
  <2>4. \A i \in DOMAIN g : i + 1 \in DOMAIN f /\ g[i] = f[i + 1]
    BY <1>2, <2>1, <2>2
  <2>5. Increasing(g)
    <3> SUFFICES ASSUME NEW i \in DOMAIN g, NEW j \in DOMAIN g, i < j PROVE g[i].n < g[j].n
      BY Zenon DEF Increasing
    <3>1. i + 1 < j + 1
      BY <2>1, <2>2
    <3> QED
      BY <1>1, <2>4, <3>1, Zenon DEF Increasing
  <2>6. \A i \in DOMAIN g : MadeNext(g[i])
    BY <1>3, <2>4, Zenon
  <2>7. Renewed(g, f)
    BY <2>4, Zenon DEF Renewed
  <2> QED
    BY <2>3, <2>5, <2>6, <2>7, NextPulled, Zenon DEF f, g
<1>6. CASE g = <<>>
  <2>1. DOMAIN g = {} /\ fetched'[w] = g
    BY <1>6
  <2>2. Increasing(g) /\ Renewed(g, f) /\ \A i \in DOMAIN g : MadeNext(g[i])
    BY <2>1, Zenon DEF Increasing, Renewed
  <2> QED
    BY <2>1, <2>2, NextPulled, Zenon
<1> QED
  BY <1>4, <1>5, <1>6, Zenon

LEMMA PulledGains ==
    ASSUME BuffersTyped, Grows, NEW w \in Workers, PulledInOrder(w),
           NEW d \in Deliveries, fetched'[w] = Append(fetched[w], d), dseq' = dseq + 1,
           d.n = dseq + 1, d.seq <= Len(stream)
    PROVE  PulledInOrder(w)' /\ Renewed(fetched'[w], fetched[w])
<1> DEFINE f == fetched[w]
           g == Append(f, d)
<1>1. f \in Seq(Deliveries) /\ AllMade(f) /\ Increasing(f) /\ dseq \in Nat
  BY DEF BuffersTyped, PulledInOrder, Grows
<1>2. /\ g \in Seq(Deliveries) /\ Len(g) = Len(f) + 1 /\ Len(f) \in Nat
      /\ \A i \in 1..Len(f) : g[i] = f[i]
      /\ g[Len(f) + 1] = d
  BY <1>1, AppendShape, Zenon
<1>3. DOMAIN f = 1..Len(f) /\ DOMAIN g = 1..(Len(f) + 1)
  BY <1>1, <1>2, DomainShape, Zenon
<1>4. \A i \in DOMAIN f : f[i] \in Deliveries /\ Made(f[i]) /\ f[i].n \in Nat /\ f[i].n <= dseq
  <2>1. \A i \in DOMAIN f : f[i] \in Deliveries /\ f[i].n \in Nat
    BY <1>1, DomainShape, NoDeliveryShape
  <2> QED
    BY <1>1, <2>1, Zenon DEF AllMade, Made
<1>5. MadeNext(d)
  BY NoDeliveryShape DEF MadeNext, Grows, Seqs
<1>6. fetched'[w] = g
  OBVIOUS
<1> HIDE DEF f, g
<1>7. \A i \in DOMAIN g : (i \in DOMAIN f /\ g[i] = f[i]) \/ (i = Len(f) + 1 /\ g[i] = d)
  BY <1>2, <1>3
<1>8. Increasing(g)
  <2> SUFFICES ASSUME NEW i \in DOMAIN g, NEW j \in DOMAIN g, i < j PROVE g[i].n < g[j].n
    BY Zenon DEF Increasing
  <2>1. i \in DOMAIN f /\ g[i] = f[i]
    BY <1>2, <1>3
  <2>2. CASE j \in DOMAIN f /\ g[j] = f[j]
    BY <1>1, <2>1, <2>2, Zenon DEF Increasing
  <2>3. CASE g[j] = d
    BY <1>1, <1>4, <2>1, <2>3
  <2> QED
    BY <1>7, <2>2, <2>3, Zenon
<1>9. \A i \in DOMAIN g : MadeNext(g[i])
  BY <1>4, <1>5, <1>7, MadeStays, Zenon
<1>10. d.n > dseq
  BY <1>1
<1>11. Renewed(g, f)
  BY <1>7, <1>10, Zenon DEF Renewed
<1> QED
  BY <1>6, <1>8, <1>9, <1>11, NextPulled, Zenon DEF f

------------------------------------------------------------------------------
(* The buffers after each action.                                          *)

LEMMA ConstantShape ==
    /\ Capacity \in Nat /\ QueueSize \in Nat /\ MaxDeliver \in Nat /\ MaxDeliver >= 1 /\ MaxSeq \in Nat
    /\ Capacity >= 1 /\ QueueSize >= 1
  BY DeliveryAssumption DEF Capacity

BuffersStep == BuffersTyped' /\ OrderInv'

\* A worker whose buffers stay as they are.
LEMMA UntouchedWorker ==
    ASSUME BuffersTyped, BuffersTyped', Grows, OrderInv, NEW v \in Workers, fetched'[v] = fetched[v],
           \A s \in ShardIds : queue'[v][s] = queue[v][s] /\ busy'[v][s] = busy[v][s]
    PROVE  PulledInOrder(v)' /\ \A s \in ShardIds : ShardInOrder(v, s)'
<1>1. PulledInOrder(v) /\ \A s \in ShardIds : ShardInOrder(v, s)
  BY Zenon DEF OrderInv
<1>2. PulledInOrder(v)' /\ Renewed(fetched'[v], fetched[v])
  BY <1>1, PulledStays, Zenon
<1> QED
  BY <1>1, <1>2, ShardStays, Zenon

LEMMA SameBuffers ==
    ASSUME BuffersTyped, Grows, OrderInv, fetched' = fetched, queue' = queue, busy' = busy
    PROVE  BuffersStep
<1>1. BuffersTyped'
  BY Zenon DEF BuffersTyped
<1> QED
  BY <1>1, UntouchedWorker, Zenon DEF BuffersStep, OrderInv

LEMMA DeliverBuffers ==
    ASSUME BuffersTyped, Grows, OrderInv, NEW w \in Workers, NEW d \in Deliveries,
           Len(fetched[w]) < Capacity, fetched' = [fetched EXCEPT ![w] = Append(@, d)],
           queue' = queue, busy' = busy, dseq' = dseq + 1, d.n = dseq + 1, d.seq <= Len(stream)
    PROVE  BuffersStep
<1> DEFINE f == Append(fetched[w], d)
<1>1. fetched \in [Workers -> Seq(Deliveries)] /\ fetched[w] \in Seq(Deliveries)
  BY DEF BuffersTyped
<1>2. f \in Seq(Deliveries) /\ Len(f) = Len(fetched[w]) + 1 /\ Len(fetched[w]) \in Nat
  BY <1>1, AppendShape
<1>3. Len(f) <= Capacity
  BY <1>2, ConstantShape
<1>4. fetched' = [fetched EXCEPT ![w] = f]
  OBVIOUS
<1>5. /\ fetched' \in [Workers -> Seq(Deliveries)] /\ fetched'[w] = f
      /\ \A v \in Workers \ {w} : fetched'[v] = fetched[v]
  <2> HIDE DEF f
  <2> QED
    BY <1>1, <1>2, <1>4, WorkerSet
<1>6. BuffersTyped'
  <2>1. \A v \in Workers : Len(fetched'[v]) <= Capacity
    BY <1>3, <1>5, Zenon DEF BuffersTyped
  <2> QED
    BY <1>5, <2>1, Zenon DEF BuffersTyped
<1>7. PulledInOrder(w) /\ \A s \in ShardIds : ShardInOrder(w, s)
  BY Zenon DEF OrderInv
<1>8. PulledInOrder(w)' /\ Renewed(fetched'[w], fetched[w])
  BY <1>5, <1>7, PulledGains, Zenon
<1>9. \A s \in ShardIds : ShardInOrder(w, s)'
  BY <1>6, <1>7, <1>8, ShardStays, Zenon
<1>10. \A v \in Workers \ {w} : PulledInOrder(v)' /\ \A s \in ShardIds : ShardInOrder(v, s)'
  BY <1>5, <1>6, UntouchedWorker, Zenon
<1> QED
  BY <1>6, <1>8, <1>9, <1>10, Zenon DEF BuffersStep, OrderInv

LEMMA DispatchBuffers ==
    ASSUME BuffersTyped, Grows, OrderInv, NEW w \in Workers, NEW s \in ShardIds,
           fetched[w] # <<>>, s = ShardFor(Head(fetched[w])), Len(queue[w][s]) < QueueSize,
           queue' = [queue EXCEPT ![w][s] = Append(@, Head(fetched[w]))],
           fetched' = [fetched EXCEPT ![w] = Tail(@)], busy' = busy
    PROVE  BuffersStep
<1> DEFINE d == Head(fetched[w])
           f == Tail(fetched[w])
           p == Append(queue[w][s], d)
<1>1. /\ fetched \in [Workers -> Seq(Deliveries)] /\ fetched[w] \in Seq(Deliveries)
      /\ queue \in [Workers -> [ShardIds -> Seq(Deliveries)]] /\ queue[w][s] \in Seq(Deliveries)
      /\ Len(fetched[w]) <= Capacity
  BY DEF BuffersTyped
<1>2. f \in Seq(Deliveries) /\ Len(f) = Len(fetched[w]) - 1 /\ Len(fetched[w]) \in Nat /\ d \in Deliveries
  BY <1>1, TailShape, Zenon
<1>3. p \in Seq(Deliveries) /\ Len(p) = Len(queue[w][s]) + 1 /\ Len(queue[w][s]) \in Nat
  <2>1. queue[w][s] \in Seq(Deliveries) /\ d \in Deliveries
    BY <1>1, <1>2, Zenon
  <2> HIDE DEF d
  <2> QED
    BY <2>1, AppendShape
<1>4. Len(f) <= Capacity /\ Len(p) <= QueueSize
  BY <1>1, <1>2, <1>3, ConstantShape
<1>5. fetched' = [fetched EXCEPT ![w] = f] /\ queue' = [queue EXCEPT ![w][s] = p]
  OBVIOUS
<1>6. /\ fetched' \in [Workers -> Seq(Deliveries)] /\ fetched'[w] = f
      /\ \A v \in Workers \ {w} : fetched'[v] = fetched[v]
  <2> HIDE DEF f
  <2> QED
    BY <1>1, <1>2, <1>5, WorkerSet
<1>7. /\ queue' \in [Workers -> [ShardIds -> Seq(Deliveries)]] /\ queue'[w][s] = p
      /\ \A v \in Workers, r \in ShardIds : (v # w \/ r # s) => queue'[v][r] = queue[v][r]
  <2> HIDE DEF p
  <2> QED
    BY <1>1, <1>3, <1>5, ShardSet
<1>8. BuffersTyped'
  <2>1. \A v \in Workers : Len(fetched'[v]) <= Capacity
    BY <1>4, <1>6, Zenon DEF BuffersTyped
  <2>2. \A v \in Workers, r \in ShardIds : Len(queue'[v][r]) <= QueueSize
    BY <1>4, <1>7, Zenon DEF BuffersTyped
  <2> QED
    BY <1>6, <1>7, <2>1, <2>2, Zenon DEF BuffersTyped
<1>9. PulledInOrder(w) /\ \A r \in ShardIds : ShardInOrder(w, r)
  BY Zenon DEF OrderInv
<1>10. PulledInOrder(w)' /\ Renewed(fetched'[w], fetched[w])
  BY <1>6, <1>9, PulledStays, Zenon
<1>11. ShardInOrder(w, s)'
  BY <1>6, <1>7, <1>9, ShardGains, Zenon
<1>12. \A r \in ShardIds \ {s} : ShardInOrder(w, r)'
  BY <1>7, <1>8, <1>9, <1>10, ShardStays, Zenon
<1>13. \A v \in Workers \ {w} : PulledInOrder(v)' /\ \A r \in ShardIds : ShardInOrder(v, r)'
  BY <1>6, <1>7, <1>8, UntouchedWorker, Zenon
<1> QED
  BY <1>8, <1>10, <1>11, <1>12, <1>13, Zenon DEF BuffersStep, OrderInv

\* A buffered delivery starts, or is handed back.
LEMMA TakeBuffers ==
    ASSUME BuffersTyped, Grows, OrderInv, NEW w \in Workers, NEW s \in ShardIds, queue[w][s] # <<>>,
           queue' = [queue EXCEPT ![w][s] = Tail(@)], fetched' = fetched,
           busy' = busy \/ busy' = [busy EXCEPT ![w][s] = Head(queue[w][s])]
    PROVE  BuffersStep
<1> DEFINE d == Head(queue[w][s])
           p == Tail(queue[w][s])
<1>1. /\ queue \in [Workers -> [ShardIds -> Seq(Deliveries)]] /\ queue[w][s] \in Seq(Deliveries)
      /\ busy \in [Workers -> [ShardIds -> Deliveries \cup {NoDelivery}]]
      /\ Len(queue[w][s]) <= QueueSize
  BY DEF BuffersTyped
<1>2. p \in Seq(Deliveries) /\ Len(p) = Len(queue[w][s]) - 1 /\ Len(queue[w][s]) \in Nat /\ d \in Deliveries
  BY <1>1, TailShape, Zenon
<1>3. Len(p) <= QueueSize
  BY <1>1, <1>2, ConstantShape
<1>4. queue' = [queue EXCEPT ![w][s] = p] /\ d \in Deliveries \cup {NoDelivery}
  BY <1>2
<1>5. /\ queue' \in [Workers -> [ShardIds -> Seq(Deliveries)]] /\ queue'[w][s] = p
      /\ \A v \in Workers, r \in ShardIds : (v # w \/ r # s) => queue'[v][r] = queue[v][r]
  <2> HIDE DEF p
  <2> QED
    BY <1>1, <1>2, <1>4, ShardSet
<1>6. /\ busy' \in [Workers -> [ShardIds -> Deliveries \cup {NoDelivery}]]
      /\ busy'[w][s] = busy[w][s] \/ busy'[w][s] = d
      /\ \A v \in Workers, r \in ShardIds : (v # w \/ r # s) => busy'[v][r] = busy[v][r]
  <2>1. CASE busy' = busy
    BY <1>1, <2>1, Zenon
  <2>2. CASE busy' = [busy EXCEPT ![w][s] = d]
    <3> HIDE DEF d
    <3> QED
      BY <1>1, <1>4, <2>2, ShardSet
  <2> QED
    BY <2>1, <2>2, Zenon
<1>7. BuffersTyped'
  <2>1. \A v \in Workers, r \in ShardIds : Len(queue'[v][r]) <= QueueSize
    BY <1>3, <1>5, Zenon DEF BuffersTyped
  <2> QED
    BY <1>5, <1>6, <2>1, Zenon DEF BuffersTyped
<1>8. PulledInOrder(w) /\ \A r \in ShardIds : ShardInOrder(w, r)
  BY Zenon DEF OrderInv
<1>9. PulledInOrder(w)' /\ Renewed(fetched'[w], fetched[w])
  BY <1>8, PulledStays, Zenon
<1>10. ShardInOrder(w, s)'
  BY <1>5, <1>6, <1>8, ShardAdvances, Zenon
<1>11. \A r \in ShardIds \ {s} : ShardInOrder(w, r)'
  <2> SUFFICES ASSUME NEW r \in ShardIds \ {s} PROVE ShardInOrder(w, r)'
    OBVIOUS
  <2>1. r \in ShardIds /\ queue'[w][r] = queue[w][r] /\ busy'[w][r] = busy[w][r]
    <3>1. r \in ShardIds /\ r # s
      OBVIOUS
    <3>2. queue'[w][r] = queue[w][r]
      BY <1>5, <3>1
    <3>3. busy'[w][r] = busy[w][r]
      BY <1>6, <3>1
    <3> QED
      BY <3>1, <3>2, <3>3, Zenon
  <2> QED
    BY <1>7, <1>8, <1>9, <2>1, ShardStays, Zenon
<1>12. \A v \in Workers \ {w} : PulledInOrder(v)' /\ \A r \in ShardIds : ShardInOrder(v, r)'
  BY <1>5, <1>6, <1>7, UntouchedWorker, Zenon
<1>13. \A r \in ShardIds : ShardInOrder(w, r)'
  BY <1>10, <1>11, Zenon
<1>14. \A v \in Workers : PulledInOrder(v)' /\ \A r \in ShardIds : ShardInOrder(v, r)'
  BY <1>9, <1>12, <1>13, Zenon
<1> QED
  BY <1>7, <1>14, Zenon DEF BuffersStep, OrderInv

LEMMA ReturnBuffers ==
    ASSUME BuffersTyped, Grows, OrderInv, NEW w \in Workers, NEW s \in ShardIds,
           busy' = [busy EXCEPT ![w][s] = NoDelivery], fetched' = fetched, queue' = queue
    PROVE  BuffersStep
<1>1. busy \in [Workers -> [ShardIds -> Deliveries \cup {NoDelivery}]]
  BY DEF BuffersTyped
<1>2. NoDelivery \in Deliveries \cup {NoDelivery}
  OBVIOUS
<1>3. /\ busy' \in [Workers -> [ShardIds -> Deliveries \cup {NoDelivery}]]
      /\ busy'[w][s] = NoDelivery
      /\ \A v \in Workers, r \in ShardIds : (v # w \/ r # s) => busy'[v][r] = busy[v][r]
  BY <1>1, <1>2, ShardSet
<1>4. BuffersTyped'
  BY <1>3, Zenon DEF BuffersTyped
<1>5. PulledInOrder(w) /\ \A r \in ShardIds : ShardInOrder(w, r)
  BY Zenon DEF OrderInv
<1>6. PulledInOrder(w)' /\ Renewed(fetched'[w], fetched[w])
  BY <1>5, PulledStays, Zenon
<1>7. \A r \in ShardIds : ShardInOrder(w, r)'
  BY <1>3, <1>4, <1>5, <1>6, ShardStays, Zenon
<1>8. \A v \in Workers \ {w} : PulledInOrder(v)' /\ \A r \in ShardIds : ShardInOrder(v, r)'
  BY <1>3, <1>4, UntouchedWorker, Zenon
<1> QED
  BY <1>4, <1>6, <1>7, <1>8, Zenon DEF BuffersStep, OrderInv

\* Fetching stops and what was pulled is dropped.
LEMMA StopBuffers ==
    ASSUME BuffersTyped, Grows, OrderInv, NEW w \in Workers,
           fetched' = [fetched EXCEPT ![w] = <<>>], queue' = queue, busy' = busy
    PROVE  BuffersStep
<1>1. /\ fetched \in [Workers -> Seq(Deliveries)]
      /\ <<>> \in Seq(Deliveries) /\ Len(<<>>) <= Capacity
  BY ConstantShape DEF BuffersTyped
<1>2. /\ fetched' \in [Workers -> Seq(Deliveries)] /\ fetched'[w] = <<>>
      /\ \A v \in Workers \ {w} : fetched'[v] = fetched[v]
  BY <1>1, WorkerSet, Zenon
<1>3. BuffersTyped'
  <2>1. \A v \in Workers : Len(fetched'[v]) <= Capacity
    BY <1>1, <1>2, Zenon DEF BuffersTyped
  <2> QED
    BY <1>2, <2>1, Zenon DEF BuffersTyped
<1>4. PulledInOrder(w) /\ \A r \in ShardIds : ShardInOrder(w, r)
  BY Zenon DEF OrderInv
<1>5. PulledInOrder(w)' /\ Renewed(fetched'[w], fetched[w])
  BY <1>2, <1>4, PulledStays, Zenon
<1>6. \A r \in ShardIds : ShardInOrder(w, r)'
  BY <1>3, <1>4, <1>5, ShardStays, Zenon
<1>7. \A v \in Workers \ {w} : PulledInOrder(v)' /\ \A r \in ShardIds : ShardInOrder(v, r)'
  BY <1>2, <1>3, UntouchedWorker, Zenon
<1> QED
  BY <1>3, <1>5, <1>6, <1>7, Zenon DEF BuffersStep, OrderInv

\* The process is gone and so is everything it held.
LEMMA GoneBuffers ==
    ASSUME BuffersTyped, Grows, OrderInv, NEW w \in Workers,
           fetched' = [fetched EXCEPT ![w] = <<>>],
           queue' = [queue EXCEPT ![w] = [s \in ShardIds |-> <<>>]],
           busy' = [busy EXCEPT ![w] = [s \in ShardIds |-> NoDelivery]]
    PROVE  BuffersStep
<1>1. /\ fetched \in [Workers -> Seq(Deliveries)]
      /\ queue \in [Workers -> [ShardIds -> Seq(Deliveries)]]
      /\ busy \in [Workers -> [ShardIds -> Deliveries \cup {NoDelivery}]]
      /\ <<>> \in Seq(Deliveries) /\ Len(<<>>) <= Capacity /\ Len(<<>>) <= QueueSize
  BY ConstantShape DEF BuffersTyped
<1>2. /\ fetched' \in [Workers -> Seq(Deliveries)] /\ fetched'[w] = <<>>
      /\ \A v \in Workers \ {w} : fetched'[v] = fetched[v]
  BY <1>1, WorkerSet, Zenon
<1>3. /\ [s \in ShardIds |-> <<>>] \in [ShardIds -> Seq(Deliveries)]
      /\ [s \in ShardIds |-> NoDelivery] \in [ShardIds -> Deliveries \cup {NoDelivery}]
  BY <1>1
<1>4. /\ queue' \in [Workers -> [ShardIds -> Seq(Deliveries)]] /\ queue'[w] = [s \in ShardIds |-> <<>>]
      /\ \A v \in Workers \ {w} : queue'[v] = queue[v]
  BY <1>1, <1>3, WorkerSet, Zenon
<1>5. /\ busy' \in [Workers -> [ShardIds -> Deliveries \cup {NoDelivery}]]
      /\ busy'[w] = [s \in ShardIds |-> NoDelivery]
      /\ \A v \in Workers \ {w} : busy'[v] = busy[v]
  BY <1>1, <1>3, WorkerSet, Zenon
<1>6. \A s \in ShardIds : queue'[w][s] = <<>> /\ busy'[w][s] = NoDelivery
  BY <1>4, <1>5, Zenon
<1>7. BuffersTyped'
  <2>1. \A v \in Workers : Len(fetched'[v]) <= Capacity
    BY <1>1, <1>2, Zenon DEF BuffersTyped
  <2>2. \A v \in Workers, r \in ShardIds : Len(queue'[v][r]) <= QueueSize
    BY <1>1, <1>4, <1>6, Zenon DEF BuffersTyped
  <2> QED
    BY <1>2, <1>4, <1>5, <2>1, <2>2, Zenon DEF BuffersTyped
<1>8. PulledInOrder(w)'
  BY <1>2, PulledStays, Zenon DEF OrderInv
<1>9. \A r \in ShardIds : ShardInOrder(w, r)'
  BY <1>6, ShardEmptied, Zenon
<1>10. \A v \in Workers \ {w} : PulledInOrder(v)' /\ \A r \in ShardIds : ShardInOrder(v, r)'
  BY <1>2, <1>4, <1>5, <1>7, UntouchedWorker, Zenon
<1> QED
  BY <1>7, <1>8, <1>9, <1>10, Zenon DEF BuffersStep, OrderInv

------------------------------------------------------------------------------
(* The consumer after each action.                                         *)

CStates == {"absent", "ready", "pending", "settled", "exhausted"}

\* The types of the server's state.
ServerTyped ==
    /\ stream \in Seq(Payloads) /\ Len(stream) <= MaxSeq
    /\ cstate \in [Seqs -> CStates] /\ count \in [Seqs -> 0..MaxDeliver] /\ dseq \in Nat

\* What may happen to one sequence: nothing, a change of a live one, or its
\* publication.
SeqStep(q) ==
    \/ cstate'[q] = cstate[q] /\ count'[q] = count[q] /\ (q > Len(stream) => q > Len(stream'))
    \/ /\ cstate[q] \in {"ready", "pending"} /\ cstate'[q] \in CStates \ {"absent"}
       /\ cstate'[q] = "ready" => count'[q] < MaxDeliver
       /\ cstate'[q] = "settled" => Payload(q) \in done' \/ q \in recorded'
    \/ /\ q = Len(stream) + 1 /\ Len(stream') = Len(stream) + 1
       /\ cstate'[q] = "ready" /\ count'[q] = count[q]

ConsumerStep == Grows /\ ServerTyped' /\ StreamInv' /\ SettledInv'

LEMMA ConsumerKeeps ==
    ASSUME ServerTyped, ServerTyped', Grows, StreamInv, SettledInv,
           done \subseteq done', recorded \subseteq recorded', \A q \in Seqs : SeqStep(q)
    PROVE  ConsumerStep
<1>1. Len(stream) \in Nat /\ Len(stream') \in Nat /\ Len(stream) <= Len(stream')
  BY DEF Grows
<1>2. ASSUME NEW q \in Seqs
      PROVE  /\ cstate'[q] = "absent" <=> q > Len(stream')
             /\ cstate'[q] = "absent" => count'[q] = 0
             /\ cstate'[q] = "ready" => count'[q] < MaxDeliver
             /\ cstate'[q] = "settled" => stream'[q] \in done' \/ q \in recorded'
  <2>1. /\ cstate[q] = "absent" <=> q > Len(stream)
        /\ cstate[q] = "absent" => count[q] = 0
        /\ cstate[q] = "ready" => count[q] < MaxDeliver
        /\ cstate[q] = "settled" => Payload(q) \in done \/ q \in recorded
    BY Zenon DEF StreamInv, SettledInv
  <2>2. q \in Nat /\ q >= 1 /\ (q <= Len(stream) => q \in 1..Len(stream))
    BY <1>1 DEF Seqs
  <2>3. q <= Len(stream) => stream'[q] = Payload(q)
    BY <2>2, Zenon DEF Grows, Payload
  <2>4. CASE cstate'[q] = cstate[q] /\ count'[q] = count[q] /\ (q > Len(stream) => q > Len(stream'))
    <3>1. cstate'[q] = "absent" <=> q > Len(stream')
      BY <1>1, <2>1, <2>2, <2>4
    <3>2. cstate'[q] = "settled" => stream'[q] \in done' \/ q \in recorded'
      <4>1. cstate'[q] = "settled" => q <= Len(stream)
        BY <1>1, <2>1, <2>2, <2>4
      <4> QED
        BY <2>1, <2>3, <2>4, <4>1, Zenon
    <3> QED
      BY <2>1, <2>4, <3>1, <3>2, Zenon
  <2>5. CASE /\ cstate[q] \in {"ready", "pending"} /\ cstate'[q] \in CStates \ {"absent"}
             /\ cstate'[q] = "ready" => count'[q] < MaxDeliver
             /\ cstate'[q] = "settled" => Payload(q) \in done' \/ q \in recorded'
    <3>1. q <= Len(stream)
      BY <1>1, <2>1, <2>2, <2>5
    <3>2. cstate'[q] # "absent" /\ ~(q > Len(stream'))
      BY <1>1, <2>2, <2>5, <3>1
    <3> QED
      BY <2>3, <2>5, <3>1, <3>2, Zenon
  <2>6. CASE /\ q = Len(stream) + 1 /\ Len(stream') = Len(stream) + 1
             /\ cstate'[q] = "ready" /\ count'[q] = count[q]
    <3>1. count[q] = 0
      BY <1>1, <2>1, <2>6
    <3> QED
      BY <1>1, <2>2, <2>6, <3>1, ConstantShape
  <2> QED
    BY <2>4, <2>5, <2>6, Zenon DEF SeqStep
<1>3. StreamInv'
  BY <1>2, Zenon DEF StreamInv
<1>4. SettledInv'
  BY <1>2, Zenon DEF SettledInv, Payload
<1> QED
  BY <1>3, <1>4, Zenon DEF ConsumerStep

LEMMA GrowsSame == ASSUME ServerTyped, stream' = stream, dseq' = dseq PROVE Grows
  BY DEF ServerTyped, Grows

LEMMA ConsumerSame ==
    ASSUME ServerTyped, StreamInv, SettledInv, stream' = stream, cstate' = cstate,
           count' = count, dseq' = dseq, done \subseteq done', recorded \subseteq recorded'
    PROVE  ConsumerStep
<1>1. Grows
  BY GrowsSame
<1>2. ServerTyped'
  BY Zenon DEF ServerTyped
<1>3. \A q \in Seqs : SeqStep(q)
  BY Zenon DEF SeqStep
<1> QED
  BY <1>1, <1>2, <1>3, ConsumerKeeps, Zenon

\* One live sequence changes its state.
LEMMA ConsumerMoves ==
    ASSUME ServerTyped, StreamInv, SettledInv, stream' = stream, count' = count, dseq' = dseq,
           done \subseteq done', recorded \subseteq recorded',
           NEW q \in Seqs, cstate[q] \in {"ready", "pending"}, NEW x \in CStates \ {"absent"},
           cstate' = [cstate EXCEPT ![q] = x],
           x = "ready" => count[q] < MaxDeliver,
           x = "settled" => Payload(q) \in done' \/ q \in recorded'
    PROVE  ConsumerStep
<1>1. Grows
  BY GrowsSame
<1>2. /\ cstate' \in [Seqs -> CStates] /\ cstate'[q] = x
      /\ \A r \in Seqs \ {q} : cstate'[r] = cstate[r]
  BY DEF ServerTyped
<1>3. ServerTyped'
  BY <1>2, Zenon DEF ServerTyped
<1>4. SeqStep(q)
  BY <1>2, Zenon DEF SeqStep
<1>5. \A r \in Seqs \ {q} : SeqStep(r)
  BY <1>2, Zenon DEF SeqStep
<1> QED
  BY <1>1, <1>3, <1>4, <1>5, ConsumerKeeps, Zenon

LEMMA RequeueMoves ==
    ASSUME ServerTyped, StreamInv, SettledInv, stream' = stream, count' = count, dseq' = dseq,
           done \subseteq done', recorded \subseteq recorded',
           NEW q \in Seqs, cstate[q] = "pending", Requeue(q)
    PROVE  ConsumerStep
<1>1. cstate[q] \in {"ready", "pending"}
  OBVIOUS
<1>2. CASE count[q] < MaxDeliver
  <2>1. cstate' = [cstate EXCEPT ![q] = "ready"]
    BY <1>2, Zenon DEF Requeue
  <2>2. "ready" \in CStates \ {"absent"} /\ "ready" # "settled"
    BY DEF CStates
  <2> QED
    BY <1>1, <1>2, <2>1, <2>2, ConsumerMoves, Zenon
<1>3. CASE ~(count[q] < MaxDeliver)
  <2>1. cstate' = [cstate EXCEPT ![q] = "exhausted"]
    BY <1>3, Zenon DEF Requeue
  <2>2. "exhausted" \in CStates \ {"absent"} /\ "exhausted" # "settled" /\ "exhausted" # "ready"
    BY DEF CStates
  <2> QED
    BY <1>1, <2>1, <2>2, ConsumerMoves, Zenon
<1> QED
  BY <1>2, <1>3, Zenon

LEMMA NakMoves ==
    ASSUME ServerTyped, StreamInv, SettledInv, stream' = stream, count' = count, dseq' = dseq,
           done \subseteq done', recorded \subseteq recorded', NEW q \in Seqs, Nak(q)
    PROVE  ConsumerStep
<1>1. CASE cstate[q] = "pending"
  BY <1>1, RequeueMoves, Zenon DEF Nak
<1>2. CASE cstate[q] # "pending"
  BY <1>2, ConsumerSame, Zenon DEF Nak
<1> QED
  BY <1>1, <1>2, Zenon

LEMMA SettleMoves ==
    ASSUME ServerTyped, StreamInv, SettledInv, stream' = stream, count' = count, dseq' = dseq,
           done \subseteq done', recorded \subseteq recorded',
           NEW q \in Seqs, Settle(q), Payload(q) \in done' \/ q \in recorded'
    PROVE  ConsumerStep
<1>1. CASE cstate[q] \in {"ready", "pending"}
  <2>1. cstate' = [cstate EXCEPT ![q] = "settled"]
    BY <1>1 DEF Settle
  <2>2. "settled" \in CStates \ {"absent"} /\ "settled" # "ready"
    BY DEF CStates
  <2> QED
    BY <1>1, <2>1, <2>2, ConsumerMoves, Zenon
<1>2. CASE cstate[q] \notin {"ready", "pending"}
  <2>1. cstate' = cstate
    BY <1>2 DEF Settle, ServerTyped
  <2> QED
    BY <2>1, ConsumerSame, Zenon
<1> QED
  BY <1>1, <1>2, Zenon

\* A delivery.
LEMMA ConsumerDelivers ==
    ASSUME ServerTyped, StreamInv, SettledInv, NEW w \in Workers, NEW q \in Seqs, Deliver(w, q)
    PROVE  /\ ConsumerStep
           /\ [seq |-> q, attempt |-> count[q] + 1, n |-> dseq + 1] \in Deliveries
           /\ q <= Len(stream)
<1>1. /\ cstate[q] = "ready" /\ cstate' = [cstate EXCEPT ![q] = "pending"]
      /\ count' = [count EXCEPT ![q] = count[q] + 1] /\ dseq' = dseq + 1
      /\ stream' = stream /\ done' = done /\ recorded' = recorded
  BY DEF Deliver, history
<1>2. /\ stream \in Seq(Payloads) /\ Len(stream) <= MaxSeq /\ Len(stream) \in Nat
      /\ cstate \in [Seqs -> CStates] /\ count \in [Seqs -> 0..MaxDeliver] /\ dseq \in Nat
  BY DEF ServerTyped
<1>3. count[q] < MaxDeliver /\ ~(q > Len(stream)) /\ q \in Nat
  BY <1>1 DEF StreamInv, Seqs
<1>4. count[q] + 1 \in 1..MaxDeliver /\ count[q] + 1 \in 0..MaxDeliver
  BY <1>2, <1>3, ConstantShape
<1>5. "pending" \in CStates \ {"absent"} /\ "pending" # "ready" /\ "pending" # "settled"
  BY DEF CStates
<1>6. /\ cstate' \in [Seqs -> CStates] /\ cstate'[q] = "pending"
      /\ \A r \in Seqs \ {q} : cstate'[r] = cstate[r]
  BY <1>1, <1>2, <1>5
<1>7. count' \in [Seqs -> 0..MaxDeliver] /\ \A r \in Seqs \ {q} : count'[r] = count[r]
  BY <1>1, <1>2, <1>4
<1>8. Grows
  BY <1>1, <1>2 DEF Grows
<1>9. ServerTyped'
  <2>1. dseq' \in Nat
    BY <1>1, <1>2
  <2> QED
    BY <1>1, <1>2, <1>6, <1>7, <2>1, Zenon DEF ServerTyped
<1>10. SeqStep(q)
  <2>1. cstate[q] \in {"ready", "pending"}
    BY <1>1
  <2> QED
    BY <1>5, <1>6, <2>1, Zenon DEF SeqStep
<1>11. \A r \in Seqs \ {q} : SeqStep(r)
  BY <1>1, <1>6, <1>7, Zenon DEF SeqStep
<1>12. ConsumerStep
  <2>1. done \subseteq done' /\ recorded \subseteq recorded'
    BY <1>1
  <2> QED
    BY <1>8, <1>9, <1>10, <1>11, <2>1, ConsumerKeeps, Zenon
<1>13. [seq |-> q, attempt |-> count[q] + 1, n |-> dseq + 1] \in Deliveries
  BY <1>2, <1>4 DEF Deliveries
<1>14. q <= Len(stream)
  BY <1>2, <1>3
<1> QED
  BY <1>12, <1>13, <1>14, Zenon

\* A publication: a new message or a replayed one.
LEMMA ConsumerPublishes ==
    ASSUME ServerTyped, StreamInv, SettledInv, NEW p \in Payloads, Publish(p),
           count' = count, dseq' = dseq, done' = done, recorded' = recorded
    PROVE  ConsumerStep
<1> DEFINE q == Len(stream) + 1
<1>1. /\ stream \in Seq(Payloads) /\ Len(stream) \in Nat /\ Len(stream) < MaxSeq
      /\ cstate \in [Seqs -> CStates] /\ count \in [Seqs -> 0..MaxDeliver] /\ dseq \in Nat
      /\ stream' = Append(stream, p) /\ cstate' = [cstate EXCEPT ![q] = "ready"]
  BY DEF ServerTyped, Publish
<1>2. /\ stream' \in Seq(Payloads) /\ Len(stream') = q
      /\ \A i \in 1..Len(stream) : stream'[i] = stream[i]
  BY <1>1, AppendShape
<1>3. q \in Seqs /\ "ready" \in CStates /\ Len(stream') <= MaxSeq
  BY <1>1, <1>2, ConstantShape DEF Seqs, CStates
<1>4. Grows
  BY <1>1, <1>2, <1>3 DEF Grows
<1>5. /\ cstate' \in [Seqs -> CStates] /\ cstate'[q] = "ready"
      /\ \A r \in Seqs \ {q} : cstate'[r] = cstate[r]
  <2> HIDE DEF q
  <2> QED
    BY <1>1, <1>3
<1>6. ServerTyped'
  BY <1>1, <1>2, <1>3, <1>5, Zenon DEF ServerTyped
<1>7. SeqStep(q)
  BY <1>2, <1>5, Zenon DEF SeqStep
<1>8. ASSUME NEW r \in Seqs \ {q} PROVE SeqStep(r)
  <2>1. r > Len(stream) => r > Len(stream')
    BY <1>1, <1>2 DEF Seqs
  <2> QED
    BY <1>5, <2>1, Zenon DEF SeqStep
<1>9. done \subseteq done' /\ recorded \subseteq recorded'
  OBVIOUS
<1> QED
  BY <1>4, <1>6, <1>7, <1>8, <1>9, ConsumerKeeps, Zenon

------------------------------------------------------------------------------
(* The advisory and its watchers.                                          *)

RestTyped ==
    /\ status \in [Workers -> {"up", "stopping", "down"}] /\ watching \subseteq Workers
    /\ advisories \subseteq Workers \X Seqs
    /\ dlq \subseteq recorded /\ recorded \subseteq Seqs /\ done \subseteq Payloads
    /\ faults \in [FaultKinds -> Nat]

LEMMA TypeParts == TypeOK <=> BuffersTyped /\ ServerTyped /\ RestTyped
  BY Zenon DEF TypeOK, BuffersTyped, ServerTyped, RestTyped, CStates

\* Whoever watches hears of every sequence that runs out of deliveries.
Told ==
    /\ advisories \subseteq advisories' /\ advisories' \subseteq Workers \X Seqs
    /\ \A v \in watching, q \in Seqs : cstate'[q] = "exhausted" =>
          cstate[q] = "exhausted" \/ <<v, q>> \in advisories'
    /\ \A a \in advisories' : a \in advisories \/ a[2] <= Len(stream)

LEMMA ToldSame ==
    ASSUME RestTyped, advisories' = advisories,
           \A q \in Seqs : cstate'[q] = "exhausted" => cstate[q] = "exhausted"
    PROVE  Told
  BY DEF Told, RestTyped

LEMMA RequeueTold ==
    ASSUME ServerTyped, RestTyped, StreamInv, NEW q \in Seqs, cstate[q] = "pending", Requeue(q)
    PROVE  Told
<1>1. cstate \in [Seqs -> CStates] /\ watching \subseteq Workers /\ advisories \subseteq Workers \X Seqs
  BY DEF ServerTyped, RestTyped
<1>2. CASE count[q] < MaxDeliver
  <2>1. cstate' = [cstate EXCEPT ![q] = "ready"] /\ advisories' = advisories
    BY <1>2, Zenon DEF Requeue
  <2>2. \A r \in Seqs : cstate'[r] = "exhausted" => cstate[r] = "exhausted"
    BY <1>1, <2>1
  <2> QED
    BY <2>1, <2>2, ToldSame, Zenon
<1>3. CASE ~(count[q] < MaxDeliver)
  <2>1. /\ cstate' = [cstate EXCEPT ![q] = "exhausted"]
        /\ advisories' = advisories \cup (watching \X {q})
    BY <1>3, Zenon DEF Requeue
  <2>2. \A r \in Seqs : cstate'[r] = "exhausted" => cstate[r] = "exhausted" \/ r = q
    BY <1>1, <2>1
  <2>3. \A v \in watching : <<v, q>> \in advisories'
    BY <2>1
  <2>4. advisories \subseteq advisories' /\ advisories' \subseteq Workers \X Seqs
    BY <1>1, <2>1
  <2>5. q <= Len(stream)
    <3>1. ~(q > Len(stream)) /\ q \in Nat /\ Len(stream) \in Nat
      BY DEF StreamInv, ServerTyped, Seqs
    <3> QED
      BY <3>1
  <2>6. \A a \in advisories' : a \in advisories \/ a[2] = q
    BY <2>1
  <2> QED
    BY <2>2, <2>3, <2>4, <2>5, <2>6, Zenon DEF Told
<1> QED
  BY <1>2, <1>3, Zenon

LEMMA NakTold == ASSUME ServerTyped, RestTyped, StreamInv, NEW q \in Seqs, Nak(q) PROVE Told
<1>1. CASE cstate[q] = "pending"
  BY <1>1, RequeueTold, Zenon DEF Nak
<1>2. CASE cstate[q] # "pending"
  BY <1>2, ToldSame, Zenon DEF Nak
<1> QED
  BY <1>1, <1>2, Zenon

LEMMA SettleTold ==
    ASSUME ServerTyped, RestTyped, NEW q \in Seqs, Settle(q), advisories' = advisories PROVE Told
<1>1. cstate \in [Seqs -> CStates]
  BY DEF ServerTyped
<1>2. \A r \in Seqs : cstate'[r] = "exhausted" => cstate[r] = "exhausted"
  BY <1>1 DEF Settle
<1> QED
  BY <1>2, ToldSame, Zenon

LEMMA GuardStays ==
    ASSUME Told, recorded \subseteq recorded', NEW v \in Workers, Guards(v),
           status'[v] = status[v], v \in watching'
    PROVE  Guards(v)'
<1>1. /\ status[v] = "up" /\ v \in watching
      /\ \A q \in Seqs : cstate[q] = "exhausted" => q \in recorded \/ <<v, q>> \in advisories
  BY Zenon DEF Guards
<1>2. ASSUME NEW q \in Seqs, cstate'[q] = "exhausted" PROVE q \in recorded' \/ <<v, q>> \in advisories'
  BY <1>1, <1>2, Zenon DEF Told
<1> QED
  BY <1>1, <1>2, Zenon DEF Guards

\* Unless a dead-letter publish fails, those that guard go on guarding, but for
\* the one that a counted fault takes away.
GuardStep ==
    faults'["rescue"] = 0 =>
        /\ faults["rescue"] = 0
        /\ \/ Departures' = Departures /\ \A v \in Workers : Guards(v) => Guards(v)'
           \/ \E w \in Workers : /\ Departures' = Departures + 1
                                 /\ \A v \in Workers \ {w} : Guards(v) => Guards(v)'

LEMMA GuardInvStep == ASSUME RestTyped, GuardInv, GuardStep PROVE GuardInv'
<1> SUFFICES ASSUME faults'["rescue"] = 0
             PROVE  \E gone \in SUBSET Workers :
                       /\ Cardinality(gone) <= Departures'
                       /\ \A w \in Workers \ gone : Guards(w)'
  BY Zenon DEF GuardInv
<1>1. faults["rescue"] = 0
  BY Zenon DEF GuardStep
<1>2. PICK gone \in SUBSET Workers :
         Cardinality(gone) <= Departures /\ \A w \in Workers \ gone : Guards(w)
  BY <1>1, Zenon DEF GuardInv
<1>3. IsFiniteSet(Workers) /\ IsFiniteSet(gone) /\ Cardinality(gone) \in Nat
  BY DeliveryAssumption, FS_Subset, FS_CardinalityType
<1>4. Departures \in Nat
  BY DEF Departures, RestTyped, FaultKinds
<1>5. CASE Departures' = Departures /\ \A v \in Workers : Guards(v) => Guards(v)'
  BY <1>2, <1>5, Zenon
<1>6. CASE \E w \in Workers : /\ Departures' = Departures + 1
                              /\ \A v \in Workers \ {w} : Guards(v) => Guards(v)'
  <2>1. PICK w \in Workers : /\ Departures' = Departures + 1
                             /\ \A v \in Workers \ {w} : Guards(v) => Guards(v)'
    BY <1>6, Zenon
  <2>2. gone \cup {w} \in SUBSET Workers
    BY <1>2
  <2>3. Cardinality(gone \cup {w}) = IF w \in gone THEN Cardinality(gone) ELSE Cardinality(gone) + 1
    BY <1>3, FS_AddElement
  <2>4. Cardinality(gone \cup {w}) <= Departures'
    BY <1>2, <1>3, <1>4, <2>1, <2>3
  <2>5. \A v \in Workers \ (gone \cup {w}) : Guards(v)'
    BY <1>2, <2>1
  <2> QED
    BY <2>2, <2>4, <2>5, Zenon
<1> QED
  BY <1>1, <1>5, <1>6, Zenon DEF GuardStep

LEMMA FaultShape ==
    ASSUME RestTyped, NEW kind \in FaultKinds, NEW max, Fault(kind, max)
    PROVE  /\ faults' \in [FaultKinds -> Nat] /\ faults'[kind] = faults[kind] + 1
           /\ \A k \in FaultKinds \ {kind} : faults'[k] = faults[k]
           /\ faults[kind] \in Nat
  BY DEF RestTyped, Fault

\* No worker goes: at most an acknowledgement or a dead letter is lost.
Harmless == \/ faults' = faults \/ Fault("rescue", MaxRescueFaults)
            \/ Fault("ack", MaxAckLoss) \/ Fault("dlq", MaxDlqFaults)

LEMMA HarmlessShape ==
    ASSUME RestTyped, Harmless
    PROVE  /\ faults' \in [FaultKinds -> Nat] /\ Departures' = Departures
           /\ faults'["rescue"] = 0 => faults["rescue"] = 0
<1>1. "rescue" \in FaultKinds /\ "ack" \in FaultKinds /\ "dlq" \in FaultKinds /\ "crash" \in FaultKinds /\ "stop" \in FaultKinds
  BY DEF FaultKinds
<1>2. CASE faults' = faults
  BY <1>2, Zenon DEF RestTyped, Departures
<1>3. CASE Fault("rescue", MaxRescueFaults)
  <2>1. /\ faults' \in [FaultKinds -> Nat] /\ faults'["rescue"] = faults["rescue"] + 1 /\ faults["rescue"] \in Nat
        /\ faults'["crash"] = faults["crash"] /\ faults'["stop"] = faults["stop"]
    BY <1>1, <1>3, FaultShape
  <2>2. faults'["rescue"] # 0
    BY <2>1
  <2> QED
    BY <2>1, <2>2, Zenon DEF Departures
<1>4. CASE Fault("ack", MaxAckLoss) \/ Fault("dlq", MaxDlqFaults)
  <2>1. /\ faults' \in [FaultKinds -> Nat] /\ faults'["rescue"] = faults["rescue"]
        /\ faults'["crash"] = faults["crash"] /\ faults'["stop"] = faults["stop"]
    BY <1>1, <1>4, FaultShape
  <2> QED
    BY <2>1, Zenon DEF Departures
<1> QED
  BY <1>2, <1>3, <1>4, Zenon DEF Harmless

LEMMA GuardSame ==
    ASSUME RestTyped, Harmless, Told, recorded \subseteq recorded', status' = status,
           watching \subseteq watching'
    PROVE  GuardStep
<1>1. Departures' = Departures /\ (faults'["rescue"] = 0 => faults["rescue"] = 0)
  BY HarmlessShape, Zenon
<1>2. ASSUME NEW v \in Workers, Guards(v) PROVE Guards(v)'
  <2>1. v \in watching'
    BY <1>2 DEF Guards
  <2> QED
    BY <1>2, <2>1, GuardStays, Zenon
<1> QED
  BY <1>1, <1>2, Zenon DEF GuardStep

------------------------------------------------------------------------------
(* The actions, one by one.                                                *)

Base == BuffersTyped /\ ServerTyped /\ RestTyped /\ StreamInv /\ InStream /\ OrderInv /\ SettledInv
StepDone == BuffersStep /\ ConsumerStep /\ RestTyped' /\ InStream' /\ GuardStep

\* A step that takes no worker away.
LEMMA QuietStep ==
    ASSUME Base, BuffersStep, ConsumerStep, Harmless, Told, status' = status,
           watching \subseteq watching', watching' \subseteq Workers,
           dlq' \subseteq recorded', recorded \subseteq recorded', recorded' \subseteq Seqs,
           \A q \in recorded' : q \in recorded \/ q <= Len(stream), done' \subseteq Payloads
    PROVE  StepDone
<1>1. RestTyped /\ faults' \in [FaultKinds -> Nat]
  BY HarmlessShape, Zenon DEF Base
<1>2. RestTyped'
  BY <1>1, Zenon DEF RestTyped, Told
<1>3. GuardStep
  BY <1>1, GuardSame, Zenon
<1>4. InStream'
  <2>1. /\ \A q \in recorded' : q <= Len(stream) /\ q \in Seqs
        /\ \A a \in advisories' : a[2] <= Len(stream) /\ a[2] \in Seqs
    BY DEF Base, InStream, Told
  <2>2. \A q \in Seqs : q <= Len(stream) => q <= Len(stream')
    BY DEF ConsumerStep, Grows, Seqs
  <2> QED
    BY <2>1, <2>2, Zenon DEF InStream
<1> QED
  BY <1>2, <1>3, <1>4, Zenon DEF StepDone

\* A message that a worker holds is one of the stream.
LEMMA HeldShape ==
    ASSUME Base, NEW w \in Workers, NEW s \in ShardIds
    PROVE  /\ busy[w][s] # NoDelivery =>
                 busy[w][s].seq \in Seqs /\ Payload(busy[w][s].seq) \in Payloads
           /\ queue[w][s] # <<>> => Head(queue[w][s]).seq \in Seqs
           /\ fetched[w] # <<>> => Head(fetched[w]) \in Deliveries /\ ShardFor(Head(fetched[w])) \in ShardIds
<1>1. /\ busy[w][s] \in Deliveries \cup {NoDelivery} /\ queue[w][s] \in Seq(Deliveries)
      /\ fetched[w] \in Seq(Deliveries) /\ stream \in Seq(Payloads)
  BY DEF Base, BuffersTyped, ServerTyped
<1>2. \A d \in Deliveries : Made(d) => Payload(d.seq) \in Payloads
  BY <1>1, NoDeliveryShape DEF Made, Payload, Seqs
<1>3. ASSUME busy[w][s] # NoDelivery
      PROVE  busy[w][s].seq \in Seqs /\ Payload(busy[w][s].seq) \in Payloads
  BY <1>1, <1>2, <1>3, NoDeliveryShape, Zenon DEF Base, OrderInv, ShardInOrder
<1>4. ASSUME queue[w][s] # <<>> PROVE Head(queue[w][s]).seq \in Seqs
  <2>1. Head(queue[w][s]) \in Deliveries
    BY <1>1, <1>4, TailShape
  <2> QED
    BY <2>1, NoDeliveryShape, Zenon
<1>5. ASSUME fetched[w] # <<>>
      PROVE  Head(fetched[w]) \in Deliveries /\ ShardFor(Head(fetched[w])) \in ShardIds
  <2> DEFINE d == Head(fetched[w])
  <2>1. d \in Deliveries /\ 1 \in DOMAIN fetched[w] /\ d = fetched[w][1]
    <3>1. /\ d \in Deliveries /\ d = fetched[w][1] /\ Len(fetched[w]) \in Nat \ {0}
          /\ DOMAIN fetched[w] = 1..Len(fetched[w])
      BY <1>1, <1>5, TailShape, DomainShape, Zenon
    <3>2. \A n \in Nat \ {0} : 1 \in 1..n
      OBVIOUS
    <3> QED
      BY <3>1, <3>2, Zenon
  <2>2. PulledInOrder(w)
    BY Zenon DEF Base, OrderInv
  <2>3. Made(d)
    BY <2>1, <2>2, Zenon DEF PulledInOrder, AllMade
  <2>4. Payload(d.seq) \in Payloads
    BY <1>2, <2>1, <2>3, Zenon
  <2> QED
    BY <2>1, <2>4, DeliveryAssumption, Zenon DEF ShardFor
<1> QED
  BY <1>3, <1>4, <1>5, Zenon

LEMMA ProduceStep == ASSUME Base, NEW p \in Payloads, Produce(p) PROVE StepDone
<1>1. /\ Publish(p) /\ count' = count /\ dseq' = dseq /\ status' = status /\ watching' = watching
      /\ advisories' = advisories /\ fetched' = fetched /\ queue' = queue /\ busy' = busy
      /\ dlq' = dlq /\ done' = done /\ recorded' = recorded /\ faults' = faults
  BY DEF Produce, buffers, history
<1>2. ConsumerStep
  BY <1>1, ConsumerPublishes, Zenon DEF Base
<1>3. BuffersStep
  BY <1>1, <1>2, SameBuffers, Zenon DEF Base, ConsumerStep
<1>4. Told
  <2>1. \A q \in Seqs : cstate'[q] = "exhausted" => cstate[q] = "exhausted"
    BY <1>1 DEF Publish, Base, ServerTyped
  <2> QED
    BY <1>1, <2>1, ToldSame, Zenon DEF Base
<1>5. Harmless
  BY <1>1, Zenon DEF Harmless
<1>6. /\ watching \subseteq watching' /\ watching' \subseteq Workers /\ dlq' \subseteq recorded'
      /\ recorded \subseteq recorded' /\ recorded' \subseteq Seqs /\ done' \subseteq Payloads
      /\ \A r \in recorded' : r \in recorded \/ r <= Len(stream)
  BY <1>1 DEF Base, RestTyped
<1> QED
  BY <1>1, <1>2, <1>3, <1>4, <1>5, <1>6, QuietStep, Zenon

LEMMA ReplayStep == ASSUME Base, NEW q \in Seqs, Replay(q) PROVE StepDone
<1>1. /\ q \in dlq /\ Publish(Payload(q)) /\ count' = count /\ dseq' = dseq /\ status' = status
      /\ watching' = watching /\ advisories' = advisories
      /\ fetched' = fetched /\ queue' = queue /\ busy' = busy
      /\ done' = done /\ recorded' = recorded
  BY DEF Replay, buffers, history
<1>2. (dlq' = dlq \ {q} /\ faults' = faults) \/ (Fault("dlq", MaxDlqFaults) /\ dlq' = dlq)
  BY DEF Replay
<1>3. /\ watching \subseteq watching' /\ watching' \subseteq Workers /\ dlq' \subseteq recorded'
      /\ recorded \subseteq recorded' /\ recorded' \subseteq Seqs /\ done' \subseteq Payloads
      /\ \A r \in recorded' : r \in recorded \/ r <= Len(stream)
  BY <1>1, <1>2 DEF Base, RestTyped
<1>4. Harmless
  BY <1>2, Zenon DEF Harmless
<1>5. Payload(q) \in Payloads
  BY <1>1 DEF Base, InStream, Payload, ServerTyped, Seqs, RestTyped
<1>6. ConsumerStep
  BY <1>1, <1>5, ConsumerPublishes, Zenon DEF Base
<1>7. BuffersStep
  BY <1>1, <1>6, SameBuffers, Zenon DEF Base, ConsumerStep
<1>8. Told
  <2>1. \A r \in Seqs : cstate'[r] = "exhausted" => cstate[r] = "exhausted"
    BY <1>1 DEF Publish, Base, ServerTyped
  <2> QED
    BY <1>1, <2>1, ToldSame, Zenon DEF Base
<1> QED
  BY <1>1, <1>3, <1>4, <1>6, <1>7, <1>8, QuietStep, Zenon

LEMMA PurgeStep == ASSUME Base, PurgeDeadLetters PROVE StepDone
<1>1. /\ stream' = stream /\ cstate' = cstate /\ count' = count /\ dseq' = dseq /\ status' = status
      /\ watching' = watching /\ advisories' = advisories /\ faults' = faults
      /\ fetched' = fetched /\ queue' = queue /\ busy' = busy
      /\ dlq' = {} /\ done' = done /\ recorded' = recorded
  BY DEF PurgeDeadLetters, consumer, buffers, history
<1>2. /\ watching \subseteq watching' /\ watching' \subseteq Workers /\ dlq' \subseteq recorded'
      /\ recorded \subseteq recorded' /\ recorded' \subseteq Seqs /\ done' \subseteq Payloads
      /\ done \subseteq done' /\ \A r \in recorded' : r \in recorded \/ r <= Len(stream)
  BY <1>1 DEF Base, RestTyped
<1>3. ConsumerStep
  BY <1>1, <1>2, ConsumerSame, Zenon DEF Base
<1>4. BuffersStep
  BY <1>1, <1>3, SameBuffers, Zenon DEF Base, ConsumerStep
<1>5. Told /\ Harmless
  BY <1>1, ToldSame, Zenon DEF Base, Harmless
<1> QED
  BY <1>1, <1>2, <1>3, <1>4, <1>5, QuietStep, Zenon

LEMMA AckTimeoutStep == ASSUME Base, NEW q \in Seqs, AckTimeout(q) PROVE StepDone
<1>1. /\ cstate[q] = "pending" /\ Requeue(q) /\ stream' = stream /\ count' = count /\ dseq' = dseq
      /\ status' = status /\ watching' = watching /\ faults' = faults
      /\ fetched' = fetched /\ queue' = queue /\ busy' = busy
      /\ dlq' = dlq /\ done' = done /\ recorded' = recorded
  BY DEF AckTimeout, buffers, history
<1>2. /\ watching \subseteq watching' /\ watching' \subseteq Workers /\ dlq' \subseteq recorded'
      /\ recorded \subseteq recorded' /\ recorded' \subseteq Seqs /\ done' \subseteq Payloads
      /\ done \subseteq done' /\ \A r \in recorded' : r \in recorded \/ r <= Len(stream)
  BY <1>1 DEF Base, RestTyped
<1>3. ConsumerStep
  BY <1>1, <1>2, RequeueMoves, Zenon DEF Base
<1>4. BuffersStep
  BY <1>1, <1>3, SameBuffers, Zenon DEF Base, ConsumerStep
<1>5. Told /\ Harmless
  BY <1>1, RequeueTold, Zenon DEF Base, Harmless
<1> QED
  BY <1>1, <1>2, <1>3, <1>4, <1>5, QuietStep, Zenon

LEMMA DeliverStep == ASSUME Base, NEW w \in Workers, NEW q \in Seqs, Deliver(w, q) PROVE StepDone
<1> DEFINE d == [seq |-> q, attempt |-> count[q] + 1, n |-> dseq + 1]
<1>1. /\ Len(fetched[w]) < Capacity /\ cstate' = [cstate EXCEPT ![q] = "pending"] /\ dseq' = dseq + 1
      /\ stream' = stream /\ status' = status /\ watching' = watching /\ advisories' = advisories
      /\ fetched' = [fetched EXCEPT ![w] = Append(@, d)] /\ queue' = queue /\ busy' = busy
      /\ dlq' = dlq /\ done' = done /\ recorded' = recorded /\ faults' = faults
  BY DEF Deliver, history
<1>2. /\ watching \subseteq watching' /\ watching' \subseteq Workers /\ dlq' \subseteq recorded'
      /\ recorded \subseteq recorded' /\ recorded' \subseteq Seqs /\ done' \subseteq Payloads
      /\ \A r \in recorded' : r \in recorded \/ r <= Len(stream)
  BY <1>1 DEF Base, RestTyped
<1>3. ConsumerStep /\ d \in Deliveries /\ q <= Len(stream)
  BY ConsumerDelivers, Zenon DEF Base
<1>4. d.n = dseq + 1 /\ d.seq = q
  OBVIOUS
<1>5. BuffersStep
  <2> HIDE DEF d
  <2> QED
    BY <1>1, <1>3, <1>4, DeliverBuffers DEF Base, ConsumerStep
<1>6. \A r \in Seqs : cstate'[r] = "exhausted" => cstate[r] = "exhausted"
  BY <1>1 DEF Base, ServerTyped
<1>7. Told /\ Harmless
  BY <1>1, <1>6, ToldSame, Zenon DEF Base, Harmless
<1> QED
  BY <1>1, <1>2, <1>3, <1>5, <1>7, QuietStep, Zenon

LEMMA DispatchStep == ASSUME Base, NEW w \in Workers, Dispatch(w) PROVE StepDone
<1> DEFINE s == ShardFor(Head(fetched[w]))
<1>1. /\ stream' = stream /\ cstate' = cstate /\ count' = count /\ dseq' = dseq /\ status' = status
      /\ watching' = watching /\ advisories' = advisories /\ faults' = faults
      /\ dlq' = dlq /\ done' = done /\ recorded' = recorded
  BY DEF Dispatch, consumer, history
<1>2. /\ fetched[w] # <<>> /\ Len(queue[w][s]) < QueueSize /\ busy' = busy
      /\ queue' = [queue EXCEPT ![w][s] = Append(@, Head(fetched[w]))]
      /\ fetched' = [fetched EXCEPT ![w] = Tail(@)]
  BY DEF Dispatch
<1>3. /\ watching \subseteq watching' /\ watching' \subseteq Workers /\ dlq' \subseteq recorded'
      /\ recorded \subseteq recorded' /\ recorded' \subseteq Seqs /\ done' \subseteq Payloads
      /\ done \subseteq done' /\ \A r \in recorded' : r \in recorded \/ r <= Len(stream)
  BY <1>1 DEF Base, RestTyped
<1>4. s \in ShardIds
  <2>1. 0 \in ShardIds
    BY DeliveryAssumption DEF ShardIds
  <2> QED
    BY <1>2, <2>1, HeldShape, Zenon
<1>5. ConsumerStep
  BY <1>1, <1>3, ConsumerSame, Zenon DEF Base
<1>6. BuffersStep
  <2>1. Base /\ Grows
    BY <1>5, Zenon DEF ConsumerStep
  <2>2. s = ShardFor(Head(fetched[w]))
    OBVIOUS
  <2> HIDE DEF s
  <2> QED
    BY <1>2, <1>4, <2>1, <2>2, DispatchBuffers DEF Base
<1>7. Told /\ Harmless
  BY <1>1, ToldSame, Zenon DEF Base, Harmless
<1> QED
  BY <1>1, <1>3, <1>5, <1>6, <1>7, QuietStep, Zenon

LEMMA StartStep == ASSUME Base, NEW w \in Workers, NEW s \in ShardIds, Start(w, s) PROVE StepDone
<1>1. /\ stream' = stream /\ cstate' = cstate /\ count' = count /\ dseq' = dseq /\ status' = status
      /\ watching' = watching /\ advisories' = advisories /\ faults' = faults
      /\ dlq' = dlq /\ done' = done /\ recorded' = recorded
  BY DEF Start, consumer, history
<1>2. /\ queue[w][s] # <<>> /\ queue' = [queue EXCEPT ![w][s] = Tail(@)] /\ fetched' = fetched
      /\ busy' = [busy EXCEPT ![w][s] = Head(queue[w][s])]
  BY DEF Start
<1>3. /\ watching \subseteq watching' /\ watching' \subseteq Workers /\ dlq' \subseteq recorded'
      /\ recorded \subseteq recorded' /\ recorded' \subseteq Seqs /\ done' \subseteq Payloads
      /\ done \subseteq done' /\ \A r \in recorded' : r \in recorded \/ r <= Len(stream)
  BY <1>1 DEF Base, RestTyped
<1>4. ConsumerStep
  BY <1>1, <1>3, ConsumerSame, Zenon DEF Base
<1>5. BuffersStep
  BY <1>2, <1>4, TakeBuffers DEF Base, ConsumerStep
<1>6. Told /\ Harmless
  BY <1>1, ToldSame, Zenon DEF Base, Harmless
<1> QED
  BY <1>1, <1>3, <1>4, <1>5, <1>6, QuietStep, Zenon

\* What every way of a handler to return has in common.
LEMMA ReturnsShape ==
    ASSUME Base, NEW w \in Workers, NEW s \in ShardIds, NEW outcome, Returns(w, s, outcome)
    PROVE  /\ busy[w][s].seq \in Seqs /\ Payload(busy[w][s].seq) \in Payloads /\ busy[w][s].seq <= Len(stream)
           /\ stream' = stream /\ count' = count /\ dseq' = dseq /\ status' = status /\ watching' = watching
           /\ Grows /\ BuffersStep
           /\ watching \subseteq watching' /\ watching' \subseteq Workers
<1>1. /\ busy[w][s] # NoDelivery /\ busy' = [busy EXCEPT ![w][s] = NoDelivery]
      /\ stream' = stream /\ count' = count /\ dseq' = dseq /\ status' = status /\ watching' = watching
      /\ fetched' = fetched /\ queue' = queue
  BY DEF Returns
<1>2. busy[w][s].seq \in Seqs /\ Payload(busy[w][s].seq) \in Payloads
  BY <1>1, HeldShape, Zenon
<1>3. busy[w][s].seq <= Len(stream)
  BY <1>1, Zenon DEF Base, OrderInv, ShardInOrder, Made
<1>4. Grows
  BY <1>1, GrowsSame, Zenon DEF Base
<1>5. BuffersStep
  BY <1>1, <1>4, ReturnBuffers DEF Base
<1>6. watching \subseteq watching' /\ watching' \subseteq Workers
  BY <1>1 DEF Base, RestTyped
<1> QED
  BY <1>1, <1>2, <1>3, <1>4, <1>5, <1>6, Zenon

\* The message is negatively acknowledged.
LEMMA NakStep ==
    ASSUME Base, NEW w \in Workers, NEW s \in ShardIds, NEW outcome, Returns(w, s, outcome),
           Nak(busy[w][s].seq), dlq' = dlq, done' = done, recorded' = recorded, Harmless
    PROVE  StepDone
<1> DEFINE q == busy[w][s].seq
<1>1. /\ q \in Seqs /\ stream' = stream /\ count' = count /\ dseq' = dseq /\ status' = status
      /\ BuffersStep /\ watching \subseteq watching' /\ watching' \subseteq Workers /\ Nak(q)
  BY ReturnsShape, Zenon
<1>2. /\ dlq' \subseteq recorded' /\ recorded \subseteq recorded' /\ recorded' \subseteq Seqs
      /\ done' \subseteq Payloads /\ done \subseteq done'
      /\ \A r \in recorded' : r \in recorded \/ r <= Len(stream)
  BY DEF Base, RestTyped
<1> HIDE DEF q
<1>3. ConsumerStep
  BY <1>1, <1>2, NakMoves, Zenon DEF Base
<1>4. Told
  BY <1>1, NakTold, Zenon DEF Base
<1> QED
  BY <1>1, <1>2, <1>3, <1>4, QuietStep, Zenon

LEMMA SucceedStep == ASSUME Base, NEW w \in Workers, NEW s \in ShardIds, Succeed(w, s) PROVE StepDone
<1> DEFINE q == busy[w][s].seq
<1>1. /\ Returns(w, s, "ok") /\ done' = done \cup {Payload(q)} /\ advisories' = advisories
      /\ dlq' = dlq /\ recorded' = recorded
      /\ (Settle(q) /\ faults' = faults) \/ (Fault("ack", MaxAckLoss) /\ cstate' = cstate)
  BY DEF Succeed
<1>2. /\ q \in Seqs /\ stream' = stream /\ count' = count /\ dseq' = dseq /\ status' = status
      /\ Payload(q) \in Payloads
      /\ BuffersStep /\ watching \subseteq watching' /\ watching' \subseteq Workers
  BY <1>1, ReturnsShape, Zenon
<1> HIDE DEF q
<1>3. /\ dlq' \subseteq recorded' /\ recorded \subseteq recorded' /\ recorded' \subseteq Seqs
      /\ done' \subseteq Payloads /\ done \subseteq done' /\ Payload(q) \in done'
      /\ \A r \in recorded' : r \in recorded \/ r <= Len(stream)
  BY <1>1, <1>2 DEF Base, RestTyped
<1>4. ConsumerStep /\ Told
  <2>1. CASE Settle(q)
    BY <1>1, <1>2, <1>3, <2>1, SettleMoves, SettleTold, Zenon DEF Base
  <2>2. CASE cstate' = cstate
    BY <1>1, <1>2, <1>3, <2>2, ConsumerSame, ToldSame, Zenon DEF Base
  <2> QED
    BY <1>1, <2>1, <2>2, Zenon
<1>5. Harmless
  BY <1>1, Zenon DEF Harmless
<1> QED
  BY <1>2, <1>3, <1>4, <1>5, QuietStep, Zenon

LEMMA InterruptStep == ASSUME Base, NEW w \in Workers, NEW s \in ShardIds, Interrupt(w, s) PROVE StepDone
<1>1. PICK outcome \in {"transient", "permanent"} : Returns(w, s, outcome)
  BY Zenon DEF Interrupt
<1>2. Nak(busy[w][s].seq) /\ dlq' = dlq /\ done' = done /\ recorded' = recorded /\ faults' = faults
  BY DEF Interrupt, history
<1>3. Harmless
  BY <1>2, Zenon DEF Harmless
<1> QED
  BY <1>1, <1>2, <1>3, NakStep, Zenon

LEMMA RetryStep == ASSUME Base, NEW w \in Workers, NEW s \in ShardIds, Retry(w, s) PROVE StepDone
<1>1. /\ Returns(w, s, "transient") /\ Nak(busy[w][s].seq)
      /\ dlq' = dlq /\ done' = done /\ recorded' = recorded /\ faults' = faults
  BY DEF Retry
<1>2. Harmless
  BY <1>1, Zenon DEF Harmless
<1> QED
  BY <1>1, <1>2, NakStep, Zenon

LEMMA DeadLetterFailsStep ==
    ASSUME Base, NEW w \in Workers, NEW s \in ShardIds, DeadLetterFails(w, s) PROVE StepDone
<1>1. \E outcome \in {"transient", "permanent"} : Returns(w, s, outcome)
  BY DEF DeadLetterFails, GivesUp
<1>2. /\ Fault("dlq", MaxDlqFaults) /\ Nak(busy[w][s].seq)
      /\ dlq' = dlq /\ done' = done /\ recorded' = recorded
  BY DEF DeadLetterFails
<1>3. Harmless
  BY <1>2, Zenon DEF Harmless
<1> QED
  BY <1>1, <1>2, <1>3, NakStep, Zenon

LEMMA DeadLetterStep == ASSUME Base, NEW w \in Workers, NEW s \in ShardIds, DeadLetter(w, s) PROVE StepDone
<1> DEFINE q == busy[w][s].seq
<1>1. \E outcome \in {"transient", "permanent"} : Returns(w, s, outcome)
  BY DEF DeadLetter, GivesUp
<1>2. /\ dlq' = dlq \cup {q} /\ recorded' = recorded \cup {q}
      /\ advisories' = advisories /\ done' = done
      /\ (Settle(q) /\ faults' = faults) \/ (Fault("ack", MaxAckLoss) /\ cstate' = cstate)
  BY DEF DeadLetter
<1>3. /\ q \in Seqs /\ stream' = stream /\ count' = count /\ dseq' = dseq /\ status' = status
      /\ q <= Len(stream)
      /\ BuffersStep /\ watching \subseteq watching' /\ watching' \subseteq Workers
  BY <1>1, ReturnsShape, Zenon
<1> HIDE DEF q
<1>4. /\ dlq' \subseteq recorded' /\ recorded \subseteq recorded' /\ recorded' \subseteq Seqs
      /\ done' \subseteq Payloads /\ done \subseteq done' /\ q \in recorded'
      /\ \A r \in recorded' : r \in recorded \/ r <= Len(stream)
  BY <1>2, <1>3 DEF Base, RestTyped
<1>5. ConsumerStep /\ Told
  <2>1. CASE Settle(q)
    BY <1>2, <1>3, <1>4, <2>1, SettleMoves, SettleTold, Zenon DEF Base
  <2>2. CASE cstate' = cstate
    BY <1>2, <1>3, <1>4, <2>2, ConsumerSame, ToldSame, Zenon DEF Base
  <2> QED
    BY <1>2, <2>1, <2>2, Zenon
<1>6. Harmless
  BY <1>2, Zenon DEF Harmless
<1> QED
  BY <1>3, <1>4, <1>5, <1>6, QuietStep, Zenon

LEMMA HandBackStep == ASSUME Base, NEW w \in Workers, NEW s \in ShardIds, HandBack(w, s) PROVE StepDone
<1>1. /\ Nak(Head(queue[w][s]).seq) /\ stream' = stream /\ count' = count /\ dseq' = dseq
      /\ status' = status /\ watching' = watching /\ faults' = faults
      /\ dlq' = dlq /\ done' = done /\ recorded' = recorded
  BY DEF HandBack, history
<1>2. /\ queue[w][s] # <<>> /\ queue' = [queue EXCEPT ![w][s] = Tail(@)] /\ fetched' = fetched
      /\ busy' = busy
  BY DEF HandBack
<1>3. /\ watching \subseteq watching' /\ watching' \subseteq Workers /\ dlq' \subseteq recorded'
      /\ recorded \subseteq recorded' /\ recorded' \subseteq Seqs /\ done' \subseteq Payloads
      /\ done \subseteq done' /\ \A r \in recorded' : r \in recorded \/ r <= Len(stream)
  BY <1>1 DEF Base, RestTyped
<1> DEFINE q == Head(queue[w][s]).seq
<1>4. q \in Seqs /\ Nak(q)
  BY <1>1, <1>2, HeldShape, Zenon
<1> HIDE DEF q
<1>5. ConsumerStep /\ Told
  BY <1>1, <1>3, <1>4, NakMoves, NakTold, Zenon DEF Base
<1>6. BuffersStep
  BY <1>2, <1>5, TakeBuffers DEF Base, ConsumerStep
<1>7. Harmless
  BY <1>1, Zenon DEF Harmless
<1> QED
  BY <1>1, <1>3, <1>5, <1>6, <1>7, QuietStep, Zenon

LEMMA SubscribeStep == ASSUME Base, NEW w \in Workers, Subscribe(w) PROVE StepDone
<1>1. /\ stream' = stream /\ cstate' = cstate /\ count' = count /\ dseq' = dseq /\ status' = status
      /\ watching' = watching \cup {w} /\ advisories' = advisories /\ faults' = faults
      /\ fetched' = fetched /\ queue' = queue /\ busy' = busy
      /\ dlq' = dlq /\ done' = done /\ recorded' = recorded
  BY DEF Subscribe, consumer, buffers, history
<1>2. /\ watching \subseteq watching' /\ watching' \subseteq Workers /\ dlq' \subseteq recorded'
      /\ recorded \subseteq recorded' /\ recorded' \subseteq Seqs /\ done' \subseteq Payloads
      /\ done \subseteq done' /\ \A r \in recorded' : r \in recorded \/ r <= Len(stream)
  BY <1>1 DEF Base, RestTyped
<1>3. ConsumerStep
  BY <1>1, <1>2, ConsumerSame, Zenon DEF Base
<1>4. BuffersStep
  BY <1>1, <1>3, SameBuffers, Zenon DEF Base, ConsumerStep
<1>5. Told /\ Harmless
  BY <1>1, ToldSame, Zenon DEF Base, Harmless
<1> QED
  BY <1>1, <1>2, <1>3, <1>4, <1>5, QuietStep, Zenon

\* Dead letters and advisories stay within the stream.
LEMMA InStreamStays ==
    ASSUME Base, Grows, recorded' = recorded, advisories' \subseteq Workers \X Seqs,
           \A a \in advisories' : a \in advisories \/ a[2] <= Len(stream)
    PROVE  InStream'
<1>1. /\ \A q \in recorded' : q <= Len(stream) /\ q \in Seqs
      /\ \A a \in advisories' : a[2] <= Len(stream) /\ a[2] \in Seqs
  BY DEF Base, RestTyped, InStream
<1>2. \A q \in Seqs : q <= Len(stream) => q <= Len(stream')
  BY DEF Grows, Seqs
<1> QED
  BY <1>1, <1>2, Zenon DEF InStream

LEMMA RestartStep == ASSUME Base, NEW w \in Workers, Restart(w) PROVE StepDone
<1>1. /\ stream' = stream /\ cstate' = cstate /\ count' = count /\ dseq' = dseq
      /\ status[w] = "down" /\ status' = [status EXCEPT ![w] = "up"]
      /\ watching' = watching /\ advisories' = advisories /\ faults' = faults
      /\ fetched' = fetched /\ queue' = queue /\ busy' = busy
      /\ dlq' = dlq /\ done' = done /\ recorded' = recorded
  BY DEF Restart, consumer, buffers, history
<1>2. recorded \subseteq recorded' /\ done \subseteq done'
  BY <1>1
<1>3. ConsumerStep
  BY <1>1, <1>2, ConsumerSame, Zenon DEF Base
<1>4. BuffersStep
  BY <1>1, <1>3, SameBuffers, Zenon DEF Base, ConsumerStep
<1>5. status \in [Workers -> {"up", "stopping", "down"}]
  BY DEF Base, RestTyped
<1>6. /\ status' \in [Workers -> {"up", "stopping", "down"}]
      /\ \A v \in Workers \ {w} : status'[v] = status[v]
  BY <1>1, <1>5
<1>7. RestTyped'
  BY <1>1, <1>6, Zenon DEF Base, RestTyped
<1>8. Told /\ InStream'
  <2>1. Told
    BY <1>1, ToldSame, Zenon DEF Base
  <2> QED
    BY <1>1, <1>3, <2>1, InStreamStays, Zenon DEF ConsumerStep, Told
<1>9. ASSUME NEW v \in Workers, Guards(v) PROVE Guards(v)'
  <2>1. v # w /\ v \in watching'
    BY <1>1, <1>9 DEF Guards
  <2>2. status'[v] = status[v]
    BY <1>6, <2>1
  <2> QED
    BY <1>2, <1>8, <1>9, <2>1, <2>2, GuardStays, Zenon
<1>10. GuardStep
  BY <1>1, <1>9, Zenon DEF GuardStep, Departures
<1> QED
  BY <1>3, <1>4, <1>7, <1>8, <1>10, Zenon DEF StepDone

LEMMA RescueStep == ASSUME Base, NEW w \in Workers, NEW q \in Seqs, Rescue(w, q) PROVE StepDone
<1>1. /\ stream' = stream /\ cstate' = cstate /\ count' = count /\ dseq' = dseq
      /\ status' = status /\ watching' = watching
      /\ <<w, q>> \in advisories /\ advisories' = advisories \ {<<w, q>>}
      /\ fetched' = fetched /\ queue' = queue /\ busy' = busy /\ done' = done
  BY DEF Rescue, consumer, buffers
<1>2. \/ dlq' = dlq \cup {q} /\ recorded' = recorded \cup {q} /\ faults' = faults
      \/ Fault("rescue", MaxRescueFaults) /\ dlq' = dlq /\ recorded' = recorded
  BY DEF Rescue
<1>3. recorded \subseteq recorded' /\ done \subseteq done' /\ dlq' \subseteq recorded' /\ recorded' \subseteq Seqs
  BY <1>1, <1>2 DEF Base, RestTyped
<1>4. ConsumerStep
  BY <1>1, <1>3, ConsumerSame, Zenon DEF Base
<1>5. BuffersStep
  BY <1>1, <1>4, SameBuffers, Zenon DEF Base, ConsumerStep
<1>6. Harmless
  BY <1>2, Zenon DEF Harmless
<1>7. /\ faults' \in [FaultKinds -> Nat] /\ Departures' = Departures
      /\ faults'["rescue"] = 0 => faults["rescue"] = 0
  BY <1>6, HarmlessShape, Zenon DEF Base
<1>8. RestTyped'
  <2>1. advisories' \subseteq Workers \X Seqs
    BY <1>1 DEF Base, RestTyped
  <2> QED
    BY <1>1, <1>3, <1>7, <2>1, Zenon DEF Base, RestTyped
<1>9. InStream'
  <2>1. q <= Len(stream)
    <3>1. <<w, q>>[2] <= Len(stream)
      BY <1>1, Zenon DEF Base, InStream
    <3> QED
      BY <3>1
  <2> QED
    BY <1>1, <1>2, <2>1 DEF Base, InStream
<1>10. ASSUME faults'["rescue"] = 0 PROVE q \in recorded'
  <2>1. ~Fault("rescue", MaxRescueFaults)
    <3>1. SUFFICES ASSUME Fault("rescue", MaxRescueFaults) PROVE FALSE
      OBVIOUS
    <3>2. "rescue" \in FaultKinds
      BY DEF FaultKinds
    <3>3. faults'["rescue"] = faults["rescue"] + 1 /\ faults["rescue"] \in Nat
      BY <3>1, <3>2, FaultShape, Zenon DEF Base
    <3> QED
      BY <1>10, <3>3
  <2> QED
    BY <1>2, <2>1
<1>11. ASSUME faults'["rescue"] = 0, NEW v \in Workers, Guards(v) PROVE Guards(v)'
  <2>1. ASSUME NEW r \in Seqs, cstate[r] = "exhausted" PROVE r \in recorded' \/ <<v, r>> \in advisories'
    <3>1. r \in recorded \/ <<v, r>> \in advisories
      BY <1>11, <2>1, Zenon DEF Guards
    <3>2. <<v, r>> = <<w, q>> => r = q
      OBVIOUS
    <3>3. q \in recorded'
      BY <1>10, <1>11
    <3> QED
      BY <1>1, <1>3, <3>1, <3>2, <3>3
  <2> QED
    BY <1>1, <1>11, <2>1, Zenon DEF Guards
<1>12. GuardStep
  BY <1>7, <1>11, Zenon DEF GuardStep
<1> QED
  BY <1>4, <1>5, <1>8, <1>9, <1>12, Zenon DEF StepDone

LEMMA StopStep == ASSUME Base, NEW w \in Workers, Stop(w) PROVE StepDone
<1>1. /\ stream' = stream /\ count' = count /\ dseq' = dseq
      /\ status' = [status EXCEPT ![w] = "stopping"] /\ watching' = watching \ {w}
      /\ fetched' = [fetched EXCEPT ![w] = <<>>] /\ queue' = queue /\ busy' = busy
      /\ dlq' = dlq /\ done' = done /\ recorded' = recorded /\ Fault("stop", MaxStops)
  BY DEF Stop, history
<1>2. \/ fetched[w] # <<>> /\ Nak(Head(fetched[w]).seq)
      \/ cstate' = cstate /\ advisories' = advisories
  BY DEF Stop
<1>3. recorded \subseteq recorded' /\ done \subseteq done'
  BY <1>1
<1>4. ConsumerStep /\ Told
  <2>1. CASE fetched[w] # <<>> /\ Nak(Head(fetched[w]).seq)
    <3> DEFINE q == Head(fetched[w]).seq
    <3>1. q \in Seqs /\ Nak(q)
      <4>1. 0 \in ShardIds
        BY DeliveryAssumption DEF ShardIds
      <4>2. Head(fetched[w]) \in Deliveries
        BY <2>1, <4>1, HeldShape, Zenon
      <4> QED
        BY <2>1, <4>2, NoDeliveryShape, Zenon
    <3> HIDE DEF q
    <3> QED
      BY <1>1, <1>3, <3>1, NakMoves, NakTold, Zenon DEF Base
  <2>2. CASE cstate' = cstate /\ advisories' = advisories
    BY <1>1, <1>3, <2>2, ConsumerSame, ToldSame, Zenon DEF Base
  <2> QED
    BY <1>2, <2>1, <2>2, Zenon
<1>5. BuffersStep
  BY <1>1, <1>4, StopBuffers, Zenon DEF Base, ConsumerStep
<1>6. status \in [Workers -> {"up", "stopping", "down"}] /\ watching \subseteq Workers
  BY DEF Base, RestTyped
<1>7. /\ status' \in [Workers -> {"up", "stopping", "down"}] /\ watching' \subseteq Workers
      /\ \A v \in Workers \ {w} : status'[v] = status[v]
  BY <1>1, <1>6
<1>8. "stop" \in FaultKinds /\ "crash" \in FaultKinds \ {"stop"} /\ "rescue" \in FaultKinds \ {"stop"}
  BY DEF FaultKinds
<1>9. /\ faults' \in [FaultKinds -> Nat] /\ faults'["stop"] = faults["stop"] + 1 /\ faults["stop"] \in Nat
      /\ faults'["crash"] = faults["crash"] /\ faults'["rescue"] = faults["rescue"]
  BY <1>1, <1>8, FaultShape, Zenon DEF Base
<1>10. Departures' = Departures + 1
  <2>1. faults["crash"] \in Nat
    BY <1>8 DEF Base, RestTyped
  <2> QED
    BY <1>9, <2>1 DEF Departures
<1>11. RestTyped'
  BY <1>1, <1>4, <1>7, <1>9, Zenon DEF Base, RestTyped, Told
<1>12. InStream'
  BY <1>1, <1>4, InStreamStays, Zenon DEF ConsumerStep, Told
<1>13. ASSUME NEW v \in Workers \ {w}, Guards(v) PROVE Guards(v)'
  <2>1. v \in Workers /\ v \in watching' /\ status'[v] = status[v]
    BY <1>1, <1>7, <1>13 DEF Guards
  <2> QED
    BY <1>3, <1>4, <1>13, <2>1, GuardStays, Zenon
<1>14. GuardStep
  BY <1>9, <1>10, <1>13, Zenon DEF GuardStep
<1> QED
  BY <1>4, <1>5, <1>11, <1>12, <1>14, Zenon DEF StepDone

\* What an exit and a crash have in common.
LEMMA GoneShape ==
    ASSUME Base, NEW w \in Workers, Gone(w), faults' \in [FaultKinds -> Nat]
    PROVE  /\ BuffersStep /\ ConsumerStep /\ RestTyped' /\ InStream'
           /\ \A v \in Workers \ {w} : Guards(v) => Guards(v)'
<1>1. /\ stream' = stream /\ cstate' = cstate /\ count' = count /\ dseq' = dseq
      /\ status' = [status EXCEPT ![w] = "down"] /\ watching' = watching \ {w}
      /\ advisories' = { a \in advisories : a[1] # w }
      /\ fetched' = [fetched EXCEPT ![w] = <<>>]
      /\ queue' = [queue EXCEPT ![w] = [s \in ShardIds |-> <<>>]]
      /\ busy' = [busy EXCEPT ![w] = [s \in ShardIds |-> NoDelivery]]
      /\ dlq' = dlq /\ done' = done /\ recorded' = recorded
  BY DEF Gone, consumer, history
<1>2. recorded \subseteq recorded' /\ done \subseteq done'
  BY <1>1
<1>3. ConsumerStep
  BY <1>1, <1>2, ConsumerSame, Zenon DEF Base
<1>4. BuffersStep
  BY <1>1, <1>3, GoneBuffers, Zenon DEF Base, ConsumerStep
<1>5. /\ status \in [Workers -> {"up", "stopping", "down"}] /\ watching \subseteq Workers
      /\ advisories \subseteq Workers \X Seqs
  BY DEF Base, RestTyped
<1>6. /\ status' \in [Workers -> {"up", "stopping", "down"}] /\ watching' \subseteq Workers
      /\ \A v \in Workers \ {w} : status'[v] = status[v]
  BY <1>1, <1>5
<1>7. advisories' \subseteq advisories /\ advisories' \subseteq Workers \X Seqs
  BY <1>1, <1>5
<1>8. RestTyped'
  BY <1>1, <1>6, <1>7, Zenon DEF Base, RestTyped
<1>9. InStream'
  BY <1>1, <1>3, <1>7, InStreamStays, Zenon DEF ConsumerStep
<1>10. ASSUME NEW v \in Workers \ {w}, Guards(v) PROVE Guards(v)'
  <2>1. v \in Workers /\ v # w /\ v \in watching' /\ status'[v] = status[v]
    BY <1>1, <1>6, <1>10 DEF Guards
  <2>2. \A q \in Seqs : <<v, q>> \in advisories => <<v, q>> \in advisories'
    BY <1>1, <2>1
  <2> QED
    BY <1>1, <1>10, <2>1, <2>2, Zenon DEF Guards
<1> QED
  BY <1>3, <1>4, <1>8, <1>9, <1>10, Zenon

LEMMA ExitStep == ASSUME Base, NEW w \in Workers, Exit(w) PROVE StepDone
<1>1. status[w] = "stopping" /\ Gone(w) /\ faults' = faults
  BY DEF Exit
<1>2. faults' \in [FaultKinds -> Nat]
  BY <1>1, Zenon DEF Base, RestTyped
<1>3. ~Guards(w)
  BY <1>1 DEF Guards
<1>4. /\ BuffersStep /\ ConsumerStep /\ RestTyped' /\ InStream'
      /\ \A v \in Workers \ {w} : Guards(v) => Guards(v)'
  BY <1>1, <1>2, GoneShape, Zenon
<1>5. GuardStep
  BY <1>1, <1>3, <1>4, Zenon DEF GuardStep, Departures
<1> QED
  BY <1>4, <1>5, Zenon DEF StepDone

LEMMA CrashStep == ASSUME Base, NEW w \in Workers, Crash(w) PROVE StepDone
<1>1. Gone(w) /\ Fault("crash", MaxCrashes)
  BY DEF Crash
<1>2. "crash" \in FaultKinds /\ "stop" \in FaultKinds \ {"crash"} /\ "rescue" \in FaultKinds \ {"crash"}
  BY DEF FaultKinds
<1>3. /\ faults' \in [FaultKinds -> Nat] /\ faults'["crash"] = faults["crash"] + 1 /\ faults["crash"] \in Nat
      /\ faults'["stop"] = faults["stop"] /\ faults'["rescue"] = faults["rescue"]
  BY <1>1, <1>2, FaultShape, Zenon DEF Base
<1>4. Departures' = Departures + 1
  <2>1. faults["stop"] \in Nat
    BY <1>2 DEF Base, RestTyped
  <2> QED
    BY <1>3, <2>1 DEF Departures
<1>5. /\ BuffersStep /\ ConsumerStep /\ RestTyped' /\ InStream'
      /\ \A v \in Workers \ {w} : Guards(v) => Guards(v)'
  BY <1>1, <1>3, GoneShape, Zenon
<1>6. GuardStep
  BY <1>3, <1>4, <1>5, Zenon DEF GuardStep
<1> QED
  BY <1>5, <1>6, Zenon DEF StepDone

------------------------------------------------------------------------------
(* The invariant.                                                          *)

LEMMA NextStep == ASSUME Base, Next PROVE StepDone
<1>1. CASE \E p \in Payloads : Produce(p)
  BY <1>1, ProduceStep, Zenon
<1>2. CASE \E q \in Seqs : ServerStep(q) \/ Replay(q)
  BY <1>2, AckTimeoutStep, DeliverStep, ReplayStep, Zenon DEF ServerStep
<1>3. CASE \E w \in Workers : \/ Dispatch(w) \/ Stop(w) \/ Exit(w) \/ Crash(w)
                              \/ Restart(w) \/ Subscribe(w)
                              \/ \E q \in Seqs : Rescue(w, q)
                              \/ \E s \in ShardIds : \/ Start(w, s) \/ Settles(w, s)
                                                     \/ HandBack(w, s)
  <2>1. PICK w \in Workers : \/ Dispatch(w) \/ Stop(w) \/ Exit(w) \/ Crash(w)
                             \/ Restart(w) \/ Subscribe(w)
                             \/ \E q \in Seqs : Rescue(w, q)
                             \/ \E s \in ShardIds : \/ Start(w, s) \/ Settles(w, s)
                                                    \/ HandBack(w, s)
    BY <1>3, Zenon
  <2>2. CASE Dispatch(w) \/ Stop(w) \/ Exit(w) \/ Crash(w) \/ Restart(w) \/ Subscribe(w)
    BY <2>2, DispatchStep, StopStep, ExitStep, CrashStep, RestartStep, SubscribeStep, Zenon
  <2>3. CASE \E q \in Seqs : Rescue(w, q)
    BY <2>3, RescueStep, Zenon
  <2>4. CASE \E s \in ShardIds : Start(w, s) \/ Settles(w, s) \/ HandBack(w, s)
    BY <2>4, StartStep, HandBackStep, SucceedStep, InterruptStep, RetryStep, DeadLetterStep,
       DeadLetterFailsStep, Zenon DEF Settles
  <2> QED
    BY <2>1, <2>2, <2>3, <2>4, Zenon
<1>4. CASE PurgeDeadLetters
  BY <1>4, PurgeStep
<1> QED
  BY <1>1, <1>2, <1>3, <1>4, Zenon DEF Next

LEMMA Inductive == DeliveryInv /\ [Next]_vars => DeliveryInv'
<1> SUFFICES ASSUME DeliveryInv, [Next]_vars PROVE DeliveryInv'
  OBVIOUS
<1>1. Base /\ GuardInv
  BY TypeParts, Zenon DEF DeliveryInv, Base
<1>2. CASE Next
  <2>1. StepDone
    BY <1>1, <1>2, NextStep
  <2>2. GuardInv'
    BY <1>1, <2>1, GuardInvStep, Zenon DEF Base, StepDone
  <2>3. BuffersTyped' /\ ServerTyped' /\ RestTyped'
    BY <2>1, Zenon DEF StepDone, BuffersStep, ConsumerStep
  <2>4. TypeOK'
    BY <2>3, Zenon DEF TypeOK, BuffersTyped, ServerTyped, RestTyped, CStates
  <2> QED
    BY <2>1, <2>2, <2>4, Zenon DEF DeliveryInv, StepDone, BuffersStep, ConsumerStep
<1>3. CASE vars' = vars
  <2>1. /\ stream' = stream /\ cstate' = cstate /\ count' = count /\ dseq' = dseq /\ status' = status
        /\ watching' = watching /\ advisories' = advisories /\ faults' = faults
        /\ fetched' = fetched /\ queue' = queue /\ busy' = busy
        /\ dlq' = dlq /\ done' = done /\ recorded' = recorded
    BY <1>3 DEF vars
  <2>2. TypeOK'
    BY <1>1, <2>1, Zenon DEF TypeOK, DeliveryInv
  <2>3. StreamInv' /\ InStream' /\ SettledInv'
    BY <2>1, Zenon DEF DeliveryInv, StreamInv, InStream, SettledInv, Payload
  <2>4. OrderInv'
    <3>1. Grows
      BY <1>1, <2>1, GrowsSame, Zenon DEF Base
    <3> QED
      BY <1>1, <2>1, <3>1, SameBuffers, Zenon DEF Base, BuffersStep
  <2>5. GuardInv'
    <3>1. \A w \in Workers : Guards(w) => Guards(w)'
      BY <2>1, Zenon DEF Guards
    <3>2. GuardStep
      BY <2>1, <3>1, Zenon DEF GuardStep, Departures
    <3> QED
      BY <1>1, <3>2, GuardInvStep, Zenon DEF Base
  <2> QED
    BY <2>2, <2>3, <2>4, <2>5, Zenon DEF DeliveryInv
<1> QED
  BY <1>2, <1>3, Zenon

LEMMA InitInv == Init => DeliveryInv
<1> SUFFICES ASSUME Init PROVE DeliveryInv
  OBVIOUS
<1>1. /\ stream = <<>> /\ cstate = [q \in Seqs |-> "absent"] /\ count = [q \in Seqs |-> 0] /\ dseq = 0
      /\ status = [w \in Workers |-> "up"] /\ watching = Workers /\ advisories = {}
      /\ fetched = [w \in Workers |-> <<>>]
      /\ queue = [w \in Workers |-> [s \in ShardIds |-> <<>>]]
      /\ busy = [w \in Workers |-> [s \in ShardIds |-> NoDelivery]]
      /\ dlq = {} /\ done = {} /\ recorded = {}
      /\ faults = [kind \in FaultKinds |-> 0]
  BY Zenon DEF Init
<1>2. ServerTyped
  <2>1. "absent" \in CStates /\ 0 \in 0..MaxDeliver /\ <<>> \in Seq(Payloads) /\ Len(<<>>) <= MaxSeq /\ 0 \in Nat
    BY ConstantShape DEF CStates
  <2> QED
    BY <1>1, <2>1, Zenon DEF ServerTyped
<1>3. RestTyped
  BY <1>1 DEF RestTyped
<1>4. \A w \in Workers, s \in ShardIds : queue[w][s] = <<>> /\ busy[w][s] = NoDelivery
  BY <1>1
<1>5. \A w \in Workers : fetched[w] = <<>>
  BY <1>1
<1>6. BuffersTyped
  <2>1. <<>> \in Seq(Deliveries) /\ Len(<<>>) <= Capacity /\ Len(<<>>) <= QueueSize
    BY ConstantShape
  <2>2. /\ [s \in ShardIds |-> <<>>] \in [ShardIds -> Seq(Deliveries)]
        /\ [s \in ShardIds |-> NoDelivery] \in [ShardIds -> Deliveries \cup {NoDelivery}]
    BY <2>1
  <2>3. /\ fetched \in [Workers -> Seq(Deliveries)]
        /\ queue \in [Workers -> [ShardIds -> Seq(Deliveries)]]
        /\ busy \in [Workers -> [ShardIds -> Deliveries \cup {NoDelivery}]]
    BY <1>1, <2>1, <2>2, Zenon
  <2> QED
    BY <1>4, <1>5, <2>1, <2>3, Zenon DEF BuffersTyped
<1>7. StreamInv
  <2>1. Len(stream) = 0 /\ "absent" # "ready"
    BY <1>1
  <2>2. \A q \in Seqs : q > 0
    BY DEF Seqs
  <2> QED
    BY <1>1, <2>1, <2>2, Zenon DEF StreamInv
<1>8. InStream
  BY <1>1, Zenon DEF InStream
<1>9. OrderInv
  <2>1. DOMAIN <<>> = {}
    OBVIOUS
  <2> QED
    BY <1>4, <1>5, <2>1, Zenon DEF OrderInv, PulledInOrder, ShardInOrder, AllMade, Increasing, AllBefore
<1>10. SettledInv
  <2>1. "absent" # "settled"
    OBVIOUS
  <2> QED
    BY <1>1, <2>1, Zenon DEF SettledInv
<1>11. GuardInv
  <2>1. Cardinality({}) = 0 /\ {} \in SUBSET Workers
    BY FS_EmptySet
  <2>2. Cardinality({}) <= Departures
    BY <1>1, <2>1 DEF Departures, FaultKinds
  <2>3. "absent" # "exhausted"
    OBVIOUS
  <2>4. \A w \in Workers \ {} : Guards(w)
    BY <1>1, <2>3 DEF Guards
  <2> QED
    BY <2>1, <2>2, <2>4, Zenon DEF GuardInv
<1>12. TypeOK
  BY <1>2, <1>3, <1>6, TypeParts
<1> QED
  BY <1>7, <1>8, <1>9, <1>10, <1>11, <1>12, Zenon DEF DeliveryInv

LEMMA Invariance == Spec => []DeliveryInv
  BY InitInv, Inductive, PTL DEF Spec

------------------------------------------------------------------------------

\* In every run of the consumer its state has its type: no sequence is
\* delivered more than MaxDeliver times, and a worker never holds more than it
\* may pull ahead nor a shard more than its buffer (Run, NewWorker).
THEOREM TypeCorrect == Spec => []TypeOK
<1>1. DeliveryInv => TypeOK
  BY Zenon DEF DeliveryInv
<1> QED
  BY <1>1, Invariance, PTL

\* Where a delivery that a worker holds is.
Running(w, d)  == \E s \in ShardIds : busy[w][s] = d /\ d # NoDelivery
Buffered(w, d) == \E s \in ShardIds : \E i \in DOMAIN queue[w][s] : queue[w][s][i] = d
Pulled(w, d)   == \E i \in DOMAIN fetched[w] : fetched[w][i] = d

LEMMA HeldSomewhere ==
    ASSUME NEW w \in Workers, NEW d \in Held(w) PROVE Running(w, d) \/ Buffered(w, d) \/ Pulled(w, d)
  BY DEF Held, Elements, Running, Buffered, Pulled

LEMMA InDeliveryOrder ==
    ASSUME DeliveryInv, NEW w \in Workers, NEW d \in Held(w), NEW e \in Held(w),
           Key[Payload(d.seq)] = Key[Payload(e.seq)], d.n < e.n
    PROVE  Precedes(w, d, e) /\ ~Precedes(w, e, d)
<1> DEFINE f == fetched[w]
<1>1. /\ f \in Seq(Deliveries) /\ Len(f) <= Capacity /\ DOMAIN f = 1..Len(f) /\ Len(f) \in Nat
      /\ Increasing(f)
  <2>1. f \in Seq(Deliveries) /\ Len(f) <= Capacity
    BY DEF DeliveryInv, TypeOK
  <2>2. Increasing(f)
    BY Zenon DEF DeliveryInv, OrderInv, PulledInOrder
  <2> QED
    BY <2>1, <2>2, DomainShape, Zenon
<1>2. ASSUME NEW s \in ShardIds
      PROVE  /\ queue[w][s] \in Seq(Deliveries) /\ Len(queue[w][s]) <= QueueSize
             /\ DOMAIN queue[w][s] = 1..Len(queue[w][s]) /\ Len(queue[w][s]) \in Nat
             /\ busy[w][s] \in Deliveries \cup {NoDelivery} /\ ShardInOrder(w, s)
  <2>1. /\ queue[w][s] \in Seq(Deliveries) /\ Len(queue[w][s]) <= QueueSize
        /\ busy[w][s] \in Deliveries \cup {NoDelivery}
    BY DEF DeliveryInv, TypeOK
  <2>2. ShardInOrder(w, s)
    BY Zenon DEF DeliveryInv, OrderInv
  <2> QED
    BY <2>1, <2>2, DomainShape, Zenon
\* Where two deliveries of one key can be, and what that says of their order.
<1>3. ASSUME NEW x, x \in {d, e} PROVE x \in Deliveries /\ x # NoDelivery /\ x.n \in Nat
  <2>1. x \in Held(w)
    BY <1>3
  <2>2. Running(w, x) \/ Buffered(w, x) \/ Pulled(w, x)
    BY <2>1, HeldSomewhere
  <2>3. CASE Running(w, x)
    BY <1>2, <2>3, NoDeliveryShape, Zenon DEF Running
  <2>4. CASE Buffered(w, x)
    BY <1>2, <2>4, NoDeliveryShape DEF Buffered
  <2>5. CASE Pulled(w, x)
    BY <1>1, <2>5, NoDeliveryShape DEF Pulled
  <2> QED
    BY <2>2, <2>3, <2>4, <2>5, Zenon
<1>4. d # e /\ ~(e.n < d.n) /\ ShardFor(d) = ShardFor(e) /\ e # NoDelivery
  <2>1. d.n \in Nat /\ e.n \in Nat /\ e # NoDelivery
    BY <1>3
  <2>2. d # e /\ ~(e.n < d.n)
    BY <2>1
  <2> QED
    BY <2>1, <2>2, Zenon DEF ShardFor
<1>5. Running(w, d) \/ Buffered(w, d) \/ Pulled(w, d)
  BY HeldSomewhere
<1>6. Running(w, e) \/ Buffered(w, e) \/ Pulled(w, e)
  BY HeldSomewhere
<1>7. ASSUME NEW s \in ShardIds, busy[w][s] = e PROVE FALSE
  <2>1. /\ ShardFor(e) = s /\ AllBefore(e, queue[w][s]) /\ AllBefore(e, f)
    BY <1>2, <1>4, <1>7, Zenon DEF ShardInOrder
  <2>2. ASSUME Running(w, d) PROVE FALSE
    <3>1. PICK r \in ShardIds : busy[w][r] = d /\ d # NoDelivery
      BY <2>2, Zenon DEF Running
    <3>2. ShardFor(d) = r
      BY <1>2, <3>1, Zenon DEF ShardInOrder
    <3> QED
      BY <1>4, <1>7, <2>1, <3>1, <3>2, Zenon
  <2>3. ASSUME Buffered(w, d) PROVE FALSE
    <3>1. PICK r \in ShardIds : \E i \in DOMAIN queue[w][r] : queue[w][r][i] = d
      BY <2>3, Zenon DEF Buffered
    <3>2. ShardFor(d) = r
      BY <1>2, <3>1, Zenon DEF ShardInOrder
    <3>3. e.n < d.n
      BY <1>4, <2>1, <3>1, <3>2, Zenon DEF AllBefore
    <3> QED
      BY <1>4, <3>3, Zenon
  <2>4. ASSUME Pulled(w, d) PROVE FALSE
    BY <1>4, <2>1, <2>4, Zenon DEF Pulled, AllBefore
  <2> QED
    BY <1>5, <2>2, <2>3, <2>4, Zenon
<1>8. ASSUME Buffered(w, e) PROVE ~Pulled(w, d)
  <2>1. PICK s \in ShardIds : \E i \in DOMAIN queue[w][s] : queue[w][s][i] = e
    BY <1>8, Zenon DEF Buffered
  <2>2. AllBefore(e, f)
    BY <1>2, <2>1, Zenon DEF ShardInOrder
  <2> QED
    BY <1>4, <2>2, Zenon DEF Pulled, AllBefore
<1>9. ASSUME NEW s \in ShardIds, NEW i \in DOMAIN queue[w][s], NEW j \in DOMAIN queue[w][s],
             queue[w][s][i] = d, queue[w][s][j] = e
      PROVE  i < j
  <2>1. i \in Nat /\ j \in Nat /\ i # j
    BY <1>2, <1>4, <1>9
  <2>2. ~(j < i)
    BY <1>2, <1>4, <1>9, Zenon DEF ShardInOrder, Increasing
  <2> QED
    BY <2>1, <2>2
<1>10. ASSUME NEW i \in DOMAIN f, NEW j \in DOMAIN f, f[i] = d, f[j] = e PROVE i < j
  <2>1. i \in Nat /\ j \in Nat /\ i # j
    BY <1>1, <1>4, <1>10
  <2>2. ~(j < i)
    BY <1>1, <1>4, <1>10, Zenon DEF Increasing
  <2> QED
    BY <2>1, <2>2
<1>11. Precedes(w, d, e)
  <2>1. CASE Running(w, d)
    BY <1>4, <2>1, Zenon DEF Running, Precedes
  <2>2. CASE Buffered(w, d)
    <3>1. PICK s \in ShardIds : \E i \in DOMAIN queue[w][s] : queue[w][s][i] = d
      BY <2>2, Zenon DEF Buffered
    <3>2. PICK i \in DOMAIN queue[w][s] : queue[w][s][i] = d
      BY <3>1
    <3>3. CASE Buffered(w, e)
      <4>1. PICK r \in ShardIds : \E j \in DOMAIN queue[w][r] : queue[w][r][j] = e
        BY <3>3, Zenon DEF Buffered
      <4>2. ShardFor(d) = s /\ ShardFor(e) = r
        BY <1>2, <3>2, <4>1, Zenon DEF ShardInOrder
      <4>3. PICK j \in DOMAIN queue[w][s] : queue[w][s][j] = e
        BY <1>4, <4>1, <4>2, Zenon
      <4>4. i < j
        BY <1>9, <3>2, <4>3, Zenon
      <4>5. i \in 1..QueueSize /\ j \in 1..QueueSize /\ j <= Len(queue[w][s])
        BY <1>2, ConstantShape
      <4> QED
        BY <3>2, <4>3, <4>4, <4>5, Zenon DEF Precedes
    <3>4. CASE Pulled(w, e)
      <4>1. d \in Elements(queue[w][s]) /\ e \in Elements(fetched[w])
        BY <3>2, <3>4, Zenon DEF Pulled, Elements
      <4> QED
        BY <4>1, Zenon DEF Precedes
    <3> QED
      BY <1>6, <1>7, <3>3, <3>4, Zenon DEF Running
  <2>3. CASE Pulled(w, d)
    <3>1. ~Buffered(w, e) /\ ~Running(w, e)
      BY <1>7, <1>8, <2>3, Zenon DEF Running
    <3>2. PICK i \in DOMAIN f : f[i] = d
      BY <2>3, Zenon DEF Pulled
    <3>3. PICK j \in DOMAIN f : f[j] = e
      BY <1>6, <3>1, Zenon DEF Pulled
    <3>4. i < j
      BY <1>10, <3>2, <3>3, Zenon
    <3>5. i \in 1..Capacity /\ j \in 1..Capacity /\ j <= Len(f)
      BY <1>1, ConstantShape
    <3> QED
      BY <3>2, <3>3, <3>4, <3>5, Zenon DEF Precedes
  <2> QED
    BY <1>5, <2>1, <2>2, <2>3, Zenon
<1>12. ASSUME Precedes(w, e, d) PROVE FALSE
  <2>1. CASE \E s \in ShardIds : busy[w][s] = e /\ d # e
    BY <1>7, <2>1, Zenon
  <2>2. CASE \E s \in ShardIds : e \in Elements(queue[w][s]) /\ d \in Elements(fetched[w])
    BY <1>8, <2>2, Zenon DEF Elements, Buffered, Pulled
  <2>3. CASE \E s \in ShardIds, i, j \in 1..QueueSize :
                /\ i < j /\ j <= Len(queue[w][s]) /\ queue[w][s][i] = e /\ queue[w][s][j] = d
    <3>1. PICK s \in ShardIds, i \in 1..QueueSize, j \in 1..QueueSize :
             /\ i < j /\ j <= Len(queue[w][s]) /\ queue[w][s][i] = e /\ queue[w][s][j] = d
      BY <2>3, Zenon
    <3>2. i \in DOMAIN queue[w][s] /\ j \in DOMAIN queue[w][s] /\ ~(j < i)
      BY <1>2, <3>1, ConstantShape
    <3> QED
      BY <1>9, <3>1, <3>2, Zenon
  <2>4. CASE \E i, j \in 1..Capacity :
                i < j /\ j <= Len(fetched[w]) /\ fetched[w][i] = e /\ fetched[w][j] = d
    <3>1. PICK i \in 1..Capacity, j \in 1..Capacity :
             i < j /\ j <= Len(f) /\ f[i] = e /\ f[j] = d
      BY <2>4, Zenon
    <3>2. i \in DOMAIN f /\ j \in DOMAIN f /\ ~(j < i)
      BY <1>1, <3>1, ConstantShape
    <3> QED
      BY <1>10, <3>1, <3>2, Zenon
  <2> QED
    BY <1>12, <2>1, <2>2, <2>3, <2>4, Zenon DEF Precedes
<1> QED
  BY <1>11, <1>12

\* Messages of one key are handled by a worker one at a time and in the order
\* in which the consumer delivered them (Run, shardFor), for every number of
\* shards, every hash and every interleaving of pulls, retries and shutdowns.
THEOREM DeliveryOrderKept == Spec => []HandledInDeliveryOrder
<1>1. DeliveryInv => HandledInDeliveryOrder
  BY InDeliveryOrder, Zenon DEF HandledInDeliveryOrder
<1> QED
  BY <1>1, Invariance, PTL

\* As long as the advisory watcher's dead-letter publish has not failed and
\* fewer workers than there are have crashed or stopped, so that one has watched
\* the advisory all along, no message disappears: the ack, Term, NAK and advisory
\* paths together lose none, also where workers fail to publish a dead letter
\* or lose an Ack or a Term (process, deadLetter, WatchMaxDeliveries).  Both
\* conditions are needed: the advisory is not durable and its handler does not
\* retry.
THEOREM NothingDisappearsWhileWatched ==
    Spec => [](faults["rescue"] = 0 /\ faults["crash"] + faults["stop"] < Cardinality(Workers)
                   => NothingDisappears)
<1>1. ASSUME DeliveryInv, faults["rescue"] = 0, faults["crash"] + faults["stop"] < Cardinality(Workers)
      PROVE  NothingDisappears
  <2>1. PICK gone \in SUBSET Workers :
           Cardinality(gone) <= Departures /\ \A w \in Workers \ gone : Guards(w)
    BY <1>1, Zenon DEF DeliveryInv, GuardInv
  <2>2. PICK w \in Workers : Guards(w)
    <3>1. Cardinality(gone) \in Nat /\ Cardinality(Workers) \in Nat
      BY DeliveryAssumption, FS_Subset, FS_CardinalityType
    <3>2. Departures \in Nat
      BY <1>1 DEF DeliveryInv, TypeOK, FaultKinds, Departures
    <3>3. gone # Workers
      <4>1. Cardinality(gone) < Cardinality(Workers)
        BY <1>1, <2>1, <3>1, <3>2 DEF Departures
      <4> QED
        BY <3>1, <4>1
    <3> QED
      BY <2>1, <3>3
  <2> SUFFICES ASSUME NEW q \in Seqs, cstate[q] \in {"settled", "exhausted"},
                      \A v \in Workers : <<v, q>> \notin advisories
               PROVE  Payload(q) \in done \/ q \in recorded
    BY Zenon DEF NothingDisappears
  <2>3. CASE cstate[q] = "settled"
    BY <1>1, <2>3, Zenon DEF DeliveryInv, SettledInv
  <2>4. CASE cstate[q] = "exhausted"
    BY <2>2, <2>4, Zenon DEF Guards
  <2> QED
    BY <2>3, <2>4
<1>2. DeliveryInv => (faults["rescue"] = 0 /\ faults["crash"] + faults["stop"] < Cardinality(Workers)
                         => NothingDisappears)
  BY <1>1
<1> QED
  BY <1>2, Invariance, PTL
==============================================================================
