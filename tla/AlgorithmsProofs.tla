-------------------------- MODULE AlgorithmsProofs --------------------------
(***************************************************************************)
(* The functional parts, for every input.                                  *)
(***************************************************************************)
EXTENDS Algorithms, FiniteSetTheorems, WellFoundedInduction, SequenceTheorems, TLAPS

-----------------------------------------------------------------------------
(* A case holds an input and what the code made of it.                     *)

WindowCase ==
    /\ case.in \in WindowCases /\ ValidWindow(case.in.window)
    /\ case.active = Active(case.in.window, case.in.now, case.in.dev)
ResponseCase ==
    /\ case.in \in ResponseCases /\ ValidFile(case.in.recorded) /\ ValidFile(case.in.current)
    /\ case.policy \in Match(case.in.recorded, case.in.event, case.in.device)
    /\ case.request = Request(case.policy, case.in.event, case.in.device, case.in.scripted, case.in.globalDry)
    /\ case.out = Process(case.request, case.in.later, case.in.current, case.in.world)
ChainCase ==
    case.in \in ChainCases /\ case.out = NormalizeMessage(case.in.raw, case.in.scripts)
EnrichCase ==
    case.in \in EnrichCases /\ case.out = Enrich(case.in.o, case.in.dev, case.in.scripts)
IntegrationsCase ==
    case.in \in EventCases /\ case.out = DeliverMessage(case.in.msg, case.in.scripts, case.in.attempts)
InvokeCase ==
    case.in \in InvokeCases /\ case.out = Invoke("req", case.in.script, case.in.attempt, NewWorld)
PagesCase ==
    /\ case.in \in PageCases
    /\ case.mem = Walked(case.in.tables, case.in.filter, case.in.limit)
    /\ case.pg = PgWalked(case.in.tables, case.in.filter, case.in.limit)

CaseIsCall ==
    /\ case.part = "window" => WindowCase
    /\ case.part = "response" => ResponseCase
    /\ case.part = "chain" => ChainCase
    /\ case.part = "enrich" => EnrichCase
    /\ case.part = "integrations" => IntegrationsCase
    /\ case.part = "invoke" => InvokeCase
    /\ case.part = "pages" => PagesCase

LEMMA CallsAreCases == Spec => []CaseIsCall
<1>1. Init => CaseIsCall
  BY DEF Init, Idle, CaseIsCall
<1>2. CaseIsCall /\ [Next]_case => CaseIsCall'
  <2> SUFFICES ASSUME CaseIsCall, [Next]_case PROVE CaseIsCall'
    OBVIOUS
  <2>1. CASE TryWindow
    <3>1. PICK c \in WindowCases :
             /\ ValidWindow(c.window)
             /\ case' = [part |-> "window", in |-> c, active |-> Active(c.window, c.now, c.dev)]
      BY <2>1, Zenon DEF TryWindow
    <3>2. case'.part = "window" /\ case'.in = c /\ case'.active = Active(c.window, c.now, c.dev)
      BY <3>1
    <3> QED
      BY <3>1, <3>2 DEF CaseIsCall, WindowCase
  <2>2. CASE TryResponse
    <3>0. PICK c \in ResponseCases :
             /\ ValidFile(c.recorded) /\ ValidFile(c.current)
             /\ \E p \in Match(c.recorded, c.event, c.device) :
                    case' = [ part |-> "response", in |-> c, policy |-> p,
                              request |-> Request(p, c.event, c.device, c.scripted, c.globalDry),
                              out |-> Process(Request(p, c.event, c.device, c.scripted, c.globalDry),
                                              c.later, c.current, c.world) ]
      BY <2>2, Zenon DEF TryResponse
    <3>1. PICK p \in Match(c.recorded, c.event, c.device) :
             case' = [ part |-> "response", in |-> c, policy |-> p,
                       request |-> Request(p, c.event, c.device, c.scripted, c.globalDry),
                       out |-> Process(Request(p, c.event, c.device, c.scripted, c.globalDry),
                                       c.later, c.current, c.world) ]
      BY <3>0, Zenon
    <3> DEFINE req == Request(p, c.event, c.device, c.scripted, c.globalDry)
               out == Process(req, c.later, c.current, c.world)
    <3> HIDE DEF req, out
    <3>2. /\ case'.part = "response" /\ case'.in = c /\ case'.policy = p /\ case'.request = req
          /\ case'.out = out
      BY <3>1 DEF req, out
    <3>3. ResponseCase'
      BY <3>0, <3>2, Zenon DEF ResponseCase, req, out
    <3> QED
      BY <3>2, <3>3 DEF CaseIsCall
  <2>3. CASE TryChain
    <3>1. PICK c \in ChainCases : case' = [part |-> "chain", in |-> c, out |-> NormalizeMessage(c.raw, c.scripts)]
      BY <2>3, Zenon DEF TryChain
    <3>2. case'.part = "chain" /\ case'.in = c /\ case'.out = NormalizeMessage(c.raw, c.scripts)
      BY <3>1
    <3> QED
      BY <3>2 DEF CaseIsCall, ChainCase
  <2>4. CASE TryEnrich
    <3>1. PICK c \in EnrichCases : case' = [part |-> "enrich", in |-> c, out |-> Enrich(c.o, c.dev, c.scripts)]
      BY <2>4, Zenon DEF TryEnrich
    <3>2. case'.part = "enrich" /\ case'.in = c /\ case'.out = Enrich(c.o, c.dev, c.scripts)
      BY <3>1
    <3> QED
      BY <3>2 DEF CaseIsCall, EnrichCase
  <2>5. CASE TryIntegrations
    <3>1. PICK c \in EventCases :
             case' = [part |-> "integrations", in |-> c, out |-> DeliverMessage(c.msg, c.scripts, c.attempts)]
      BY <2>5, Zenon DEF TryIntegrations
    <3>2. case'.part = "integrations" /\ case'.in = c /\ case'.out = DeliverMessage(c.msg, c.scripts, c.attempts)
      BY <3>1
    <3> QED
      BY <3>2 DEF CaseIsCall, IntegrationsCase
  <2>6. CASE TryInvoke
    <3>1. PICK c \in InvokeCases :
             case' = [part |-> "invoke", in |-> c, out |-> Invoke("req", c.script, c.attempt, NewWorld)]
      BY <2>6, Zenon DEF TryInvoke
    <3>2. case'.part = "invoke" /\ case'.in = c /\ case'.out = Invoke("req", c.script, c.attempt, NewWorld)
      BY <3>1
    <3> QED
      BY <3>2 DEF CaseIsCall, InvokeCase
  <2>7. CASE TryPages
    <3>1. PICK c \in PageCases :
             case' = [ part |-> "pages", in |-> c, mem |-> Walked(c.tables, c.filter, c.limit),
                       pg |-> PgWalked(c.tables, c.filter, c.limit) ]
      BY <2>7, Zenon DEF TryPages
    <3>2. /\ case'.part = "pages" /\ case'.in = c /\ case'.mem = Walked(c.tables, c.filter, c.limit)
          /\ case'.pg = PgWalked(c.tables, c.filter, c.limit)
      BY <3>1
    <3> QED
      BY <3>2 DEF CaseIsCall, PagesCase
  <2>8. CASE TryPoll \/ Return
    <3>1. case'.part \in {"profiles", "poll", "none"}
      BY <2>8 DEF TryPoll, Return, Idle
    <3> QED
      BY <3>1 DEF CaseIsCall
  <2>a. CASE TryStore \/ StoreCall \/ StoreBegin \/ StoreOp \/ StoreCommit \/ StoreFail \/ StoreUndo \/ StoreUndone
    <3>1. \E c, phase, steps, mem, db, old : case' = Stores(c, phase, steps, mem, db, old)
      BY <2>a, Zenon DEF TryStore, StoreCall, StoreBegin, StoreOp, StoreCommit, StoreFail, StoreUndo, StoreUndone
    <3>2. case'.part = "store"
      BY <3>1 DEF Stores
    <3> QED
      BY <3>2 DEF CaseIsCall
  <2>9. CASE UNCHANGED case
    BY <2>9 DEF CaseIsCall, WindowCase, ResponseCase, ChainCase, EnrichCase, IntegrationsCase, InvokeCase, PagesCase
  <2> QED
    BY <2>1, <2>2, <2>3, <2>4, <2>5, <2>6, <2>7, <2>8, <2>a, <2>9, Zenon DEF Next
<1> QED
  BY <1>1, <1>2, PTL DEF Spec

-----------------------------------------------------------------------------
(* Induction over the numbers up to a bound, by the least counterexample.  *)

LEMMA LeastNatural ==
    ASSUME NEW T, T \subseteq Nat, T # {}
    PROVE  \E x \in T : \A y \in T : x <= y
<1> DEFINE R == OpToRel(<, Nat)
<1>1. \A a, b \in Nat : a < b => <<a, b>> \in R
  BY DEF OpToRel
<1>2. IsWellFoundedOn(R, Nat)
  BY NatLessThanWellFounded, Zenon
<1> HIDE DEF R
<1>3. PICK x \in T : \A y \in T : <<y, x>> \notin R
  BY <1>2, WFMin, Zenon
<1>4. \A y \in T : ~(y < x)
  BY <1>1, <1>3, Zenon
<1>5. \A y \in T : x <= y
  BY <1>4
<1> QED
  BY <1>5, Zenon

LEMMA Induction ==
    ASSUME NEW S, NEW n \in Nat, 0 \in S, \A i \in Nat : i < n /\ i \in S => i + 1 \in S
    PROVE  \A i \in 0..n : i \in S
<1> DEFINE T == { i \in 0..n : i \notin S }
<1> SUFFICES ASSUME T # {} PROVE FALSE
  BY Zenon
<1>1. T \subseteq Nat
  OBVIOUS
<1>2. PICK x \in T : \A y \in T : x <= y
  BY <1>1, LeastNatural, Zenon
<1>3. x \in Nat /\ x <= n /\ x \notin S
  BY <1>2
<1>4. x # 0 /\ x - 1 \in Nat /\ x - 1 < n /\ x - 1 \in 0..n /\ (x - 1) + 1 = x /\ ~(x <= x - 1)
  BY <1>3
<1>5. x - 1 \in S
  BY <1>2, <1>4, Zenon
<1> QED
  BY <1>3, <1>4, <1>5, Zenon

-----------------------------------------------------------------------------
(* A fold is an iteration: there is a sequence of intermediate results that *)
(* starts with the base and makes one step per element.  The provers cannot *)
(* instantiate an operator, so this is stated once for every step operator. *)

LEMMA MaxOf ==
    ASSUME NEW n \in Nat, NEW s, s \subseteq 1..n, n \in s
    PROVE  Max(s) = n
<1>1. \A y \in s : y \in Nat /\ n >= y
  OBVIOUS
<1>2. \A x \in s : (\A y \in s : x >= y) => x = n
  <2>1. \A x \in s : x >= n => x = n
    BY <1>1
  <2> QED
    BY <2>1, Zenon
<1> QED
  BY <1>1, <1>2, Zenon DEF Max

TransformFrom(b, q) == FoldLeft(TransformStep, b, q)

LEMMA TransformFold ==
    ASSUME NEW q, NEW n \in Nat, DOMAIN q = 1..n, NEW b
    PROVE  \E g : /\ g[0] = b
                  /\ \A k \in 1..n : g[k] = TransformStep(g[k - 1], q[k])
                  /\ TransformFrom(b, q) = g[n]
<1> DEFINE Eq(f, m) == f = [s \in SUBSET (1..m) |->
                  IF s = {} THEN b ELSE LET x == Max(s) IN TransformStep(f[s \ {x}], q[x])]
           S == { m \in Nat : \E f : Eq(f, m) }
<1>1. 0 \in S
  <2> DEFINE f == [s \in SUBSET (1..0) |-> b]
  <2>1. SUBSET (1..0) = {{}}
    OBVIOUS
  <2>2. Eq(f, 0)
    BY <2>1, Zenon
  <2> QED
    BY <2>2
<1>2. ASSUME NEW m \in Nat, m < n, m \in S PROVE m + 1 \in S
  <2>1. PICK f : Eq(f, m)
    BY <1>2, Zenon
  <2> DEFINE top == 1..(m + 1)
             h == [s \in SUBSET top |-> IF m + 1 \in s THEN TransformStep(f[s \ {m + 1}], q[m + 1]) ELSE f[s]]
             rhs == [s \in SUBSET top |-> IF s = {} THEN b ELSE LET x == Max(s) IN TransformStep(h[s \ {x}], q[x])]
  <2>2. ASSUME NEW s \in SUBSET top PROVE h[s] = rhs[s]
    <3>1. CASE m + 1 \in s
      <4>1. Max(s) = m + 1
        <5>1. m + 1 \in Nat /\ s \subseteq 1..(m + 1)
          OBVIOUS
        <5> QED
          BY <3>1, <5>1, MaxOf, Zenon
      <4>2. s \ {m + 1} \in SUBSET top /\ m + 1 \notin s \ {m + 1}
        BY Zenon
      <4>3. h[s \ {m + 1}] = f[s \ {m + 1}]
        BY <4>2, Zenon
      <4>4. s # {}
        BY <3>1, Zenon
      <4> QED
        BY <3>1, <4>1, <4>3, <4>4, Zenon
    <3>2. CASE m + 1 \notin s
      <4>1. s \in SUBSET (1..m)
        BY <3>2
      <4>2. h[s \ {Max(s)}] = f[s \ {Max(s)}]
        <5>1. s \ {Max(s)} \in SUBSET top /\ m + 1 \notin s \ {Max(s)}
          BY <3>2, Zenon
        <5> QED
          BY <5>1, Zenon
      <4>3. h[s] = f[s]
        BY <3>2, Zenon
      <4>4. f[s] = IF s = {} THEN b ELSE TransformStep(f[s \ {Max(s)}], q[Max(s)])
        BY <2>1, <4>1, Zenon
      <4> QED
        BY <4>2, <4>3, <4>4, Zenon
    <3> QED
      BY <3>1, <3>2, Zenon
  <2>3. Eq(h, m + 1)
    BY <2>2, Zenon
  <2>4. m + 1 \in Nat
    OBVIOUS
  <2> QED
    BY <2>3, <2>4, Zenon
<1> HIDE DEF S
<1>3. \A i \in 0..n : i \in S
  BY <1>1, <1>2, Induction, Zenon
<1>4. \E f : Eq(f, n)
  <2>1. n \in 0..n
    OBVIOUS
  <2> QED
    BY <1>3, <2>1, Zenon DEF S
<1> DEFINE it == CHOOSE f : Eq(f, n)
<1>5. Eq(it, n)
  BY <1>4, Zenon
<1>6. TransformFrom(b, q) = it[1..n]
  BY Zenon DEF TransformFrom, FoldLeft, MapThenFoldSet
<1> HIDE DEF it
<1> DEFINE g == [k \in 0..n |-> it[1..k]]
<1>7. g[0] = b
  <2>1. 1..0 = {} /\ 0 \in 0..n /\ {} \in SUBSET (1..n)
    OBVIOUS
  <2> QED
    BY <1>5, <2>1, Zenon
<1>8. ASSUME NEW k \in 1..n PROVE g[k] = TransformStep(g[k - 1], q[k])
  <2>1. 1..k \in SUBSET (1..n) /\ k \in 1..k /\ k \in 0..n /\ k - 1 \in 0..n /\ k \in Nat
    OBVIOUS
  <2>2. Max(1..k) = k /\ 1..k # {}
    BY <2>1, MaxOf
  <2>3. (1..k) \ {k} = 1..(k - 1)
    OBVIOUS
  <2> QED
    BY <1>5, <2>1, <2>2, <2>3, Zenon
<1>9. g[n] = it[1..n]
  OBVIOUS
<1> QED
  BY <1>6, <1>7, <1>8, <1>9, Zenon

EnrichFrom(b, q) == FoldLeft(EnrichStep, b, q)

LEMMA EnrichFold ==
    ASSUME NEW q, NEW n \in Nat, DOMAIN q = 1..n, NEW b
    PROVE  \E g : /\ g[0] = b
                  /\ \A k \in 1..n : g[k] = EnrichStep(g[k - 1], q[k])
                  /\ EnrichFrom(b, q) = g[n]
<1> DEFINE Eq(f, m) == f = [s \in SUBSET (1..m) |->
                  IF s = {} THEN b ELSE LET x == Max(s) IN EnrichStep(f[s \ {x}], q[x])]
           S == { m \in Nat : \E f : Eq(f, m) }
<1>1. 0 \in S
  <2> DEFINE f == [s \in SUBSET (1..0) |-> b]
  <2>1. SUBSET (1..0) = {{}}
    OBVIOUS
  <2>2. Eq(f, 0)
    BY <2>1, Zenon
  <2> QED
    BY <2>2
<1>2. ASSUME NEW m \in Nat, m < n, m \in S PROVE m + 1 \in S
  <2>1. PICK f : Eq(f, m)
    BY <1>2, Zenon
  <2> DEFINE top == 1..(m + 1)
             h == [s \in SUBSET top |-> IF m + 1 \in s THEN EnrichStep(f[s \ {m + 1}], q[m + 1]) ELSE f[s]]
             rhs == [s \in SUBSET top |-> IF s = {} THEN b ELSE LET x == Max(s) IN EnrichStep(h[s \ {x}], q[x])]
  <2>2. ASSUME NEW s \in SUBSET top PROVE h[s] = rhs[s]
    <3>1. CASE m + 1 \in s
      <4>1. Max(s) = m + 1
        <5>1. m + 1 \in Nat /\ s \subseteq 1..(m + 1)
          OBVIOUS
        <5> QED
          BY <3>1, <5>1, MaxOf, Zenon
      <4>2. s \ {m + 1} \in SUBSET top /\ m + 1 \notin s \ {m + 1}
        BY Zenon
      <4>3. h[s \ {m + 1}] = f[s \ {m + 1}]
        BY <4>2, Zenon
      <4>4. s # {}
        BY <3>1, Zenon
      <4> QED
        BY <3>1, <4>1, <4>3, <4>4, Zenon
    <3>2. CASE m + 1 \notin s
      <4>1. s \in SUBSET (1..m)
        BY <3>2
      <4>2. h[s \ {Max(s)}] = f[s \ {Max(s)}]
        <5>1. s \ {Max(s)} \in SUBSET top /\ m + 1 \notin s \ {Max(s)}
          BY <3>2, Zenon
        <5> QED
          BY <5>1, Zenon
      <4>3. h[s] = f[s]
        BY <3>2, Zenon
      <4>4. f[s] = IF s = {} THEN b ELSE EnrichStep(f[s \ {Max(s)}], q[Max(s)])
        BY <2>1, <4>1, Zenon
      <4> QED
        BY <4>2, <4>3, <4>4, Zenon
    <3> QED
      BY <3>1, <3>2, Zenon
  <2>3. Eq(h, m + 1)
    BY <2>2, Zenon
  <2>4. m + 1 \in Nat
    OBVIOUS
  <2> QED
    BY <2>3, <2>4, Zenon
<1> HIDE DEF S
<1>3. \A i \in 0..n : i \in S
  BY <1>1, <1>2, Induction, Zenon
<1>4. \E f : Eq(f, n)
  <2>1. n \in 0..n
    OBVIOUS
  <2> QED
    BY <1>3, <2>1, Zenon DEF S
<1> DEFINE it == CHOOSE f : Eq(f, n)
<1>5. Eq(it, n)
  BY <1>4, Zenon
<1>6. EnrichFrom(b, q) = it[1..n]
  BY Zenon DEF EnrichFrom, FoldLeft, MapThenFoldSet
<1> HIDE DEF it
<1> DEFINE g == [k \in 0..n |-> it[1..k]]
<1>7. g[0] = b
  <2>1. 1..0 = {} /\ 0 \in 0..n /\ {} \in SUBSET (1..n)
    OBVIOUS
  <2> QED
    BY <1>5, <2>1, Zenon
<1>8. ASSUME NEW k \in 1..n PROVE g[k] = EnrichStep(g[k - 1], q[k])
  <2>1. 1..k \in SUBSET (1..n) /\ k \in 1..k /\ k \in 0..n /\ k - 1 \in 0..n /\ k \in Nat
    OBVIOUS
  <2>2. Max(1..k) = k /\ 1..k # {}
    BY <2>1, MaxOf
  <2>3. (1..k) \ {k} = 1..(k - 1)
    OBVIOUS
  <2> QED
    BY <1>5, <2>1, <2>2, <2>3, Zenon
<1>9. g[n] = it[1..n]
  OBVIOUS
<1> QED
  BY <1>6, <1>7, <1>8, <1>9, Zenon

CallsFrom(b, q, up) == FoldLeft(LAMBDA c, call : HostCall(c, call, up), b, q)

Calls(b, q, n, up) ==
    \E g : /\ g[0] = b
           /\ \A k \in 1..n : g[k] = HostCall(g[k - 1], q[k], up)
           /\ CallsFrom(b, q, up) = g[n]

LEMMA CallsFold ==
    ASSUME NEW q, NEW n \in Nat, DOMAIN q = 1..n, NEW b, NEW up
    PROVE  Calls(b, q, n, up)
<1> DEFINE Eq(f, m) == f = [s \in SUBSET (1..m) |->
                  IF s = {} THEN b ELSE LET x == Max(s) IN HostCall(f[s \ {x}], q[x], up)]
           S == { m \in Nat : \E f : Eq(f, m) }
<1>1. 0 \in S
  <2> DEFINE f == [s \in SUBSET (1..0) |-> b]
  <2>1. SUBSET (1..0) = {{}}
    OBVIOUS
  <2>2. Eq(f, 0)
    BY <2>1, Zenon
  <2> QED
    BY <2>2
<1>2. ASSUME NEW m \in Nat, m < n, m \in S PROVE m + 1 \in S
  <2>1. PICK f : Eq(f, m)
    BY <1>2, Zenon
  <2> DEFINE top == 1..(m + 1)
             h == [s \in SUBSET top |-> IF m + 1 \in s THEN HostCall(f[s \ {m + 1}], q[m + 1], up) ELSE f[s]]
             rhs == [s \in SUBSET top |-> IF s = {} THEN b ELSE LET x == Max(s) IN HostCall(h[s \ {x}], q[x], up)]
  <2>2. ASSUME NEW s \in SUBSET top PROVE h[s] = rhs[s]
    <3>1. CASE m + 1 \in s
      <4>1. Max(s) = m + 1
        <5>1. m + 1 \in Nat /\ s \subseteq 1..(m + 1)
          OBVIOUS
        <5> QED
          BY <3>1, <5>1, MaxOf, Zenon
      <4>2. s \ {m + 1} \in SUBSET top /\ m + 1 \notin s \ {m + 1}
        BY Zenon
      <4>3. h[s \ {m + 1}] = f[s \ {m + 1}]
        BY <4>2, Zenon
      <4>4. s # {}
        BY <3>1, Zenon
      <4> QED
        BY <3>1, <4>1, <4>3, <4>4, Zenon
    <3>2. CASE m + 1 \notin s
      <4>1. s \in SUBSET (1..m)
        BY <3>2
      <4>2. h[s \ {Max(s)}] = f[s \ {Max(s)}]
        <5>1. s \ {Max(s)} \in SUBSET top /\ m + 1 \notin s \ {Max(s)}
          BY <3>2, Zenon
        <5> QED
          BY <5>1, Zenon
      <4>3. h[s] = f[s]
        BY <3>2, Zenon
      <4>4. f[s] = IF s = {} THEN b ELSE HostCall(f[s \ {Max(s)}], q[Max(s)], up)
        BY <2>1, <4>1, Zenon
      <4> QED
        BY <4>2, <4>3, <4>4, Zenon
    <3> QED
      BY <3>1, <3>2, Zenon
  <2>3. Eq(h, m + 1)
    BY <2>2, Zenon
  <2>4. m + 1 \in Nat
    OBVIOUS
  <2> QED
    BY <2>3, <2>4, Zenon
<1> HIDE DEF S
<1>3. \A i \in 0..n : i \in S
  BY <1>1, <1>2, Induction, Zenon
<1>4. \E f : Eq(f, n)
  <2>1. n \in 0..n
    OBVIOUS
  <2> QED
    BY <1>3, <2>1, Zenon DEF S
<1> DEFINE it == CHOOSE f : Eq(f, n)
<1>5. Eq(it, n)
  BY <1>4, Zenon
<1>6. CallsFrom(b, q, up) = it[1..n]
  BY Zenon DEF CallsFrom, FoldLeft, MapThenFoldSet
<1> HIDE DEF it
<1> DEFINE g == [k \in 0..n |-> it[1..k]]
<1>7. g[0] = b
  <2>1. 1..0 = {} /\ 0 \in 0..n /\ {} \in SUBSET (1..n)
    OBVIOUS
  <2> QED
    BY <1>5, <2>1, Zenon
<1>8. ASSUME NEW k \in 1..n PROVE g[k] = HostCall(g[k - 1], q[k], up)
  <2>1. 1..k \in SUBSET (1..n) /\ k \in 1..k /\ k \in 0..n /\ k - 1 \in 0..n /\ k \in Nat
    OBVIOUS
  <2>2. Max(1..k) = k /\ 1..k # {}
    BY <2>1, MaxOf
  <2>3. (1..k) \ {k} = 1..(k - 1)
    OBVIOUS
  <2> QED
    BY <1>5, <2>1, <2>2, <2>3, Zenon
<1>9. g[n] = it[1..n]
  OBVIOUS
<1> QED
  BY <1>6, <1>7, <1>8, <1>9, Zenon DEF Calls

VisitsFrom(b, q, ev, scripts, a) == FoldLeft(LAMBDA acc, i : VisitScript(acc, i, ev, scripts, a), b, q)

Visits(b, q, n, ev, scripts, a) ==
    \E g : /\ g[0] = b
           /\ \A k \in 1..n : g[k] = VisitScript(g[k - 1], q[k], ev, scripts, a)
           /\ VisitsFrom(b, q, ev, scripts, a) = g[n]

LEMMA VisitsFold ==
    ASSUME NEW q, NEW n \in Nat, DOMAIN q = 1..n, NEW b, NEW ev, NEW scripts, NEW a
    PROVE  Visits(b, q, n, ev, scripts, a)
<1> DEFINE Eq(f, m) == f = [s \in SUBSET (1..m) |->
                  IF s = {} THEN b ELSE LET x == Max(s) IN VisitScript(f[s \ {x}], q[x], ev, scripts, a)]
           S == { m \in Nat : \E f : Eq(f, m) }
<1>1. 0 \in S
  <2> DEFINE f == [s \in SUBSET (1..0) |-> b]
  <2>1. SUBSET (1..0) = {{}}
    OBVIOUS
  <2>2. Eq(f, 0)
    BY <2>1, Zenon
  <2> QED
    BY <2>2
<1>2. ASSUME NEW m \in Nat, m < n, m \in S PROVE m + 1 \in S
  <2>1. PICK f : Eq(f, m)
    BY <1>2, Zenon
  <2> DEFINE top == 1..(m + 1)
             h == [s \in SUBSET top |-> IF m + 1 \in s THEN VisitScript(f[s \ {m + 1}], q[m + 1], ev, scripts, a) ELSE f[s]]
             rhs == [s \in SUBSET top |-> IF s = {} THEN b ELSE LET x == Max(s) IN VisitScript(h[s \ {x}], q[x], ev, scripts, a)]
  <2>2. ASSUME NEW s \in SUBSET top PROVE h[s] = rhs[s]
    <3>1. CASE m + 1 \in s
      <4>1. Max(s) = m + 1
        <5>1. m + 1 \in Nat /\ s \subseteq 1..(m + 1)
          OBVIOUS
        <5> QED
          BY <3>1, <5>1, MaxOf, Zenon
      <4>2. s \ {m + 1} \in SUBSET top /\ m + 1 \notin s \ {m + 1}
        BY Zenon
      <4>3. h[s \ {m + 1}] = f[s \ {m + 1}]
        BY <4>2, Zenon
      <4>4. s # {}
        BY <3>1, Zenon
      <4> QED
        BY <3>1, <4>1, <4>3, <4>4, Zenon
    <3>2. CASE m + 1 \notin s
      <4>1. s \in SUBSET (1..m)
        BY <3>2
      <4>2. h[s \ {Max(s)}] = f[s \ {Max(s)}]
        <5>1. s \ {Max(s)} \in SUBSET top /\ m + 1 \notin s \ {Max(s)}
          BY <3>2, Zenon
        <5> QED
          BY <5>1, Zenon
      <4>3. h[s] = f[s]
        BY <3>2, Zenon
      <4>4. f[s] = IF s = {} THEN b ELSE VisitScript(f[s \ {Max(s)}], q[Max(s)], ev, scripts, a)
        BY <2>1, <4>1, Zenon
      <4> QED
        BY <4>2, <4>3, <4>4, Zenon
    <3> QED
      BY <3>1, <3>2, Zenon
  <2>3. Eq(h, m + 1)
    BY <2>2, Zenon
  <2>4. m + 1 \in Nat
    OBVIOUS
  <2> QED
    BY <2>3, <2>4, Zenon
<1> HIDE DEF S
<1>3. \A i \in 0..n : i \in S
  BY <1>1, <1>2, Induction, Zenon
<1>4. \E f : Eq(f, n)
  <2>1. n \in 0..n
    OBVIOUS
  <2> QED
    BY <1>3, <2>1, Zenon DEF S
<1> DEFINE it == CHOOSE f : Eq(f, n)
<1>5. Eq(it, n)
  BY <1>4, Zenon
<1>6. VisitsFrom(b, q, ev, scripts, a) = it[1..n]
  BY Zenon DEF VisitsFrom, FoldLeft, MapThenFoldSet
<1> HIDE DEF it
<1> DEFINE g == [k \in 0..n |-> it[1..k]]
<1>7. g[0] = b
  <2>1. 1..0 = {} /\ 0 \in 0..n /\ {} \in SUBSET (1..n)
    OBVIOUS
  <2> QED
    BY <1>5, <2>1, Zenon
<1>8. ASSUME NEW k \in 1..n PROVE g[k] = VisitScript(g[k - 1], q[k], ev, scripts, a)
  <2>1. 1..k \in SUBSET (1..n) /\ k \in 1..k /\ k \in 0..n /\ k - 1 \in 0..n /\ k \in Nat
    OBVIOUS
  <2>2. Max(1..k) = k /\ 1..k # {}
    BY <2>1, MaxOf
  <2>3. (1..k) \ {k} = 1..(k - 1)
    OBVIOUS
  <2> QED
    BY <1>5, <2>1, <2>2, <2>3, Zenon
<1>9. g[n] = it[1..n]
  OBVIOUS
<1> QED
  BY <1>6, <1>7, <1>8, <1>9, Zenon DEF Visits

PersistFrom(b, q) == FoldLeft(PersistEvent, b, q)

Persists(b, q, n) ==
    \E g : /\ g[0] = b
           /\ \A k \in 1..n : g[k] = PersistEvent(g[k - 1], q[k])
           /\ PersistFrom(b, q) = g[n]

LEMMA PersistFold ==
    ASSUME NEW q, NEW n \in Nat, DOMAIN q = 1..n, NEW b
    PROVE  Persists(b, q, n)
<1> DEFINE Eq(f, m) == f = [s \in SUBSET (1..m) |->
                  IF s = {} THEN b ELSE LET x == Max(s) IN PersistEvent(f[s \ {x}], q[x])]
           S == { m \in Nat : \E f : Eq(f, m) }
<1>1. 0 \in S
  <2> DEFINE f == [s \in SUBSET (1..0) |-> b]
  <2>1. SUBSET (1..0) = {{}}
    OBVIOUS
  <2>2. Eq(f, 0)
    BY <2>1, Zenon
  <2> QED
    BY <2>2
<1>2. ASSUME NEW m \in Nat, m < n, m \in S PROVE m + 1 \in S
  <2>1. PICK f : Eq(f, m)
    BY <1>2, Zenon
  <2> DEFINE top == 1..(m + 1)
             h == [s \in SUBSET top |-> IF m + 1 \in s THEN PersistEvent(f[s \ {m + 1}], q[m + 1]) ELSE f[s]]
             rhs == [s \in SUBSET top |-> IF s = {} THEN b ELSE LET x == Max(s) IN PersistEvent(h[s \ {x}], q[x])]
  <2>2. ASSUME NEW s \in SUBSET top PROVE h[s] = rhs[s]
    <3>1. CASE m + 1 \in s
      <4>1. Max(s) = m + 1
        <5>1. m + 1 \in Nat /\ s \subseteq 1..(m + 1)
          OBVIOUS
        <5> QED
          BY <3>1, <5>1, MaxOf, Zenon
      <4>2. s \ {m + 1} \in SUBSET top /\ m + 1 \notin s \ {m + 1}
        BY Zenon
      <4>3. h[s \ {m + 1}] = f[s \ {m + 1}]
        BY <4>2, Zenon
      <4>4. s # {}
        BY <3>1, Zenon
      <4> QED
        BY <3>1, <4>1, <4>3, <4>4, Zenon
    <3>2. CASE m + 1 \notin s
      <4>1. s \in SUBSET (1..m)
        BY <3>2
      <4>2. h[s \ {Max(s)}] = f[s \ {Max(s)}]
        <5>1. s \ {Max(s)} \in SUBSET top /\ m + 1 \notin s \ {Max(s)}
          BY <3>2, Zenon
        <5> QED
          BY <5>1, Zenon
      <4>3. h[s] = f[s]
        BY <3>2, Zenon
      <4>4. f[s] = IF s = {} THEN b ELSE PersistEvent(f[s \ {Max(s)}], q[Max(s)])
        BY <2>1, <4>1, Zenon
      <4> QED
        BY <4>2, <4>3, <4>4, Zenon
    <3> QED
      BY <3>1, <3>2, Zenon
  <2>3. Eq(h, m + 1)
    BY <2>2, Zenon
  <2>4. m + 1 \in Nat
    OBVIOUS
  <2> QED
    BY <2>3, <2>4, Zenon
<1> HIDE DEF S
<1>3. \A i \in 0..n : i \in S
  BY <1>1, <1>2, Induction, Zenon
<1>4. \E f : Eq(f, n)
  <2>1. n \in 0..n
    OBVIOUS
  <2> QED
    BY <1>3, <2>1, Zenon DEF S
<1> DEFINE it == CHOOSE f : Eq(f, n)
<1>5. Eq(it, n)
  BY <1>4, Zenon
<1>6. PersistFrom(b, q) = it[1..n]
  BY Zenon DEF PersistFrom, FoldLeft, MapThenFoldSet
<1> HIDE DEF it
<1> DEFINE g == [k \in 0..n |-> it[1..k]]
<1>7. g[0] = b
  <2>1. 1..0 = {} /\ 0 \in 0..n /\ {} \in SUBSET (1..n)
    OBVIOUS
  <2> QED
    BY <1>5, <2>1, Zenon
<1>8. ASSUME NEW k \in 1..n PROVE g[k] = PersistEvent(g[k - 1], q[k])
  <2>1. 1..k \in SUBSET (1..n) /\ k \in 1..k /\ k \in 0..n /\ k - 1 \in 0..n /\ k \in Nat
    OBVIOUS
  <2>2. Max(1..k) = k /\ 1..k # {}
    BY <2>1, MaxOf
  <2>3. (1..k) \ {k} = 1..(k - 1)
    OBVIOUS
  <2> QED
    BY <1>5, <2>1, <2>2, <2>3, Zenon
<1>9. g[n] = it[1..n]
  OBVIOUS
<1> QED
  BY <1>6, <1>7, <1>8, <1>9, Zenon DEF Persists

DeliveriesFrom(b, q, msg, scripts) == FoldLeft(LAMBDA acc, a : DeliverOnce(acc, a, msg, scripts), b, q)

Delivers(b, q, n, msg, scripts) ==
    \E g : /\ g[0] = b
           /\ \A k \in 1..n : g[k] = DeliverOnce(g[k - 1], q[k], msg, scripts)
           /\ DeliveriesFrom(b, q, msg, scripts) = g[n]

LEMMA DeliveriesFold ==
    ASSUME NEW q, NEW n \in Nat, DOMAIN q = 1..n, NEW b, NEW msg, NEW scripts
    PROVE  Delivers(b, q, n, msg, scripts)
<1> DEFINE Eq(f, m) == f = [s \in SUBSET (1..m) |->
                  IF s = {} THEN b ELSE LET x == Max(s) IN DeliverOnce(f[s \ {x}], q[x], msg, scripts)]
           S == { m \in Nat : \E f : Eq(f, m) }
<1>1. 0 \in S
  <2> DEFINE f == [s \in SUBSET (1..0) |-> b]
  <2>1. SUBSET (1..0) = {{}}
    OBVIOUS
  <2>2. Eq(f, 0)
    BY <2>1, Zenon
  <2> QED
    BY <2>2
<1>2. ASSUME NEW m \in Nat, m < n, m \in S PROVE m + 1 \in S
  <2>1. PICK f : Eq(f, m)
    BY <1>2, Zenon
  <2> DEFINE top == 1..(m + 1)
             h == [s \in SUBSET top |-> IF m + 1 \in s THEN DeliverOnce(f[s \ {m + 1}], q[m + 1], msg, scripts) ELSE f[s]]
             rhs == [s \in SUBSET top |-> IF s = {} THEN b ELSE LET x == Max(s) IN DeliverOnce(h[s \ {x}], q[x], msg, scripts)]
  <2>2. ASSUME NEW s \in SUBSET top PROVE h[s] = rhs[s]
    <3>1. CASE m + 1 \in s
      <4>1. Max(s) = m + 1
        <5>1. m + 1 \in Nat /\ s \subseteq 1..(m + 1)
          OBVIOUS
        <5> QED
          BY <3>1, <5>1, MaxOf, Zenon
      <4>2. s \ {m + 1} \in SUBSET top /\ m + 1 \notin s \ {m + 1}
        BY Zenon
      <4>3. h[s \ {m + 1}] = f[s \ {m + 1}]
        BY <4>2, Zenon
      <4>4. s # {}
        BY <3>1, Zenon
      <4> QED
        BY <3>1, <4>1, <4>3, <4>4, Zenon
    <3>2. CASE m + 1 \notin s
      <4>1. s \in SUBSET (1..m)
        BY <3>2
      <4>2. h[s \ {Max(s)}] = f[s \ {Max(s)}]
        <5>1. s \ {Max(s)} \in SUBSET top /\ m + 1 \notin s \ {Max(s)}
          BY <3>2, Zenon
        <5> QED
          BY <5>1, Zenon
      <4>3. h[s] = f[s]
        BY <3>2, Zenon
      <4>4. f[s] = IF s = {} THEN b ELSE DeliverOnce(f[s \ {Max(s)}], q[Max(s)], msg, scripts)
        BY <2>1, <4>1, Zenon
      <4> QED
        BY <4>2, <4>3, <4>4, Zenon
    <3> QED
      BY <3>1, <3>2, Zenon
  <2>3. Eq(h, m + 1)
    BY <2>2, Zenon
  <2>4. m + 1 \in Nat
    OBVIOUS
  <2> QED
    BY <2>3, <2>4, Zenon
<1> HIDE DEF S
<1>3. \A i \in 0..n : i \in S
  BY <1>1, <1>2, Induction, Zenon
<1>4. \E f : Eq(f, n)
  <2>1. n \in 0..n
    OBVIOUS
  <2> QED
    BY <1>3, <2>1, Zenon DEF S
<1> DEFINE it == CHOOSE f : Eq(f, n)
<1>5. Eq(it, n)
  BY <1>4, Zenon
<1>6. DeliveriesFrom(b, q, msg, scripts) = it[1..n]
  BY Zenon DEF DeliveriesFrom, FoldLeft, MapThenFoldSet
<1> HIDE DEF it
<1> DEFINE g == [k \in 0..n |-> it[1..k]]
<1>7. g[0] = b
  <2>1. 1..0 = {} /\ 0 \in 0..n /\ {} \in SUBSET (1..n)
    OBVIOUS
  <2> QED
    BY <1>5, <2>1, Zenon
<1>8. ASSUME NEW k \in 1..n PROVE g[k] = DeliverOnce(g[k - 1], q[k], msg, scripts)
  <2>1. 1..k \in SUBSET (1..n) /\ k \in 1..k /\ k \in 0..n /\ k - 1 \in 0..n /\ k \in Nat
    OBVIOUS
  <2>2. Max(1..k) = k /\ 1..k # {}
    BY <2>1, MaxOf
  <2>3. (1..k) \ {k} = 1..(k - 1)
    OBVIOUS
  <2> QED
    BY <1>5, <2>1, <2>2, <2>3, Zenon
<1>9. g[n] = it[1..n]
  OBVIOUS
<1> QED
  BY <1>6, <1>7, <1>8, <1>9, Zenon DEF Delivers

MemTurnFrom(b, q, flt, lim) == FoldLeft(LAMBDA w, table : MemTurn(w, table, flt, lim), b, q)

MemTurns(b, q, n, flt, lim) ==
    \E g : /\ g[0] = b
           /\ \A k \in 1..n : g[k] = MemTurn(g[k - 1], q[k], flt, lim)
           /\ MemTurnFrom(b, q, flt, lim) = g[n]

LEMMA MemTurnFold ==
    ASSUME NEW q, NEW n \in Nat, DOMAIN q = 1..n, NEW b, NEW flt, NEW lim
    PROVE  MemTurns(b, q, n, flt, lim)
<1> DEFINE Eq(f, m) == f = [s \in SUBSET (1..m) |->
                  IF s = {} THEN b ELSE LET x == Max(s) IN MemTurn(f[s \ {x}], q[x], flt, lim)]
           S == { m \in Nat : \E f : Eq(f, m) }
<1>1. 0 \in S
  <2> DEFINE f == [s \in SUBSET (1..0) |-> b]
  <2>1. SUBSET (1..0) = {{}}
    OBVIOUS
  <2>2. Eq(f, 0)
    BY <2>1, Zenon
  <2> QED
    BY <2>2
<1>2. ASSUME NEW m \in Nat, m < n, m \in S PROVE m + 1 \in S
  <2>1. PICK f : Eq(f, m)
    BY <1>2, Zenon
  <2> DEFINE top == 1..(m + 1)
             h == [s \in SUBSET top |-> IF m + 1 \in s THEN MemTurn(f[s \ {m + 1}], q[m + 1], flt, lim) ELSE f[s]]
             rhs == [s \in SUBSET top |-> IF s = {} THEN b ELSE LET x == Max(s) IN MemTurn(h[s \ {x}], q[x], flt, lim)]
  <2>2. ASSUME NEW s \in SUBSET top PROVE h[s] = rhs[s]
    <3>1. CASE m + 1 \in s
      <4>1. Max(s) = m + 1
        <5>1. m + 1 \in Nat /\ s \subseteq 1..(m + 1)
          OBVIOUS
        <5> QED
          BY <3>1, <5>1, MaxOf, Zenon
      <4>2. s \ {m + 1} \in SUBSET top /\ m + 1 \notin s \ {m + 1}
        BY Zenon
      <4>3. h[s \ {m + 1}] = f[s \ {m + 1}]
        BY <4>2, Zenon
      <4>4. s # {}
        BY <3>1, Zenon
      <4> QED
        BY <3>1, <4>1, <4>3, <4>4, Zenon
    <3>2. CASE m + 1 \notin s
      <4>1. s \in SUBSET (1..m)
        BY <3>2
      <4>2. h[s \ {Max(s)}] = f[s \ {Max(s)}]
        <5>1. s \ {Max(s)} \in SUBSET top /\ m + 1 \notin s \ {Max(s)}
          BY <3>2, Zenon
        <5> QED
          BY <5>1, Zenon
      <4>3. h[s] = f[s]
        BY <3>2, Zenon
      <4>4. f[s] = IF s = {} THEN b ELSE MemTurn(f[s \ {Max(s)}], q[Max(s)], flt, lim)
        BY <2>1, <4>1, Zenon
      <4> QED
        BY <4>2, <4>3, <4>4, Zenon
    <3> QED
      BY <3>1, <3>2, Zenon
  <2>3. Eq(h, m + 1)
    BY <2>2, Zenon
  <2>4. m + 1 \in Nat
    OBVIOUS
  <2> QED
    BY <2>3, <2>4, Zenon
<1> HIDE DEF S
<1>3. \A i \in 0..n : i \in S
  BY <1>1, <1>2, Induction, Zenon
<1>4. \E f : Eq(f, n)
  <2>1. n \in 0..n
    OBVIOUS
  <2> QED
    BY <1>3, <2>1, Zenon DEF S
<1> DEFINE it == CHOOSE f : Eq(f, n)
<1>5. Eq(it, n)
  BY <1>4, Zenon
<1>6. MemTurnFrom(b, q, flt, lim) = it[1..n]
  BY Zenon DEF MemTurnFrom, FoldLeft, MapThenFoldSet
<1> HIDE DEF it
<1> DEFINE g == [k \in 0..n |-> it[1..k]]
<1>7. g[0] = b
  <2>1. 1..0 = {} /\ 0 \in 0..n /\ {} \in SUBSET (1..n)
    OBVIOUS
  <2> QED
    BY <1>5, <2>1, Zenon
<1>8. ASSUME NEW k \in 1..n PROVE g[k] = MemTurn(g[k - 1], q[k], flt, lim)
  <2>1. 1..k \in SUBSET (1..n) /\ k \in 1..k /\ k \in 0..n /\ k - 1 \in 0..n /\ k \in Nat
    OBVIOUS
  <2>2. Max(1..k) = k /\ 1..k # {}
    BY <2>1, MaxOf
  <2>3. (1..k) \ {k} = 1..(k - 1)
    OBVIOUS
  <2> QED
    BY <1>5, <2>1, <2>2, <2>3, Zenon
<1>9. g[n] = it[1..n]
  OBVIOUS
<1> QED
  BY <1>6, <1>7, <1>8, <1>9, Zenon DEF MemTurns

PgTurnFrom(b, q, flt, lim) == FoldLeft(LAMBDA w, table : PgTurn(w, table, flt, lim), b, q)

PgTurns(b, q, n, flt, lim) ==
    \E g : /\ g[0] = b
           /\ \A k \in 1..n : g[k] = PgTurn(g[k - 1], q[k], flt, lim)
           /\ PgTurnFrom(b, q, flt, lim) = g[n]

LEMMA PgTurnFold ==
    ASSUME NEW q, NEW n \in Nat, DOMAIN q = 1..n, NEW b, NEW flt, NEW lim
    PROVE  PgTurns(b, q, n, flt, lim)
<1> DEFINE Eq(f, m) == f = [s \in SUBSET (1..m) |->
                  IF s = {} THEN b ELSE LET x == Max(s) IN PgTurn(f[s \ {x}], q[x], flt, lim)]
           S == { m \in Nat : \E f : Eq(f, m) }
<1>1. 0 \in S
  <2> DEFINE f == [s \in SUBSET (1..0) |-> b]
  <2>1. SUBSET (1..0) = {{}}
    OBVIOUS
  <2>2. Eq(f, 0)
    BY <2>1, Zenon
  <2> QED
    BY <2>2
<1>2. ASSUME NEW m \in Nat, m < n, m \in S PROVE m + 1 \in S
  <2>1. PICK f : Eq(f, m)
    BY <1>2, Zenon
  <2> DEFINE top == 1..(m + 1)
             h == [s \in SUBSET top |-> IF m + 1 \in s THEN PgTurn(f[s \ {m + 1}], q[m + 1], flt, lim) ELSE f[s]]
             rhs == [s \in SUBSET top |-> IF s = {} THEN b ELSE LET x == Max(s) IN PgTurn(h[s \ {x}], q[x], flt, lim)]
  <2>2. ASSUME NEW s \in SUBSET top PROVE h[s] = rhs[s]
    <3>1. CASE m + 1 \in s
      <4>1. Max(s) = m + 1
        <5>1. m + 1 \in Nat /\ s \subseteq 1..(m + 1)
          OBVIOUS
        <5> QED
          BY <3>1, <5>1, MaxOf, Zenon
      <4>2. s \ {m + 1} \in SUBSET top /\ m + 1 \notin s \ {m + 1}
        BY Zenon
      <4>3. h[s \ {m + 1}] = f[s \ {m + 1}]
        BY <4>2, Zenon
      <4>4. s # {}
        BY <3>1, Zenon
      <4> QED
        BY <3>1, <4>1, <4>3, <4>4, Zenon
    <3>2. CASE m + 1 \notin s
      <4>1. s \in SUBSET (1..m)
        BY <3>2
      <4>2. h[s \ {Max(s)}] = f[s \ {Max(s)}]
        <5>1. s \ {Max(s)} \in SUBSET top /\ m + 1 \notin s \ {Max(s)}
          BY <3>2, Zenon
        <5> QED
          BY <5>1, Zenon
      <4>3. h[s] = f[s]
        BY <3>2, Zenon
      <4>4. f[s] = IF s = {} THEN b ELSE PgTurn(f[s \ {Max(s)}], q[Max(s)], flt, lim)
        BY <2>1, <4>1, Zenon
      <4> QED
        BY <4>2, <4>3, <4>4, Zenon
    <3> QED
      BY <3>1, <3>2, Zenon
  <2>3. Eq(h, m + 1)
    BY <2>2, Zenon
  <2>4. m + 1 \in Nat
    OBVIOUS
  <2> QED
    BY <2>3, <2>4, Zenon
<1> HIDE DEF S
<1>3. \A i \in 0..n : i \in S
  BY <1>1, <1>2, Induction, Zenon
<1>4. \E f : Eq(f, n)
  <2>1. n \in 0..n
    OBVIOUS
  <2> QED
    BY <1>3, <2>1, Zenon DEF S
<1> DEFINE it == CHOOSE f : Eq(f, n)
<1>5. Eq(it, n)
  BY <1>4, Zenon
<1>6. PgTurnFrom(b, q, flt, lim) = it[1..n]
  BY Zenon DEF PgTurnFrom, FoldLeft, MapThenFoldSet
<1> HIDE DEF it
<1> DEFINE g == [k \in 0..n |-> it[1..k]]
<1>7. g[0] = b
  <2>1. 1..0 = {} /\ 0 \in 0..n /\ {} \in SUBSET (1..n)
    OBVIOUS
  <2> QED
    BY <1>5, <2>1, Zenon
<1>8. ASSUME NEW k \in 1..n PROVE g[k] = PgTurn(g[k - 1], q[k], flt, lim)
  <2>1. 1..k \in SUBSET (1..n) /\ k \in 1..k /\ k \in 0..n /\ k - 1 \in 0..n /\ k \in Nat
    OBVIOUS
  <2>2. Max(1..k) = k /\ 1..k # {}
    BY <2>1, MaxOf
  <2>3. (1..k) \ {k} = 1..(k - 1)
    OBVIOUS
  <2> QED
    BY <1>5, <2>1, <2>2, <2>3, Zenon
<1>9. g[n] = it[1..n]
  OBVIOUS
<1> QED
  BY <1>6, <1>7, <1>8, <1>9, Zenon DEF PgTurns

-----------------------------------------------------------------------------
(* Maintenance windows.                                                    *)

LEMMA DayOfTime ==
    ASSUME NEW t \in Int
    PROVE  /\ t \div Day \in Int /\ t % Day \in 0..(Day - 1)
           /\ t = (t \div Day) * Day + (t % Day)
<1>1. Day \in Nat \ {0}
  BY PolicyAssumption
<1>2. t \div Day \in Int
  BY <1>1
<1>3. t % Day \in 0..(Day - 1)
  BY <1>1
<1>4. t = (t \div Day) * Day + (t % Day)
  BY <1>1
<1> QED
  BY <1>2, <1>3, <1>4

LEMMA Rest ==
    ASSUME NEW s \in 0..(Day - 1), NEW e \in 0..(Day - 1)
    PROVE  (e - s) % Day = IF s <= e THEN e - s ELSE e - s + Day
<1>1. Day \in Nat \ {0}
  BY PolicyAssumption
<1> QED
  BY <1>1

LEMMA RecurringIsOccurrence ==
    ASSUME NEW r, NEW now \in Int, r.zone[now] \in Int, r.start \in 0..(Day - 1), r.end \in 0..(Day - 1)
    PROVE  Recurring(r, now) <=> InOccurrence(r, now)
<1> DEFINE local == now + r.zone[now]
           q == local \div Day
           c == local % Day
           s == r.start
           e == r.end
           L == (e - s) % Day
           P == q * Day
<1>0. Day \in Nat \ {0}
  BY PolicyAssumption
<1>1. Day \in Nat \ {0} /\ local \in Int
  BY <1>0
<1>2. q \in Int /\ c \in 0..(Day - 1) /\ local = P + c
  BY <1>1, DayOfTime
<1>3. L = IF s <= e THEN e - s ELSE e - s + Day
  BY Rest
<1>4. (q - 1) * Day = P - Day /\ P \in Int
  BY <1>1, <1>2
<1>5. ((q % 7) + 6) % 7 = (q - 1) % 7
  BY <1>2
<1>6. InOccurrence(r, now) <=>
         \/ (r.days = {} \/ q % 7 \in r.days) /\ P + s <= local /\ local < P + s + L
         \/ (r.days = {} \/ (q - 1) % 7 \in r.days) /\ (q - 1) * Day + s <= local /\ local < (q - 1) * Day + s + L
  <2> HIDE DEF q, L
  <2>1. \A n : n \in (q - 1)..q <=> n = q - 1 \/ n = q
    BY <1>2
  <2> QED
    BY <2>1, Zenon DEF InOccurrence, WallClock, q, L
<1>7. Recurring(r, now) <=> IF s <= e THEN (r.days = {} \/ q % 7 \in r.days) /\ s <= c /\ c < e
                            ELSE \/ c >= s /\ (r.days = {} \/ q % 7 \in r.days)
                                 \/ c < e /\ (r.days = {} \/ ((q % 7) + 6) % 7 \in r.days)
  BY Zenon DEF Recurring, WallClock, OnDay
<1> HIDE DEF q, c, L, P, local
<1>8. /\ (P + s <= local /\ local < P + s + L) <=> IF s <= e THEN s <= c /\ c < e ELSE c >= s
      /\ (P - Day + s <= local /\ local < P - Day + s + L) <=> (~(s <= e) /\ c < e)
  BY <1>1, <1>2, <1>3, <1>4
<1> QED
  BY <1>4, <1>5, <1>6, <1>7, <1>8, Zenon

LEMMA ActiveIsUnderMaintenance ==
    ASSUME NEW w, NEW now \in Int, NEW dev, ValidWindow(w), IsTimed(w, now)
    PROVE  Active(w, now, dev) <=> UnderMaintenance([windows |-> {w}], now, dev)
<1> DEFINE file == [windows |-> {w}]
           dated == (w.from = Unset \/ w.from <= now) /\ (w.until = Unset \/ now < w.until)
<1>1. file.windows = {w}
  OBVIOUS
<1>2. UnderMaintenance(file, now, dev) <=>
          /\ Covers(w, dev)
          /\ IF w.recurring # NoSchedule THEN InOccurrence(w.recurring, now) ELSE dated
  BY <1>1, Zenon DEF UnderMaintenance, Covers
<1>3. (w.from # Unset => now >= w.from) /\ (w.until # Unset => now < w.until) <=> dated
  BY DEF Unset, IsTimed
<1>4. w.recurring # NoSchedule => (Recurring(w.recurring, now) <=> InOccurrence(w.recurring, now))
  BY RecurringIsOccurrence, Zenon DEF ValidWindow, IsTimed
<1>5. HasBounds(w) # (w.recurring # NoSchedule)
  BY Zenon DEF ValidWindow
<1>6. HasBounds(w) <=> ~(w.recurring # NoSchedule)
  BY <1>5, Zenon DEF HasBounds
<1> HIDE DEF file, dated
<1> QED
  BY <1>2, <1>3, <1>4, <1>6, Zenon DEF Active, file

\* For windows and instants of any kind: the code's minute-of-day arithmetic
\* (Window.Active) selects exactly the occurrences of the window on the clocks
\* of its zone, whatever the length of a day, the days chosen and the zone's
\* offsets, which may differ from instant to instant.
THEOREM WindowsAreTheirOccurrences == Spec => []WindowIsItsOccurrences
<1>1. CaseIsCall => WindowIsItsOccurrences
  <2> SUFFICES ASSUME CaseIsCall, case.part = "window" PROVE WindowIsItsOccurrences
    BY Zenon DEF WindowIsItsOccurrences
  <2> DEFINE c == case.in
  <2>1. c \in WindowCases /\ ValidWindow(c.window) /\ case.active = Active(c.window, c.now, c.dev)
    BY Zenon DEF CaseIsCall, WindowCase
  <2>2. c.now \in Int /\ IsTimed(c.window, c.now)
    BY <2>1, AlgorithmsAssumption, Zenon
  <2>3. Active(c.window, c.now, c.dev) <=> UnderMaintenance([windows |-> {c.window}], c.now, c.dev)
    BY <2>1, <2>2, ActiveIsUnderMaintenance
  <2>4. Active(c.window, c.now, c.dev) = UnderMaintenance([windows |-> {c.window}], c.now, c.dev)
    BY <2>3, Zenon DEF Active, UnderMaintenance
  <2> QED
    BY <2>1, <2>4, Zenon DEF WindowIsItsOccurrences
<1> QED
  BY <1>1, CallsAreCases, PTL

-----------------------------------------------------------------------------
(* Actions and adapters.                                                   *)

LEMMA MinIn ==
    ASSUME NEW T, T \subseteq Nat, T # {}
    PROVE  Min(T) \in T /\ \A y \in T : Min(T) <= y
<1>1. \E x \in T : \A y \in T : x <= y
  BY LeastNatural, Zenon
<1> QED
  BY <1>1, Zenon DEF Min

\* What an action can do.
Does == DeviceChanges \cup {"record", "invoke", "post"}

\* The calls of an action happen one after the other until one of them fails:
\* what happened is a prefix, and the last of it is what was lost, or less than
\* all that was asked.
LEMMA PerformIsPrefix ==
    ASSUME NEW calls \in Seq(Does), NEW r
    PROVE  LET x == Perform(calls, r)
           IN  /\ x.changed <=> ~x.error
               /\ ~x.error => x.did = calls
               /\ \E n \in 0..Len(calls) : /\ x.did = SubSeq(calls, 1, n)
                                           /\ x.error /\ n > 0 => r[n] = "lost" \/ n < Len(calls)
<1> DEFINE bad == { i \in DOMAIN calls : r[i] # "ok" }
           n == IF bad = {} THEN Len(calls) ELSE IF r[Min(bad)] = "lost" THEN Min(bad) ELSE Min(bad) - 1
           x == Perform(calls, r)
<1>1. DOMAIN calls = 1..Len(calls) /\ Len(calls) \in Nat
  OBVIOUS
<1>2. bad \subseteq 1..Len(calls)
  BY <1>1
<1>3. bad # {} => Min(bad) \in bad /\ Min(bad) \in 1..Len(calls)
  <2>1. bad \subseteq Nat
    BY <1>1, <1>2
  <2> QED
    BY <1>2, <2>1, MinIn, Zenon
<1>4. x = [error |-> bad # {}, changed |-> bad = {}, did |-> SubSeq(calls, 1, n)]
  BY Zenon DEF Perform
<1> HIDE DEF bad, x
<1>5. n \in 0..Len(calls) /\ (bad # {} /\ n > 0 => r[n] = "lost" \/ n < Len(calls))
  BY <1>1, <1>3
<1>6. SubSeq(calls, 1, Len(calls)) = calls
  BY SubSeqFull
<1> HIDE DEF n
<1>7. /\ (x.error <=> bad # {}) /\ (x.changed <=> bad = {}) /\ x.did = SubSeq(calls, 1, n)
  BY <1>4, Zenon
<1>8. bad = {} => n = Len(calls)
  BY DEF n
<1> QED
  BY <1>5, <1>6, <1>7, <1>8, Zenon DEF x

\* The catalog, as far as the adapters depend on it.
LEMMA CatalogTypes ==
    ASSUME NEW a \in DOMAIN Actions
    PROVE  /\ a \in DOMAIN PortCalls \cup {"set_interface_description"} =>
                  Actions[a].types = NetTypes /\ Actions[a].disruptive
           /\ a = "query_interface_state" => Actions[a].types = NetTypes \cup {"access_point"}
           /\ a = "query_vlan_state" => Actions[a].types = NetTypes
           /\ a \in {"restart_ap_service", "update_ap_config"} =>
                  Actions[a].types = {"access_point"} /\ Actions[a].disruptive
           /\ a = "query_ap_clients" => Actions[a].types = {"access_point"}
           /\ a \in {"restart_service", "run_maintenance_task"} => Actions[a].types = HostTypes /\ Actions[a].disruptive
           /\ a = "collect_diagnostics" => Actions[a].types = HostTypes
<1>1. DOMAIN PortCalls = {"disable_interface", "enable_interface", "bounce_interface"}
  BY DEF PortCalls
<1>2. /\ Actions["disable_interface"].types = NetTypes /\ Actions["enable_interface"].types = NetTypes
      /\ Actions["bounce_interface"].types = NetTypes /\ Actions["set_interface_description"].types = NetTypes
      /\ Actions["query_interface_state"].types = NetTypes \cup {"access_point"}
      /\ Actions["query_vlan_state"].types = NetTypes
      /\ Actions["restart_ap_service"].types = {"access_point"} /\ Actions["query_ap_clients"].types = {"access_point"}
      /\ Actions["update_ap_config"].types = {"access_point"} /\ Actions["restart_service"].types = HostTypes
      /\ Actions["collect_diagnostics"].types = HostTypes /\ Actions["run_maintenance_task"].types = HostTypes
  BY Zenon DEF Actions, PortAction, Action
<1>3. /\ Actions["disable_interface"].disruptive /\ Actions["enable_interface"].disruptive
      /\ Actions["bounce_interface"].disruptive /\ Actions["set_interface_description"].disruptive
      /\ Actions["restart_ap_service"].disruptive /\ Actions["update_ap_config"].disruptive
      /\ Actions["restart_service"].disruptive /\ Actions["run_maintenance_task"].disruptive
  BY Zenon DEF Actions, PortAction, Action
<1>4. a \in DOMAIN PortCalls \cup {"set_interface_description"} => Actions[a].types = NetTypes /\ Actions[a].disruptive
  BY <1>1, <1>2, <1>3, Zenon
<1>5. /\ a = "query_interface_state" => Actions[a].types = NetTypes \cup {"access_point"}
      /\ a = "query_vlan_state" => Actions[a].types = NetTypes
      /\ a = "query_ap_clients" => Actions[a].types = {"access_point"}
      /\ a = "collect_diagnostics" => Actions[a].types = HostTypes
  BY <1>2, Zenon
<1>6. /\ a \in {"restart_ap_service", "update_ap_config"} => Actions[a].types = {"access_point"} /\ Actions[a].disruptive
      /\ a \in {"restart_service", "run_maintenance_task"} => Actions[a].types = HostTypes /\ Actions[a].disruptive
  BY <1>2, <1>3, Zenon
<1> QED
  BY <1>4, <1>5, <1>6

LEMMA ActionNames ==
    DOMAIN Actions = DOMAIN PortCalls \cup
        { "set_interface_description", "query_interface_state", "query_vlan_state", "restart_ap_service",
          "query_ap_clients", "update_ap_config", "restart_service", "collect_diagnostics", "run_maintenance_task" }
        \cup GenericActions
BY DEF Actions, PortCalls, GenericActions, PlatformCalls

\* A result that tells the truth about an action.
Truthful(a, dry, r, w) ==
    /\ r.error \in BOOLEAN
    /\ dry => r.did = <<>> /\ ~r.changed
    /\ ~dry /\ ~r.error => r.did = Effect(a) /\ (r.changed <=> Effect(a) # <<>>)
    /\ r.error => ~r.changed
    /\ r.error /\ r.did # <<>> =>
           \/ \E i \in DOMAIN r.did : w.replies[i] = "lost"
           \/ a = "bounce_interface" /\ r.did = <<"down">>
    /\ (\E i \in DOMAIN r.did : r.did[i] \in DeviceChanges) => Actions[a].disruptive

LEMMA FailureIsTruthful ==
    ASSUME NEW a, NEW dry, NEW w
    PROVE  Truthful(a, dry, ActionFailed, w)
BY DEF Truthful, ActionFailed

LEMMA UnchangedIsTruthful ==
    ASSUME NEW a, NEW dry, NEW w, dry \/ Effect(a) = <<>>
    PROVE  Truthful(a, dry, Unchanged, w)
BY DEF Truthful, Unchanged

LEMMA LocalIsTruthful ==
    ASSUME NEW a, NEW w, NEW what, Effect(a) = <<what>>, Actions[a].disruptive
    PROVE  Truthful(a, FALSE, Local(what), w)
BY DEF Truthful, Local

LEMMA PerformIsTruthful ==
    ASSUME NEW a, NEW w, NEW calls \in Seq(Does), calls # <<>>, Effect(a) = calls,
           Len(calls) = 1 \/ (a = "bounce_interface" /\ calls = <<"down", "up">>),
           (\E i \in DOMAIN calls : calls[i] \in DeviceChanges) => Actions[a].disruptive
    PROVE  Truthful(a, FALSE, Perform(calls, w.replies), w)
<1> DEFINE x == Perform(calls, w.replies)
<1>1. /\ x.changed <=> ~x.error
      /\ ~x.error => x.did = calls
      /\ \E n \in 0..Len(calls) : /\ x.did = SubSeq(calls, 1, n)
                                  /\ x.error /\ n > 0 => w.replies[n] = "lost" \/ n < Len(calls)
  BY PerformIsPrefix, Zenon
<1>2. x.error \in BOOLEAN
  BY Zenon DEF Perform
<1> HIDE DEF x
<1>3. PICK n \in 0..Len(calls) : /\ x.did = SubSeq(calls, 1, n)
                                 /\ x.error /\ n > 0 => w.replies[n] = "lost" \/ n < Len(calls)
  BY <1>1, Zenon
<1>4. DOMAIN x.did = 1..n /\ \A i \in 1..n : x.did[i] = calls[i] /\ i \in DOMAIN calls
  BY <1>3
<1>5. x.did # <<>> => n > 0
  BY <1>3, SubSeqEmpty
<1>6. x.error /\ x.did # <<>> => \/ \E i \in DOMAIN x.did : w.replies[i] = "lost"
                                 \/ a = "bounce_interface" /\ x.did = <<"down">>
  <2> SUFFICES ASSUME x.error, x.did # <<>>, w.replies[n] # "lost"
               PROVE  a = "bounce_interface" /\ x.did = <<"down">>
    BY <1>4, <1>5
  <2>1. n > 0 /\ n < Len(calls)
    BY <1>3, <1>5
  <2>a. Len(calls) # 1
    <3>1. \A k, m \in Int : k > 0 /\ k < m => m # 1
      OBVIOUS
    <3>2. n \in Int /\ Len(calls) \in Int
      OBVIOUS
    <3> QED
      BY <2>1, <3>1, <3>2, Zenon
  <2>b. a = "bounce_interface" /\ calls = <<"down", "up">>
    BY <2>a, Zenon
  <2>c. Len(calls) = 2
    BY <2>b
  <2>2. a = "bounce_interface" /\ calls = <<"down", "up">> /\ n = 1
    BY <2>1, <2>b, <2>c
  <2>3. Len(x.did) = 1
    BY <1>3, <2>2
  <2>4. x.did[1] = "down"
    BY <1>3, <2>2
  <2>5. x.did \in Seq(Does)
    BY <1>3
  <2> QED
    BY <2>2, <2>3, <2>4, <2>5
<1>7. (\E i \in DOMAIN x.did : x.did[i] \in DeviceChanges) => Actions[a].disruptive
  BY <1>4, Zenon
<1> QED
  BY <1>1, <1>2, <1>6, <1>7, Zenon DEF Truthful, x

LEMMA Effects ==
    /\ Effect("disable_interface") = <<"down">> /\ Effect("enable_interface") = <<"up">>
    /\ Effect("bounce_interface") = <<"down", "up">> /\ Effect("set_interface_description") = <<"description">>
    /\ Effect("restart_ap_service") = <<"online">> /\ Effect("restart_service") = <<"online">>
    /\ Effect("update_ap_config") = <<"config">> /\ Effect("run_maintenance_task") = <<"task">>
    /\ Effect("send_webhook") = <<"post">> /\ Effect("create_event_record") = <<"record">>
    /\ Effect("invoke_extension") = <<"invoke">> /\ Effect("noop") = <<>>
    /\ Effect("query_interface_state") = <<>> /\ Effect("query_vlan_state") = <<>>
    /\ Effect("query_ap_clients") = <<>> /\ Effect("collect_diagnostics") = <<>>
BY DEF Effect

LEMMA SmallSequences ==
    ASSUME NEW S, NEW a \in S, NEW b \in S
    PROVE  <<a>> \in Seq(S) /\ <<a, b>> \in Seq(S)
OBVIOUS

LEMMA SwitchIsTruthful ==
    ASSUME NEW pr, NEW dry \in BOOLEAN, NEW w, pr.action \in DOMAIN Actions
    PROVE  pr.action \in DOMAIN PortCalls \cup {"set_interface_description", "query_interface_state", "query_vlan_state"} =>
               Truthful(pr.action, dry, SwitchExecute(pr, dry, w), w)
<1> DEFINE a == pr.action
           x == SwitchExecute(pr, dry, w)
<1>1. /\ PortCalls["disable_interface"] = <<"down">> /\ PortCalls["enable_interface"] = <<"up">>
      /\ PortCalls["bounce_interface"] = <<"down", "up">>
      /\ DOMAIN PortCalls = {"disable_interface", "enable_interface", "bounce_interface"}
  BY DEF PortCalls
<1>2. CASE a = "query_vlan_state"
  <2>1. x = Unchanged
    BY <1>1, <1>2 DEF SwitchExecute
  <2> QED
    BY <1>2, <2>1, Effects, UnchangedIsTruthful, Zenon
<1>3. CASE a = "query_interface_state"
  <2>1. x = Unchanged \/ x = ActionFailed
    BY <1>1, <1>3 DEF SwitchExecute
  <2> QED
    BY <1>3, <2>1, Effects, UnchangedIsTruthful, FailureIsTruthful, Zenon
<1>4. CASE a \in DOMAIN PortCalls
  <2>0. a # "query_vlan_state" /\ a # "query_interface_state" /\ a # "set_interface_description"
    BY <1>1, <1>4
  <2>1. x = IF ~w.reads THEN ActionFailed ELSE IF dry THEN Unchanged ELSE Perform(PortCalls[a], w.replies)
    BY <1>4, <2>0 DEF SwitchExecute
  <2>2. Truthful(a, FALSE, Perform(PortCalls[a], w.replies), w)
    <3>1. Actions[a].disruptive
      BY <1>4, CatalogTypes, Zenon
    <3>2. Effect(a) = PortCalls[a]
      BY <1>1, <1>4, Effects
    <3>3. PortCalls[a] \in Seq(Does) /\ PortCalls[a] # <<>>
      <4>0. "down" \in Does /\ "up" \in Does
        BY DEF Does, DeviceChanges
      <4>1. <<"down">> \in Seq(Does) /\ <<"up">> \in Seq(Does) /\ <<"down", "up">> \in Seq(Does)
        BY <4>0, SmallSequences, Zenon
      <4>2. <<"down">> # <<>> /\ <<"up">> # <<>> /\ <<"down", "up">> # <<>>
        OBVIOUS
      <4> QED
        BY <1>1, <1>4, <4>1, <4>2, Zenon
    <3>4. Len(PortCalls[a]) = 1 \/ (a = "bounce_interface" /\ PortCalls[a] = <<"down", "up">>)
      BY <1>1, <1>4
    <3> QED
      BY <3>1, <3>2, <3>3, <3>4, PerformIsTruthful, Zenon
  <2>3. CASE w.reads /\ ~dry
    <3>1. x = Perform(PortCalls[a], w.replies) /\ dry = FALSE
      BY <2>1, <2>3, Zenon
    <3> QED
      BY <2>2, <3>1, Zenon
  <2>4. CASE ~w.reads \/ dry
    BY <2>1, <2>4, UnchangedIsTruthful, FailureIsTruthful, Zenon
  <2> QED
    BY <2>3, <2>4, Zenon
<1>5. CASE a = "set_interface_description"
  <2>0. a \notin DOMAIN PortCalls
    BY <1>1, <1>5
  <2>1. x = IF ~w.reads THEN ActionFailed ELSE IF dry THEN Unchanged ELSE Local("description")
    BY <1>5, <2>0 DEF SwitchExecute
  <2>2. Actions[a].disruptive /\ Effect(a) = <<"description">>
    BY <1>5, CatalogTypes, Effects, Zenon
  <2>3. Truthful(a, FALSE, Local("description"), w)
    BY <2>2, LocalIsTruthful, Zenon
  <2>4. CASE w.reads /\ ~dry
    <3>1. x = Local("description") /\ dry = FALSE
      BY <2>1, <2>4, Zenon
    <3> QED
      BY <2>3, <3>1, Zenon
  <2>5. CASE ~w.reads \/ dry
    BY <2>1, <2>5, UnchangedIsTruthful, FailureIsTruthful, Zenon
  <2> QED
    BY <2>4, <2>5, Zenon
<1> QED
  BY <1>2, <1>3, <1>4, <1>5, Zenon

LEMMA OneCallIsTruthful ==
    ASSUME NEW a, NEW w, NEW what \in Does, Effect(a) = <<what>>, what \in DeviceChanges => Actions[a].disruptive
    PROVE  Truthful(a, FALSE, Perform(<<what>>, w.replies), w)
<1> DEFINE calls == <<what>>
<1>1. calls \in Seq(Does)
  BY SmallSequences, Zenon
<1>2. Len(calls) = 1 /\ calls # <<>> /\ calls[1] = what /\ DOMAIN calls = {1}
  OBVIOUS
<1>3. (\E i \in DOMAIN calls : calls[i] \in DeviceChanges) => Actions[a].disruptive
  BY <1>2, Zenon
<1> HIDE DEF calls
<1>4. Effect(a) = calls
  BY DEF calls
<1>5. Truthful(a, FALSE, Perform(calls, w.replies), w)
  BY <1>1, <1>2, <1>3, <1>4, PerformIsTruthful, Zenon
<1> QED
  BY <1>5 DEF calls

LEMMA AccessPointIsTruthful ==
    ASSUME NEW pr, NEW dry \in BOOLEAN, NEW w, pr.action \in DOMAIN Actions
    PROVE  pr.action \in {"query_ap_clients", "query_interface_state", "restart_ap_service", "update_ap_config"} =>
               Truthful(pr.action, dry, AccessPointExecute(pr, dry, w), w)
<1> DEFINE a == pr.action
           x == AccessPointExecute(pr, dry, w)
<1>1. CASE a \in {"query_ap_clients", "query_interface_state"}
  <2>1. x = Unchanged \/ x = ActionFailed
    BY <1>1 DEF AccessPointExecute
  <2>2. Effect(a) = <<>>
    BY <1>1, Effects, Zenon
  <2> QED
    BY <2>1, <2>2, UnchangedIsTruthful, FailureIsTruthful, Zenon
<1>2. CASE a \in {"restart_ap_service", "update_ap_config"} /\ dry
  <2>1. x = Unchanged
    BY <1>2 DEF AccessPointExecute
  <2> QED
    BY <1>2, <2>1, UnchangedIsTruthful, Zenon
<1>3. CASE a = "restart_ap_service" /\ ~dry
  <2>1. x = Perform(<<"online">>, w.replies) /\ dry = FALSE
    BY <1>3 DEF AccessPointExecute
  <2>2. Effect(a) = <<"online">> /\ Actions[a].disruptive /\ "online" \in Does
    <3>1. "online" \in Does
      BY DEF Does, DeviceChanges
    <3> QED
      BY <1>3, <3>1, Effects, CatalogTypes, Zenon
  <2> QED
    BY <2>1, <2>2, OneCallIsTruthful, Zenon
<1>4. CASE a = "update_ap_config" /\ ~dry
  <2>1. x = Local("config") /\ dry = FALSE
    BY <1>4 DEF AccessPointExecute
  <2>2. Effect(a) = <<"config">> /\ Actions[a].disruptive
    BY <1>4, Effects, CatalogTypes, Zenon
  <2> QED
    BY <2>1, <2>2, LocalIsTruthful, Zenon
<1> QED
  BY <1>1, <1>2, <1>3, <1>4, Zenon

LEMMA HostIsTruthful ==
    ASSUME NEW pr, NEW dry \in BOOLEAN, NEW w, pr.action \in DOMAIN Actions
    PROVE  pr.action \in {"collect_diagnostics", "restart_service", "run_maintenance_task"} =>
               Truthful(pr.action, dry, HostExecute(pr, dry, w), w)
<1> DEFINE a == pr.action
           x == HostExecute(pr, dry, w)
<1>1. CASE a = "collect_diagnostics"
  <2>1. x = Unchanged \/ x = ActionFailed
    BY <1>1 DEF HostExecute
  <2> QED
    BY <1>1, <2>1, Effects, UnchangedIsTruthful, FailureIsTruthful, Zenon
<1>2. CASE a = "restart_service"
  <2>1. x = IF dry THEN Unchanged ELSE Perform(<<"online">>, w.replies)
    BY <1>2 DEF HostExecute
  <2>2. Effect(a) = <<"online">> /\ Actions[a].disruptive /\ "online" \in Does
    <3>1. "online" \in Does
      BY DEF Does, DeviceChanges
    <3> QED
      BY <1>2, <3>1, Effects, CatalogTypes, Zenon
  <2>3. Truthful(a, FALSE, Perform(<<"online">>, w.replies), w) /\ Truthful(a, TRUE, Unchanged, w)
    BY <2>2, OneCallIsTruthful, UnchangedIsTruthful, Zenon
  <2> QED
    BY <2>1, <2>3, Zenon
<1>3. CASE a = "run_maintenance_task"
  <2>1. x = IF ~w.knownTask THEN ActionFailed ELSE IF dry THEN Unchanged ELSE Local("task")
    BY <1>3 DEF HostExecute
  <2>2. Effect(a) = <<"task">> /\ Actions[a].disruptive
    BY <1>3, Effects, CatalogTypes, Zenon
  <2>3. /\ Truthful(a, FALSE, Local("task"), w) /\ Truthful(a, TRUE, Unchanged, w)
        /\ Truthful(a, dry, ActionFailed, w)
    BY <2>2, LocalIsTruthful, UnchangedIsTruthful, FailureIsTruthful, Zenon
  <2> QED
    BY <2>1, <2>3, Zenon
<1> QED
  BY <1>1, <1>2, <1>3, Zenon

LEMMA GenericIsTruthful ==
    ASSUME NEW pr, NEW dry \in BOOLEAN, NEW w, pr.action \in DOMAIN Actions
    PROVE  pr.action \in GenericActions => Truthful(pr.action, dry, GenericExecute(pr, dry, w), w)
<1> DEFINE a == pr.action
           x == GenericExecute(pr, dry, w)
<1>1. /\ PlatformCalls["create_event_record"] = <<"record">> /\ PlatformCalls["invoke_extension"] = <<"invoke">>
      /\ PlatformCalls["send_webhook"] = <<"post">>
      /\ DOMAIN PlatformCalls = {"create_event_record", "invoke_extension", "send_webhook"}
  BY DEF PlatformCalls
<1>2. CASE a = "noop"
  <2>1. x = Unchanged
    BY <1>1, <1>2 DEF GenericExecute
  <2> QED
    BY <1>2, <2>1, Effects, UnchangedIsTruthful, Zenon
<1>3. CASE a \in DOMAIN PlatformCalls
  <2>0. a # "noop"
    BY <1>1, <1>3
  <2>1. x = IF dry THEN Unchanged ELSE Perform(PlatformCalls[a], w.replies)
    BY <1>3, <2>0 DEF GenericExecute
  <2>2. PICK what \in {"record", "invoke", "post"} : PlatformCalls[a] = <<what>> /\ Effect(a) = <<what>>
    BY <1>1, <1>3, Effects, Zenon
  <2>3. what \in Does /\ what \notin DeviceChanges
    BY DEF Does, DeviceChanges
  <2>4. Truthful(a, FALSE, Perform(PlatformCalls[a], w.replies), w) /\ Truthful(a, TRUE, Unchanged, w)
    BY <2>2, <2>3, OneCallIsTruthful, UnchangedIsTruthful, Zenon
  <2> QED
    BY <2>1, <2>4, Zenon
<1> QED
  BY <1>2, <1>3, Zenon DEF GenericActions

\* What every adapter says of a valid proposal is true, and there is one.
LEMMA ExecuteIsTruthful ==
    ASSUME NEW pr, NEW dev, NEW dry \in BOOLEAN, NEW w, Validate(pr, dev)
    PROVE  LET x == Execute(pr, dev, dry, w)
           IN  x.status = "done" /\ Truthful(pr.action, dry, x.result, w)
<1> DEFINE a == pr.action
           x == Execute(pr, dev, dry, w)
           ByHand == /\ a \in DOMAIN PortCalls \cup {"set_interface_description", "query_interface_state", "query_vlan_state"}
                     /\ dev.type \in NetTypes
<1>1. a \in DOMAIN Actions /\ (Actions[a].types # {} => dev.type \in Actions[a].types)
  BY Zenon DEF Validate
<1>2. NetTypes = {"switch", "router"} /\ HostTypes = {"server", "workstation"}
  BY DEF NetTypes, HostTypes
<1>3. DOMAIN PortCalls = {"disable_interface", "enable_interface", "bounce_interface"}
  BY DEF PortCalls
<1>4. GenericActions = {"create_event_record", "invoke_extension", "send_webhook", "noop"}
  BY DEF GenericActions, PlatformCalls
<1>5. CASE a \in GenericActions
  <2>1. x = [status |-> "done", result |-> GenericExecute(pr, dry, w)]
    BY <1>5 DEF Execute
  <2> QED
    BY <1>1, <1>5, <2>1, GenericIsTruthful
<1>6. CASE ByHand
  <2>1. a \notin GenericActions /\ dev.type # "access_point" /\ dev.type \notin HostTypes
    BY <1>2, <1>3, <1>4, <1>6
  <2>2. x = [status |-> "done", result |-> SwitchExecute(pr, dry, w)]
    BY <1>6, <2>1 DEF Execute
  <2> QED
    BY <1>1, <1>6, <2>2, SwitchIsTruthful
<1>7. CASE /\ a \in {"query_ap_clients", "query_interface_state", "restart_ap_service", "update_ap_config"}
           /\ dev.type = "access_point"
  <2>1. a \notin GenericActions /\ dev.type \notin NetTypes /\ dev.type \notin HostTypes
    BY <1>2, <1>4, <1>7
  <2>2. x = [status |-> "done", result |-> AccessPointExecute(pr, dry, w)]
    BY <1>7, <2>1 DEF Execute
  <2> QED
    BY <1>1, <1>7, <2>2, AccessPointIsTruthful
<1>8. CASE a \in {"collect_diagnostics", "restart_service", "run_maintenance_task"} /\ dev.type \in HostTypes
  <2>1. a \notin GenericActions /\ dev.type \notin NetTypes /\ dev.type # "access_point"
    BY <1>2, <1>4, <1>8
  <2>2. x = [status |-> "done", result |-> HostExecute(pr, dry, w)]
    BY <1>8, <2>1 DEF Execute
  <2> QED
    BY <1>1, <1>8, <2>2, HostIsTruthful
<1>9. a \notin GenericActions =>
          \/ ByHand
          \/ /\ a \in {"query_ap_clients", "query_interface_state", "restart_ap_service", "update_ap_config"}
             /\ dev.type = "access_point"
          \/ a \in {"collect_diagnostics", "restart_service", "run_maintenance_task"} /\ dev.type \in HostTypes
  <2>1. NetTypes # {} /\ HostTypes # {} /\ {"access_point"} # {} /\ NetTypes \cup {"access_point"} # {}
    BY <1>2
  <2>2. a \in DOMAIN PortCalls \cup {"set_interface_description", "query_vlan_state"} => dev.type \in NetTypes
    BY <1>1, <2>1, CatalogTypes, Zenon
  <2>3. a = "query_interface_state" => dev.type \in NetTypes \/ dev.type = "access_point"
    BY <1>1, <2>1, CatalogTypes, Zenon
  <2>4. a \in {"query_ap_clients", "restart_ap_service", "update_ap_config"} => dev.type = "access_point"
    <3>1. a \in {"query_ap_clients", "restart_ap_service", "update_ap_config"} => Actions[a].types = {"access_point"}
      BY <1>1, CatalogTypes, Zenon
    <3> QED
      BY <1>1, <3>1
  <2>5. a \in {"collect_diagnostics", "restart_service", "run_maintenance_task"} => dev.type \in HostTypes
    BY <1>1, <2>1, CatalogTypes, Zenon
  <2> QED
    BY <1>1, <2>2, <2>3, <2>4, <2>5, ActionNames, Zenon
<1> QED
  BY <1>5, <1>6, <1>7, <1>8, <1>9, Zenon

-----------------------------------------------------------------------------
(* The gates.                                                              *)

LEMMA SixElements ==
    ASSUME NEW a, NEW b, NEW c, NEW d, NEW e, NEW f
    PROVE  LET s == <<a, b, c, d, e, f>>
           IN  /\ DOMAIN s = 1..6
               /\ s[1] = a /\ s[2] = b /\ s[3] = c /\ s[4] = d /\ s[5] = e /\ s[6] = f
OBVIOUS

LEMMA DefaultsKeepTheRest ==
    ASSUME NEW p, IsPolicy(p)
    PROVE  LET q == WithDefaults(p)
           IN  /\ q.id = p.id /\ q.script = p.script /\ q.allowed = p.allowed /\ q.dryRun = p.dryRun
               /\ q.requireTag = IF p.requireTag = "" THEN DefaultTag ELSE p.requireTag
BY DEF IsPolicy, WithDefaults

\* What the policy, the device and the moment have to be for a request to get
\* past the gates.
Proceeds(req, p, dev, file, w) ==
    /\ p.id = req.policy
    /\ dev.enabled /\ w.firing /\ Validate(req.proposal, dev)
    /\ p.script # "" => req.proposal.action \in p.allowed
    /\ (IF p.requireTag = "" THEN DefaultTag ELSE p.requireTag) \in dev.tags
    /\ LET spec == Actions[req.proposal.action]
       IN  /\ spec.capability # "" => spec.capability \in dev.capabilities
           /\ Live(req, p, w.globalDry) /\ spec.disruptive => Allowlisted(file, dev.id)
    /\ ~InMaintenance(file, w.now, dev)

LEMMA OpenVerdict ==
    ASSUME NEW req, NEW dev, NEW file, NEW w, \A p \in file.policies : IsPolicy(p),
           Verdict(req, dev, file, w) = "open"
    PROVE  LET p == CHOOSE x \in file.policies : x.id = req.policy
           IN  p \in file.policies /\ Proceeds(req, p, dev, file, w)
<1> DEFINE found == { p \in file.policies : p.id = req.policy }
           raw   == CHOOSE p \in found : TRUE
           pol   == WithDefaults(raw)
           gates == Gates(req, pol, dev, file, w)
           shut  == { i \in DOMAIN gates : ~gates[i].open }
           spec  == Actions[req.proposal.action]
           p     == CHOOSE x \in file.policies : x.id = req.policy
<1>1. found # {} /\ dev.enabled /\ w.firing /\ Validate(req.proposal, dev)
  BY DEF Verdict
<1>2. shut # {} => gates[Min(shut)].gate = "open"
  BY <1>1, Zenon DEF Verdict
<1>3. raw \in file.policies /\ raw.id = req.policy /\ IsPolicy(raw)
  BY <1>1, Zenon
<1>4. raw = p
  BY Zenon
<1> HIDE DEF pol
<1> DEFINE g1 == Gate("policy", pol.script # "" => req.proposal.action \in pol.allowed)
           g2 == Gate("extension", req.proposal.action = "invoke_extension" => ExtensionApproved(file, req.proposal.params.script))
           g3 == Gate("tag", pol.requireTag \in dev.tags)
           g4 == Gate("capability", spec.capability # "" => spec.capability \in dev.capabilities)
           g5 == Gate("allowlist", Live(req, pol, w.globalDry) /\ spec.disruptive => Allowlisted(file, dev.id))
           g6 == Gate("maintenance", ~InMaintenance(file, w.now, dev))
<1>5. gates = <<g1, g2, g3, g4, g5, g6>>
  BY Zenon DEF Gates
<1>6. /\ g1.gate = "policy" /\ g2.gate = "extension" /\ g3.gate = "tag" /\ g4.gate = "capability"
      /\ g5.gate = "allowlist" /\ g6.gate = "maintenance"
  BY Zenon DEF Gate
<1>7. /\ g1.open => (pol.script # "" => req.proposal.action \in pol.allowed)
      /\ g3.open => pol.requireTag \in dev.tags
      /\ g4.open => (spec.capability # "" => spec.capability \in dev.capabilities)
      /\ g5.open => (Live(req, pol, w.globalDry) /\ spec.disruptive => Allowlisted(file, dev.id))
      /\ g6.open => ~InMaintenance(file, w.now, dev)
  BY Zenon DEF Gate
<1> HIDE DEF gates, g1, g2, g3, g4, g5, g6
<1>8. /\ DOMAIN gates = 1..6
      /\ gates[1] = g1 /\ gates[2] = g2 /\ gates[3] = g3 /\ gates[4] = g4 /\ gates[5] = g5 /\ gates[6] = g6
  BY <1>5, SixElements
<1>9. shut = {}
  <2> SUFFICES ASSUME shut # {} PROVE FALSE
    OBVIOUS
  <2>1. shut \subseteq 1..6
    BY <1>8, Zenon
  <2>2. Min(shut) \in 1..6
    <3>1. 1..6 \subseteq Nat
      OBVIOUS
    <3>2. shut \subseteq Nat
      BY <2>1, <3>1, Zenon
    <3>3. Min(shut) \in shut
      BY <3>2, MinIn, Zenon
    <3> QED
      BY <2>1, <3>3, Zenon
  <2>3. \A i \in 1..6 : i = 1 \/ i = 2 \/ i = 3 \/ i = 4 \/ i = 5 \/ i = 6
    OBVIOUS
  <2>4. gates[Min(shut)] \in {g1, g2, g3, g4, g5, g6}
    BY <1>8, <2>2, <2>3, Zenon
  <2>5. gates[Min(shut)].gate \in {"policy", "extension", "tag", "capability", "allowlist", "maintenance"}
    BY <1>6, <2>4, Zenon
  <2> QED
    BY <1>2, <2>5
<1>10. g1.open /\ g3.open /\ g4.open /\ g5.open /\ g6.open
  <2>1. 1 \in 1..6 /\ 3 \in 1..6 /\ 4 \in 1..6 /\ 5 \in 1..6 /\ 6 \in 1..6
    OBVIOUS
  <2>2. \A i \in 1..6 : gates[i].open
    BY <1>8, <1>9, Zenon
  <2> QED
    BY <1>8, <2>1, <2>2, Zenon
<1>11. /\ pol.script = raw.script /\ pol.allowed = raw.allowed /\ pol.dryRun = raw.dryRun
       /\ pol.requireTag = IF raw.requireTag = "" THEN DefaultTag ELSE raw.requireTag
  BY <1>3, DefaultsKeepTheRest DEF pol
<1>12. Live(req, raw, w.globalDry) <=> Live(req, pol, w.globalDry)
  BY <1>11, Zenon DEF Live, DryRun
<1>13. Proceeds(req, raw, dev, file, w)
  BY <1>1, <1>3, <1>7, <1>10, <1>11, <1>12, Zenon DEF Proceeds
<1> QED
  BY <1>3, <1>4, <1>13, Zenon

\* The request that is made is open to be processed or denied at once.
LEMMA RequestFields ==
    ASSUME NEW p, NEW ev, NEW dev, NEW scripted, NEW globalDry
    PROVE  LET req == Request(p, ev, dev, scripted, globalDry)
           IN  /\ req.policy = p.id /\ req.status \in {"pending", "denied"}
               /\ ~req.dryRun => ~globalDry /\ p.dryRun = "false"
<1> DEFINE pr  == Propose(p, ev, scripted)
           req == Request(p, ev, dev, scripted, globalDry)
<1>1. req = [ policy |-> p.id, proposal |-> pr, dryRun |-> globalDry \/ DryRun(p),
              status |-> IF CheckProposal(p, pr, dev) THEN "pending" ELSE "denied" ]
  BY Zenon DEF Request
<1> HIDE DEF req, pr
<1>2. req.policy = p.id
  BY <1>1, Zenon
<1>3. req.status = IF CheckProposal(p, pr, dev) THEN "pending" ELSE "denied"
  BY <1>1, Zenon
<1>4. req.dryRun <=> globalDry \/ DryRun(p)
  BY <1>1, Zenon
<1> QED
  BY <1>2, <1>3, <1>4, Zenon DEF DryRun, req

\* A request is refused, and nothing happened, or its action ran after all
\* gates were found open.
NothingDone(out) == out.status \in {"denied", "expired"} /\ ~out.changed /\ out.did = <<>>
RanAs(out, req, p, dev, file, w, dry, r) ==
    /\ p \in file.policies /\ Proceeds(req, p, dev, file, w)
    /\ (dry <=> ~Live(req, p, w.globalDry))
    /\ Truthful(req.proposal.action, dry, r, w)
    /\ out.status = IF r.error THEN "failed" ELSE IF dry THEN "dry_run" ELSE "succeeded"
    /\ (out.changed <=> r.changed) /\ out.did = r.did

LEMMA Outcomes ==
    ASSUME NEW req, NEW dev, NEW file, NEW w, req.status \in {"pending", "denied"},
           \A p \in file.policies : IsPolicy(p)
    PROVE  LET out == Process(req, dev, file, w)
           IN  NothingDone(out) \/ \E p, r : \E dry \in BOOLEAN : RanAs(out, req, p, dev, file, w, dry, r)
<1> DEFINE out  == Process(req, dev, file, w)
           p    == CHOOSE x \in file.policies : x.id = req.policy
           dry  == ~Live(req, p, w.globalDry)
           gate == Verdict(req, dev, file, w)
           x    == Execute(req.proposal, dev, dry, w)
           ended == IF x.result.error THEN "failed" ELSE IF dry THEN "dry_run" ELSE "succeeded"
<1>1. \A s, g : s \in {"denied", "expired"} => NothingDone(Refused(s, g))
  BY Zenon DEF Refused, NothingDone
<1>2. CASE req.status = "denied"
  <2>1. out = Refused("denied", "proposal")
    BY <1>2 DEF Process
  <2>2. NothingDone(Refused("denied", "proposal"))
    BY <1>1
  <2> HIDE DEF out
  <2>3. NothingDone(out)
    BY <2>1, <2>2
  <2> QED
    BY <2>3, Zenon DEF out
<1>3. CASE req.status # "denied" /\ gate # "open"
  <2> HIDE DEF gate
  <2> DEFINE st == IF gate = "alert" THEN "expired" ELSE "denied"
  <2>1. out = Refused(st, gate)
    BY <1>3 DEF Process, gate
  <2>2. st \in {"denied", "expired"}
    OBVIOUS
  <2> HIDE DEF out, st
  <2>3. NothingDone(Refused(st, gate))
    BY <1>1, <2>2
  <2>4. NothingDone(out)
    BY <2>1, <2>3
  <2> QED
    BY <2>4, Zenon DEF out
<1>4. CASE req.status # "denied" /\ gate = "open"
  <2>1. p \in file.policies /\ Proceeds(req, p, dev, file, w)
    BY <1>4, OpenVerdict, Zenon
  <2>2. dry \in BOOLEAN /\ (dry <=> ~Live(req, p, w.globalDry))
    BY Zenon DEF Live
  <2>3. out = IF x.status = "denied" THEN Refused("denied", "adapter")
              ELSE [status |-> ended, gate |-> "none", changed |-> x.result.changed, did |-> x.result.did]
    BY <1>4, Zenon DEF Process
  <2> HIDE DEF p, dry
  <2>4. Validate(req.proposal, dev)
    BY <2>1, Zenon DEF Proceeds
  <2>5. x.status = "done" /\ Truthful(req.proposal.action, dry, x.result, w)
    BY <2>2, <2>4, ExecuteIsTruthful, Zenon
  <2> HIDE DEF x, ended, out
  <2>6. out = [status |-> ended, gate |-> "none", changed |-> x.result.changed, did |-> x.result.did]
    BY <2>3, <2>5
  <2>7. out.status = ended /\ (out.changed <=> x.result.changed) /\ out.did = x.result.did
    BY <2>6, Zenon
  <2>8. RanAs(out, req, p, dev, file, w, dry, x.result)
    BY <2>1, <2>2, <2>5, <2>7, Zenon DEF ended, RanAs
  <2> QED
    BY <2>2, <2>8, Zenon DEF out
<1> QED
  BY <1>2, <1>3, <1>4, Zenon

\* The audit trail tells what happened to the device, for every policy file,
\* device and outcome of the calls: success means all of the action happened, a
\* refusal, an expiry or a dry run means nothing did, and a failure leaves
\* something behind only if an answer was lost or bounce_interface stopped
\* half-way (Engine.execute and every adapter).
THEOREM ReportsMatchDevices == Spec => []ReportMatchesDevice
<1>1. CaseIsCall => ReportMatchesDevice
  <2> SUFFICES ASSUME CaseIsCall, case.part = "response" PROVE ReportMatchesDevice
    BY Zenon DEF ReportMatchesDevice
  <2> DEFINE c   == case.in
             req == case.request
             out == case.out
             a   == req.proposal.action
  <2>1. ResponseCase
    BY Zenon DEF CaseIsCall
  <2> DEFINE R == Request(case.policy, c.event, c.device, c.scripted, c.globalDry)
             P == Process(req, c.later, c.current, c.world)
  <2>e. req = R /\ out = P
    BY <2>1, Zenon DEF ResponseCase
  <2>f. R.status \in {"pending", "denied"}
    BY RequestFields, Zenon
  <2>2. req.status \in {"pending", "denied"}
    <3> HIDE DEF R
    <3> QED
      BY <2>e, <2>f
  <2>3. \A x \in c.current.policies : IsPolicy(x)
    BY <2>1, AlgorithmsAssumption, Zenon DEF ResponseCase
  <2>4. \/ NothingDone(out)
        \/ \E p, r : \E dry \in BOOLEAN : RanAs(out, req, p, c.later, c.current, c.world, dry, r)
    <3>1. NothingDone(P) \/ \E p, r : \E dry \in BOOLEAN : RanAs(P, req, p, c.later, c.current, c.world, dry, r)
      <4> HIDE DEF c, req
      <4> QED
        BY <2>2, <2>3, Outcomes
    <3> HIDE DEF P
    <3> QED
      BY <2>e, <3>1
  <2>5. CASE NothingDone(out)
    BY <2>5 DEF ReportMatchesDevice, NothingDone
  <2>6. CASE \E p, r : \E dry \in BOOLEAN : RanAs(out, req, p, c.later, c.current, c.world, dry, r)
    <3> HIDE DEF c, req, out
    <3>0. PICK p, r : \E dry \in BOOLEAN : RanAs(out, req, p, c.later, c.current, c.world, dry, r)
      BY <2>6, Zenon
    <3>a. PICK dry \in BOOLEAN : RanAs(out, req, p, c.later, c.current, c.world, dry, r)
      BY <3>0, Zenon
    <3>b. /\ Truthful(a, dry, r, c.world)
          /\ out.status = IF r.error THEN "failed" ELSE IF dry THEN "dry_run" ELSE "succeeded"
          /\ (out.changed <=> r.changed) /\ out.did = r.did
      BY <3>a, Zenon DEF RanAs
    <3>1. /\ r.error <=> out.status = "failed"
          /\ ~r.error /\ dry <=> out.status = "dry_run"
          /\ ~r.error /\ ~dry <=> out.status = "succeeded"
          /\ out.status \in {"failed", "dry_run", "succeeded"}
      BY <3>b
    <3>2. out.status = "succeeded" => out.did = Effect(a)
      BY <3>b, <3>1, Zenon DEF Truthful
    <3>3. out.status \in {"denied", "expired", "dry_run"} => out.did = <<>>
      <4>1. out.status \in {"denied", "expired", "dry_run"} => out.status = "dry_run"
        BY <3>1
      <4> QED
        BY <3>b, <3>1, <4>1, Zenon DEF Truthful
    <3>4. out.status = "failed" /\ out.did # <<>> =>
              \/ \E i \in DOMAIN out.did : c.world.replies[i] = "lost"
              \/ a = "bounce_interface" /\ out.did = <<"down">>
      BY <3>b, <3>1, Zenon DEF Truthful
    <3>5. out.changed <=> out.status = "succeeded" /\ Effect(a) # <<>>
      BY <3>b, <3>1, Zenon DEF Truthful
    <3> QED
      BY <3>2, <3>3, <3>4, <3>5, Zenon DEF ReportMatchesDevice, out, req, c
  <2> QED
    BY <2>4, <2>5, <2>6, Zenon
<1> QED
  BY <1>1, CallsAreCases, PTL

LEMMA InMaintenanceIsUnderMaintenance ==
    ASSUME NEW file, NEW now \in Int, NEW dev, \A w \in file.windows : ValidWindow(w) /\ IsTimed(w, now)
    PROVE  InMaintenance(file, now, dev) <=> UnderMaintenance(file, now, dev)
<1>1. UnderMaintenance(file, now, dev) <=> \E w \in file.windows : UnderMaintenance([windows |-> {w}], now, dev)
  <2>1. \A w : [windows |-> {w}].windows = {w}
    OBVIOUS
  <2> QED
    BY <2>1, Zenon DEF UnderMaintenance
<1>2. \A w \in file.windows : Active(w, now, dev) <=> UnderMaintenance([windows |-> {w}], now, dev)
  BY ActiveIsUnderMaintenance, Zenon
<1> QED
  BY <1>1, <1>2, Zenon DEF InMaintenance

\* Nothing happens outside the platform's records unless the policy was live
\* when the event was handled and is live now, neither process is in global
\* dry-run, and device, alert, tag, capability, maintenance windows and
\* allowlist allow it when the request is processed (Engine.HandleEvent,
\* process, execute).
THEOREM ChangesPassTheGates == Spec => []ChangedOnlyThroughGates
<1>1. CaseIsCall => ChangedOnlyThroughGates
  <2> SUFFICES ASSUME CaseIsCall, DidSomething PROVE ChangedOnlyThroughGates
    BY Zenon DEF ChangedOnlyThroughGates
  <2> DEFINE c   == case.in
             req == case.request
             out == case.out
             a   == req.proposal.action
             now == { x \in c.current.policies : x.id = case.policy.id }
  <2>1. ResponseCase /\ out.did # <<>>
    BY Zenon DEF CaseIsCall, DidSomething
  <2>2. /\ req.policy = case.policy.id /\ req.status \in {"pending", "denied"}
        /\ ~req.dryRun => ~c.globalDry /\ case.policy.dryRun = "false"
    <3> DEFINE R == Request(case.policy, c.event, c.device, c.scripted, c.globalDry)
    <3>1. req = R
      BY <2>1, Zenon DEF ResponseCase
    <3>2. /\ R.policy = case.policy.id /\ R.status \in {"pending", "denied"}
          /\ ~R.dryRun => ~c.globalDry /\ case.policy.dryRun = "false"
      BY RequestFields, Zenon
    <3> HIDE DEF R
    <3> QED
      BY <3>1, <3>2
  <2>3. /\ \A x \in c.current.policies : IsPolicy(x)
        /\ \A w \in c.current.windows : ValidWindow(w) /\ IsTimed(w, c.world.now)
        /\ \A x, y \in c.current.policies : x.id = y.id => x = y
        /\ c.world.now \in Int
    BY <2>1, AlgorithmsAssumption, Zenon DEF ResponseCase, ValidFile
  <2>a. ~NothingDone(out)
    BY <2>1, Zenon DEF NothingDone
  <2>b. PICK p, r : \E dry \in BOOLEAN : RanAs(out, req, p, c.later, c.current, c.world, dry, r)
    <3> DEFINE P == Process(req, c.later, c.current, c.world)
    <3>1. out = P
      BY <2>1, Zenon DEF ResponseCase
    <3>2. NothingDone(P) \/ \E p, r : \E dry \in BOOLEAN : RanAs(P, req, p, c.later, c.current, c.world, dry, r)
      <4> HIDE DEF c, req
      <4> QED
        BY <2>2, <2>3, Outcomes
    <3> HIDE DEF P
    <3> QED
      BY <2>a, <3>1, <3>2
  <2>c. PICK dry \in BOOLEAN : RanAs(out, req, p, c.later, c.current, c.world, dry, r)
    BY <2>b, Zenon
  <2>4. /\ p \in c.current.policies /\ Proceeds(req, p, c.later, c.current, c.world)
        /\ Truthful(a, dry, r, c.world) /\ out.did = r.did
    BY <2>c, Zenon DEF RanAs
  <2>5. ~dry
    BY <2>1, <2>4, Zenon DEF Truthful
  <2>6. ~req.dryRun /\ ~c.world.globalDry /\ p.dryRun = "false" /\ Live(req, p, c.world.globalDry)
    BY <2>5, <2>c, Zenon DEF RanAs, Live, DryRun
  <2>7. now = {p}
    BY <2>2, <2>3, <2>4, Zenon DEF Proceeds
  <2>8. ~UnderMaintenance(c.current, c.world.now, c.later)
    BY <2>3, <2>4, InMaintenanceIsUnderMaintenance, Zenon DEF Proceeds
  <2>9. DidToDevice => c.later.id \in c.current.allowlist
    BY <2>4, <2>6, Zenon DEF DidToDevice, Truthful, Proceeds, Allowlisted
  <2>10. /\ Actions[a].types # {} => c.later.type \in Actions[a].types
         /\ Actions[a].capability # "" => Actions[a].capability \in c.later.capabilities
         /\ c.later.enabled /\ c.world.firing
    BY <2>4, Zenon DEF Proceeds, Validate
  <2>11. \A x \in now : /\ x.dryRun = "false"
                        /\ (IF x.requireTag = "" THEN DefaultTag ELSE x.requireTag) \in c.later.tags
                        /\ x.script # "" => a \in x.allowed
    BY <2>4, <2>6, <2>7, Zenon DEF Proceeds
  <2>12. now # {}
    BY <2>7, Zenon
  <2> HIDE DEF now
  <2> QED
    BY <2>2, <2>6, <2>8, <2>9, <2>10, <2>11, <2>12, Zenon DEF ChangedOnlyThroughGates, now
<1> QED
  BY <1>1, CallsAreCases, PTL

-----------------------------------------------------------------------------
(* Script chains.                                                          *)

\* What a script chain carries from script to script.
IsGoing(acc) == acc = [status |-> acc.status, o |-> acc.o] /\ IsObservation(acc.o)

Behaviours == { "throw", "inactive", "saturated", "null", "garbage", "rename", "misname",
                "steal", "restamp", "adjust", "annotate" }

LEMMA RanCases ==
    ASSUME NEW d \in Behaviours, NEW o
    PROVE  /\ d \in {"throw", "inactive", "saturated", "null", "garbage"} => Ran(d, o) = Ends(d)
           /\ d = "rename" => Ran(d, o) = Returns([o EXCEPT !.metric = "m2"])
           /\ d = "misname" => Ran(d, o) = Returns([o EXCEPT !.metric = "Not A Metric"])
           /\ d = "steal" => Ran(d, o) = Returns([o EXCEPT !.ident = "other"])
           /\ d = "restamp" => Ran(d, o) = Returns([o EXCEPT !.received = "later"])
           /\ d = "adjust" => Ran(d, o) = Returns([o EXCEPT !.value = Num(9)])
           /\ d = "annotate" => Ran(d, o) = Returns([o EXCEPT !.metadata = @ \cup {"note"}])
BY DEF Ran

\* An observation with one field changed.
LEMMA ChangedFields ==
    ASSUME NEW o, IsObservation(o), NEW v
    PROVE  /\ LET x == [o EXCEPT !.ident = v] IN IsObservation(x) /\ x.ident = v /\ (v = o.ident => x = o)
           /\ LET x == [o EXCEPT !.received = v] IN IsObservation(x) /\ x.received = v /\ (v = o.received => x = o)
           /\ LET x == [o EXCEPT !.metric = v] IN IsObservation(x) /\ x.metric = v /\ (v = o.metric => x = o)
           /\ LET x == [o EXCEPT !.value = v] IN IsObservation(x) /\ x.value = v /\ (v = o.value => x = o)
           /\ LET x == [o EXCEPT !.metadata = v] IN IsObservation(x) /\ x.metadata = v /\ (v = o.metadata => x = o)
<1>1. LET x == [o EXCEPT !.ident = v] IN IsObservation(x) /\ x.ident = v /\ (v = o.ident => x = o)
  <2> DEFINE x == [o EXCEPT !.ident = v]
  <2>1. x = [ ident |-> v, received |-> o.received, metric |-> o.metric, value |-> o.value,
             labels |-> o.labels, metadata |-> o.metadata, future |-> o.future ]
    BY DEF IsObservation
  <2> HIDE DEF x
  <2>2. IsObservation(x)
    BY <2>1, Zenon DEF IsObservation
  <2>3. x.ident = v
    BY <2>1
  <2>4. v = o.ident => x = o
    BY <2>1 DEF IsObservation
  <2> QED
    BY <2>2, <2>3, <2>4 DEF x
<1>2. LET x == [o EXCEPT !.received = v] IN IsObservation(x) /\ x.received = v /\ (v = o.received => x = o)
  <2> DEFINE x == [o EXCEPT !.received = v]
  <2>1. x = [ ident |-> o.ident, received |-> v, metric |-> o.metric, value |-> o.value,
             labels |-> o.labels, metadata |-> o.metadata, future |-> o.future ]
    BY DEF IsObservation
  <2> HIDE DEF x
  <2>2. IsObservation(x)
    BY <2>1, Zenon DEF IsObservation
  <2>3. x.received = v
    BY <2>1
  <2>4. v = o.received => x = o
    BY <2>1 DEF IsObservation
  <2> QED
    BY <2>2, <2>3, <2>4 DEF x
<1>3. LET x == [o EXCEPT !.metric = v] IN IsObservation(x) /\ x.metric = v /\ (v = o.metric => x = o)
  <2> DEFINE x == [o EXCEPT !.metric = v]
  <2>1. x = [ ident |-> o.ident, received |-> o.received, metric |-> v, value |-> o.value,
             labels |-> o.labels, metadata |-> o.metadata, future |-> o.future ]
    BY DEF IsObservation
  <2> HIDE DEF x
  <2>2. IsObservation(x)
    BY <2>1, Zenon DEF IsObservation
  <2>3. x.metric = v
    BY <2>1
  <2>4. v = o.metric => x = o
    BY <2>1 DEF IsObservation
  <2> QED
    BY <2>2, <2>3, <2>4 DEF x
<1>4. LET x == [o EXCEPT !.value = v] IN IsObservation(x) /\ x.value = v /\ (v = o.value => x = o)
  <2> DEFINE x == [o EXCEPT !.value = v]
  <2>1. x = [ ident |-> o.ident, received |-> o.received, metric |-> o.metric, value |-> v,
             labels |-> o.labels, metadata |-> o.metadata, future |-> o.future ]
    BY DEF IsObservation
  <2> HIDE DEF x
  <2>2. IsObservation(x)
    BY <2>1, Zenon DEF IsObservation
  <2>3. x.value = v
    BY <2>1
  <2>4. v = o.value => x = o
    BY <2>1 DEF IsObservation
  <2> QED
    BY <2>2, <2>3, <2>4 DEF x
<1>5. LET x == [o EXCEPT !.metadata = v] IN IsObservation(x) /\ x.metadata = v /\ (v = o.metadata => x = o)
  <2> DEFINE x == [o EXCEPT !.metadata = v]
  <2>1. x = [ ident |-> o.ident, received |-> o.received, metric |-> o.metric, value |-> o.value,
             labels |-> o.labels, metadata |-> v, future |-> o.future ]
    BY DEF IsObservation
  <2> HIDE DEF x
  <2>2. IsObservation(x)
    BY <2>1, Zenon DEF IsObservation
  <2>3. x.metadata = v
    BY <2>1
  <2>4. v = o.metadata => x = o
    BY <2>1 DEF IsObservation
  <2> QED
    BY <2>2, <2>3, <2>4 DEF x
<1> QED
  BY <1>1, <1>2, <1>3, <1>4, <1>5, Zenon

LEMMA ReturnsWhat ==
    ASSUME NEW o
    PROVE  Returns(o).kind = "observation" /\ Returns(o).o = o
BY DEF Returns

\* A script's answer is an observation with at most one field changed, or none.
Answers(d, o, r) ==
    /\ r.kind = "observation" => IsObservation(r.o)
    /\ (r.kind = "saturated") <=> (d = "saturated")
    /\ (r.kind = "null") <=> (d = "null")
    /\ d \in {"throw", "inactive", "garbage", "saturated", "null"} => r.kind # "observation"
    /\ d = "misname" => r.o.metric = "Not A Metric"
    /\ d = "steal" => r.o = o \/ r.o.ident # o.ident
    /\ d = "restamp" => r.o = o \/ r.o.received # o.received
    /\ d = "rename" => r.o = o \/ r.o.metric # o.metric
    /\ d = "adjust" => r.o = o \/ r.o.value # o.value

LEMMA RanAnswers ==
    ASSUME NEW d \in Behaviours, NEW o, IsObservation(o)
    PROVE  Answers(d, o, Ran(d, o))
<1> DEFINE r == Ran(d, o)
<1>1. CASE d \in {"throw", "inactive", "saturated", "null", "garbage"}
  <2>1. r = Ends(d)
    BY <1>1, RanCases, Zenon
  <2>2. r.kind = d
    BY <2>1 DEF Ends
  <2> HIDE DEF r
  <2>3. r.kind # "observation"
    BY <1>1, <2>2
  <2> QED
    BY <1>1, <2>2, <2>3 DEF r, Answers
<1>2. CASE d = "rename"
  <2> DEFINE y == [o EXCEPT !.metric = "m2"]
  <2>1. r = Returns(y)
    BY <1>2, RanCases
  <2>2. IsObservation(y) /\ y.metric = "m2" /\ ("m2" = o.metric => y = o)
    BY ChangedFields, Zenon
  <2> HIDE DEF r, y
  <2>3. r.kind = "observation" /\ r.o = y
    BY <2>1, ReturnsWhat
  <2> QED
    BY <1>2, <2>2, <2>3 DEF r, Answers
<1>3. CASE d = "misname"
  <2> DEFINE y == [o EXCEPT !.metric = "Not A Metric"]
  <2>1. r = Returns(y)
    BY <1>3, RanCases
  <2>2. IsObservation(y) /\ y.metric = "Not A Metric"
    BY ChangedFields, Zenon
  <2> HIDE DEF r, y
  <2>3. r.kind = "observation" /\ r.o = y
    BY <2>1, ReturnsWhat
  <2> QED
    BY <1>3, <2>2, <2>3 DEF r, Answers
<1>4. CASE d = "steal"
  <2> DEFINE y == [o EXCEPT !.ident = "other"]
  <2>1. r = Returns(y)
    BY <1>4, RanCases
  <2>2. IsObservation(y) /\ y.ident = "other" /\ ("other" = o.ident => y = o)
    BY ChangedFields, ZenonT(40)
  <2> HIDE DEF r, y
  <2>3. r.kind = "observation" /\ r.o = y
    BY <2>1, ReturnsWhat
  <2> QED
    BY <1>4, <2>2, <2>3 DEF r, Answers
<1>5. CASE d = "restamp"
  <2> DEFINE y == [o EXCEPT !.received = "later"]
  <2>1. r = Returns(y)
    BY <1>5, RanCases
  <2>2. IsObservation(y) /\ y.received = "later" /\ ("later" = o.received => y = o)
    BY ChangedFields, ZenonT(40)
  <2> HIDE DEF r, y
  <2>3. r.kind = "observation" /\ r.o = y
    BY <2>1, ReturnsWhat
  <2> QED
    BY <1>5, <2>2, <2>3 DEF r, Answers
<1>6. CASE d = "adjust"
  <2> DEFINE y == [o EXCEPT !.value = Num(9)]
  <2>1. r = Returns(y)
    BY <1>6, RanCases
  <2>2. IsObservation(y) /\ y.value = Num(9) /\ (Num(9) = o.value => y = o)
    BY ChangedFields, Zenon
  <2> HIDE DEF r, y
  <2>3. r.kind = "observation" /\ r.o = y
    BY <2>1, ReturnsWhat
  <2> QED
    BY <1>6, <2>2, <2>3 DEF r, Answers
<1>7. CASE d = "annotate"
  <2> DEFINE y == [o EXCEPT !.metadata = o.metadata \cup {"note"}]
  <2>1. r = Returns(y)
    BY <1>7, RanCases
  <2>2. IsObservation(y)
    BY ChangedFields, Zenon
  <2> HIDE DEF r, y
  <2>3. r.kind = "observation" /\ r.o = y
    BY <2>1, ReturnsWhat
  <2> QED
    BY <1>7, <2>2, <2>3 DEF r, Answers
<1> QED
  BY <1>1, <1>2, <1>3, <1>4, <1>5, <1>6, <1>7 DEF Behaviours

\* One transform script keeps the identity, and a broken one changes nothing.
LEMMA TransformStepIsContained ==
    ASSUME NEW acc, NEW script, IsGoing(acc), script.does \in Behaviours
    PROVE  LET next == TransformStep(acc, script)
           IN  /\ IsGoing(next) /\ SameIdentity(acc.o, next.o)
               /\ script.does \in BrokenTransforms => next = acc
<1> DEFINE next == TransformStep(acc, script)
           r == Ran(script.does, acc.o)
           d == script.does
<1>1. Answers(d, acc.o, r)
  <2>1. IsObservation(acc.o)
    BY DEF IsGoing
  <2> QED
    BY <2>1, RanAnswers
<1>2. next = IF acc.status # "ok" \/ ~Handles(script, acc.o.metric) THEN acc
             ELSE CASE r.kind = "saturated"           -> [acc EXCEPT !.status = "retry"]
                    [] r.kind = "null"                -> [acc EXCEPT !.status = "dropped"]
                    [] AcceptsTransform(acc.o, r)     -> Going(r.o)
                    [] OTHER                          -> acc
  BY Zenon DEF TransformStep
<1> HIDE DEF r, next
<1>3. AcceptsTransform(acc.o, r) => /\ r.kind = "observation" /\ r.o.metric # "Not A Metric"
                                    /\ SameIdentity(acc.o, r.o)
  BY StageAAssumption DEF AcceptsTransform, Valid
<1>4. CASE acc.status # "ok" \/ ~Handles(script, acc.o.metric)
  <2>1. next = acc
    BY <1>2, <1>4
  <2> QED
    BY <2>1 DEF SameIdentity, next
<1>5. CASE ~(acc.status # "ok" \/ ~Handles(script, acc.o.metric)) /\ r.kind = "saturated"
  <2>1. ~AcceptsTransform(acc.o, r) /\ r.kind # "null"
    BY <1>3, <1>5
  <2>2. next = [acc EXCEPT !.status = "retry"]
    BY <1>2, <1>5, <2>1
  <2>3. IsGoing(next) /\ next.o = acc.o
    BY <2>2 DEF IsGoing
  <2>4. d \notin BrokenTransforms
    BY <1>1, <1>5 DEF BrokenTransforms, Answers
  <2> QED
    BY <2>3, <2>4 DEF SameIdentity, next
<1>6. CASE ~(acc.status # "ok" \/ ~Handles(script, acc.o.metric)) /\ r.kind = "null"
  <2>1. ~AcceptsTransform(acc.o, r) /\ r.kind # "saturated"
    BY <1>3, <1>6
  <2>2. next = [acc EXCEPT !.status = "dropped"]
    BY <1>2, <1>6, <2>1
  <2>3. IsGoing(next) /\ next.o = acc.o
    BY <2>2 DEF IsGoing
  <2>4. d \notin BrokenTransforms
    BY <1>1, <1>6 DEF BrokenTransforms, Answers
  <2> QED
    BY <2>3, <2>4 DEF SameIdentity, next
<1>7. CASE ~(acc.status # "ok" \/ ~Handles(script, acc.o.metric)) /\ AcceptsTransform(acc.o, r)
  <2>1. r.kind = "observation" /\ r.kind # "saturated" /\ r.kind # "null"
    BY <1>3, <1>7
  <2>2. next = Going(r.o)
    BY <1>2, <1>7, <2>1
  <2>3. IsGoing(next) /\ SameIdentity(acc.o, next.o) /\ next.o = r.o /\ next.status = "ok"
    BY <1>1, <1>3, <1>7, <2>1, <2>2 DEF IsGoing, Going, Answers
  <2>4. d \in BrokenTransforms => r.o = acc.o
    BY <1>1, <1>3, <1>7, <2>1 DEF BrokenTransforms, SameIdentity, Answers
  <2>5. r.o = acc.o => next = acc
    BY <1>7, <2>2 DEF Going, IsGoing
  <2> QED
    BY <2>3, <2>4, <2>5 DEF next
<1>8. CASE /\ ~(acc.status # "ok" \/ ~Handles(script, acc.o.metric)) /\ ~AcceptsTransform(acc.o, r)
           /\ r.kind # "saturated" /\ r.kind # "null"
  <2>1. next = acc
    BY <1>2, <1>8
  <2> QED
    BY <2>1 DEF SameIdentity, next
<1> QED
  BY <1>4, <1>5, <1>6, <1>7, <1>8, Zenon

SameButMetadata(a, b) == [a EXCEPT !.metadata = b.metadata] = b

\* One enricher changes nothing but metadata, and a broken one nothing.
LEMMA EnrichStepIsContained ==
    ASSUME NEW acc, NEW script, IsGoing(acc), script.does \in Behaviours
    PROVE  LET next == EnrichStep(acc, script)
           IN  /\ IsGoing(next) /\ SameButMetadata(next.o, acc.o)
               /\ script.does \in BrokenEnrichers => next = acc
<1> DEFINE next == EnrichStep(acc, script)
           r == Ran(script.does, acc.o)
           d == script.does
<1>1. Answers(d, acc.o, r)
  <2>1. IsObservation(acc.o)
    BY DEF IsGoing
  <2> QED
    BY <2>1, RanAnswers
<1>2. next = IF acc.status # "ok" \/ ~Handles(script, acc.o.metric) THEN acc
             ELSE CASE r.kind = "saturated"        -> [acc EXCEPT !.status = "retry"]
                    [] AcceptsEnrich(acc.o, r)     -> Going(r.o)
                    [] OTHER                       -> acc
  BY Zenon DEF EnrichStep
<1> HIDE DEF r, next
<1>3. AcceptsEnrich(acc.o, r) => /\ r.kind = "observation" /\ r.o.metric # "Not A Metric"
                                 /\ SameButMetadata(r.o, acc.o)
  BY StageAAssumption DEF AcceptsEnrich, Valid, SameButMetadata
<1>4. SameButMetadata(acc.o, acc.o)
  BY DEF IsGoing, IsObservation, SameButMetadata
<1>5. CASE acc.status # "ok" \/ ~Handles(script, acc.o.metric)
  <2>1. next = acc
    BY <1>2, <1>5
  <2> QED
    BY <1>4, <2>1 DEF next
<1>6. CASE ~(acc.status # "ok" \/ ~Handles(script, acc.o.metric)) /\ r.kind = "saturated"
  <2>1. ~AcceptsEnrich(acc.o, r)
    BY <1>3, <1>6
  <2>2. next = [acc EXCEPT !.status = "retry"]
    BY <1>2, <1>6, <2>1
  <2>3. IsGoing(next) /\ next.o = acc.o
    BY <2>2 DEF IsGoing
  <2>4. d \notin BrokenEnrichers
    BY <1>1, <1>6 DEF BrokenTransforms, BrokenEnrichers, Answers
  <2> QED
    BY <1>4, <2>3, <2>4 DEF next
<1>7. CASE ~(acc.status # "ok" \/ ~Handles(script, acc.o.metric)) /\ AcceptsEnrich(acc.o, r)
  <2>1. r.kind = "observation" /\ r.kind # "saturated"
    BY <1>3, <1>7
  <2>2. next = Going(r.o)
    BY <1>2, <1>7, <2>1
  <2>3. IsGoing(next) /\ next.o = r.o /\ next.status = "ok"
    BY <1>1, <2>1, <2>2 DEF IsGoing, Going, Answers
  <2>4. /\ r.o.ident = acc.o.ident /\ r.o.received = acc.o.received /\ r.o.metric = acc.o.metric
        /\ r.o.value = acc.o.value
    BY <1>1, <1>3, <1>7, <2>1 DEF SameButMetadata, IsObservation, Answers
  <2>5. d \in BrokenEnrichers => r.o = acc.o
    BY <1>1, <1>3, <1>7, <2>1, <2>4 DEF BrokenTransforms, BrokenEnrichers, Answers
  <2>6. r.o = acc.o => next = acc
    BY <1>7, <2>2 DEF Going, IsGoing
  <2> QED
    BY <1>3, <1>7, <2>3, <2>5, <2>6 DEF next
<1>8. CASE /\ ~(acc.status # "ok" \/ ~Handles(script, acc.o.metric)) /\ ~AcceptsEnrich(acc.o, r)
           /\ r.kind # "saturated"
  <2>1. next = acc
    BY <1>2, <1>8
  <2> QED
    BY <1>4, <2>1 DEF next
<1> QED
  BY <1>5, <1>6, <1>7, <1>8, Zenon

LEMMA RemovedAt ==
    ASSUME NEW S, NEW q \in Seq(S), NEW i \in 1..Len(q)
    PROVE  LET p == RemoveAt(q, i)
           IN  /\ p \in Seq(S) /\ Len(p) = Len(q) - 1 /\ DOMAIN p = 1..(Len(q) - 1)
               /\ \A k \in 1..(i - 1) : p[k] = q[k]
               /\ \A k \in i..(Len(q) - 1) : p[k] = q[k + 1]
<1> DEFINE n == Len(q)
           x == SubSeq(q, 1, i - 1)
           y == SubSeq(q, i + 1, n)
           p == RemoveAt(q, i)
<1>0. n \in Nat /\ i \in Nat /\ i >= 1 /\ i <= n /\ DOMAIN q = 1..n
  OBVIOUS
<1>1. x \in Seq(S) /\ Len(x) = i - 1 /\ \A k \in 1..(i - 1) : x[k] = q[k]
  BY <1>0
<1>2. y \in Seq(S) /\ Len(y) = n - i /\ \A k \in 1..(n - i) : y[k] = q[i + k]
  <2>1. \A k \in (i + 1)..n : q[k] \in S
    BY <1>0
  <2>2. /\ y \in Seq(S) /\ Len(y) = IF i + 1 <= n THEN n - (i + 1) + 1 ELSE 0
        /\ \A k \in 1..(n - (i + 1) + 1) : y[k] = q[(i + 1) + k - 1]
    <3>1. i + 1 \in Int /\ n \in Int
      BY <1>0
    <3> HIDE DEF n
    <3> QED
      BY <2>1, <3>1, SubSeqProperties
  <2>3. n - (i + 1) + 1 = n - i /\ \A k \in 1..(n - i) : (i + 1) + k - 1 = i + k
    BY <1>0
  <2>4. Len(y) = n - i
    <3> HIDE DEF y, n
    <3> QED
      BY <1>0, <2>2
  <2> HIDE DEF y, n
  <2> QED
    BY <2>2, <2>3, <2>4
<1>3. p = x \o y
  BY DEF RemoveAt
<1> HIDE DEF x, y, p, n
<1>4. p \in Seq(S) /\ Len(p) = n - 1
  BY <1>0, <1>1, <1>2, <1>3
<1>5. \A k \in 1..(i - 1) : p[k] = q[k]
  BY <1>0, <1>1, <1>2, <1>3
<1>6. ASSUME NEW k \in i..(n - 1) PROVE p[k] = q[k + 1]
  <2>1. k - (i - 1) \in 1..(n - i) /\ k > i - 1 /\ k \in 1..(n - 1)
    BY <1>0
  <2>2. p[k] = y[k - (i - 1)]
    BY <1>0, <1>1, <1>2, <1>3, <2>1
  <2>3. i + (k - (i - 1)) = k + 1
    BY <1>0
  <2> QED
    BY <1>2, <2>1, <2>2, <2>3
<1> QED
  BY <1>4, <1>5, <1>6 DEF p, n

\* The results of a chain and of the chain without script i, which changed
\* nothing: they are the same, shifted by one.
Without(i, n, m, g, h, p, q) ==
    /\ n = m + 1 /\ h[0] = g[0] /\ g[i] = g[i - 1]
    /\ \A k \in 1..(i - 1) : p[k] = q[k]
    /\ \A k \in i..m : p[k] = q[k + 1]
    /\ \A k \in 1..m, j \in 1..n : h[k - 1] = g[j - 1] /\ p[k] = q[j] => h[k] = g[j]

LEMMA Removal ==
    ASSUME NEW m \in Nat, NEW n \in Nat, NEW i \in 1..n, NEW g, NEW h, NEW p, NEW q, Without(i, n, m, g, h, p, q)
    PROVE  h[m] = g[n]
<1>0. /\ n = m + 1 /\ h[0] = g[0] /\ g[i] = g[i - 1]
      /\ \A k \in 1..(i - 1) : p[k] = q[k]
      /\ \A k \in i..m : p[k] = q[k + 1]
      /\ \A k \in 1..m, j \in 1..n : h[k - 1] = g[j - 1] /\ p[k] = q[j] => h[k] = g[j]
  BY Zenon DEF Without
<1> DEFINE S == { k \in Nat : (k < i => h[k] = g[k]) /\ (k >= i => h[k - 1] = g[k]) }
<1>1. 0 \in S
  BY <1>0
<1>2. ASSUME NEW k \in Nat, k < n, k \in S PROVE k + 1 \in S
  <2>1. CASE k + 1 < i
    <3>1. k + 1 \in 1..m /\ k + 1 \in 1..n /\ k + 1 \in 1..(i - 1) /\ (k + 1) - 1 = k /\ k < i
      BY <1>0, <2>1
    <3>2. h[k] = g[k]
      BY <1>2, <3>1
    <3>3. h[k + 1] = g[k + 1]
      BY <1>0, <3>1, <3>2, Zenon
    <3> QED
      BY <2>1, <3>3
  <2>2. CASE k + 1 = i
    <3>1. k < i /\ k = i - 1 /\ (k + 1) - 1 = k
      BY <2>2
    <3>2. h[k] = g[k]
      BY <1>2, <3>1
    <3>3. g[k + 1] = h[k]
      BY <1>0, <2>2, <3>1, <3>2
    <3> QED
      BY <2>2, <3>1, <3>3
  <2>3. CASE k >= i
    <3>1. k \in 1..m /\ k + 1 \in 1..n /\ k \in i..m /\ (k + 1) - 1 = k /\ k + 1 >= i
      BY <1>0, <1>2, <2>3
    <3>2. h[k - 1] = g[k]
      BY <1>2, <2>3
    <3>3. h[k] = g[k + 1]
      BY <1>0, <3>1, <3>2, ZenonT(40)
    <3> QED
      BY <2>3, <3>1, <3>3
  <2> QED
    BY <2>1, <2>2, <2>3
<1> HIDE DEF S
<1>3. \A k \in 0..n : k \in S
  BY <1>1, <1>2, Induction, Zenon
<1>4. n \in 0..n /\ n >= i /\ n - 1 = m
  BY <1>0
<1> QED
  BY <1>3, <1>4 DEF S

LEMMA ScriptList ==
    ASSUME NEW q, AreScripts(q)
    PROVE  /\ q \in Seq(ToSet(q)) /\ Len(q) \in Nat /\ DOMAIN q = 1..Len(q)
           /\ \A k \in 1..Len(q) : q[k].does \in Behaviours
<1>1. q \in Seq(ToSet(q)) /\ \A k \in DOMAIN q : q[k].does \in Behaviours
  BY Zenon DEF AreScripts, Behaviours
<1> QED
  BY <1>1

\* The results of a chain of transform scripts, one after the other.
LEMMA TransformChain ==
    ASSUME NEW q, AreScripts(q), NEW o, IsObservation(o)
    PROVE  \E g : /\ g[0] = Going(o)
                  /\ \A k \in 1..Len(q) : g[k] = TransformStep(g[k - 1], q[k])
                  /\ \A k \in 0..Len(q) : IsGoing(g[k]) /\ SameIdentity(o, g[k].o)
                  /\ Transform(q, o) = g[Len(q)]
<1> DEFINE n == Len(q)
<1>0. n \in Nat /\ DOMAIN q = 1..n /\ \A k \in 1..n : q[k].does \in Behaviours
  BY ScriptList, Zenon
<1>1. PICK g : /\ g[0] = Going(o)
               /\ \A k \in 1..n : g[k] = TransformStep(g[k - 1], q[k])
               /\ TransformFrom(Going(o), q) = g[n]
  <2> HIDE DEF n
  <2> QED
    BY <1>0, TransformFold
<1> HIDE DEF n
<1> DEFINE S == { k \in Nat : IsGoing(g[k]) /\ SameIdentity(o, g[k].o) }
<1>2. 0 \in S
  BY <1>1 DEF Going, IsGoing, SameIdentity
<1>3. ASSUME NEW k \in Nat, k < n, k \in S PROVE k + 1 \in S
  <2>1. k + 1 \in 1..n /\ (k + 1) - 1 = k /\ k + 1 \in Nat
    BY <1>0, <1>3
  <2>2. g[k + 1] = TransformStep(g[k], q[k + 1])
    BY <1>1, <2>1
  <2>3. q[k + 1].does \in Behaviours /\ IsGoing(g[k])
    BY <1>0, <1>3, <2>1
  <2>4. IsGoing(g[k + 1]) /\ SameIdentity(g[k].o, g[k + 1].o)
    BY <2>2, <2>3, TransformStepIsContained
  <2>5. SameIdentity(o, g[k + 1].o)
    BY <1>3, <2>4 DEF SameIdentity
  <2> QED
    BY <2>1, <2>4, <2>5
<1> HIDE DEF S
<1>4. \A k \in 0..n : k \in S
  BY <1>0, <1>2, <1>3, Induction, Zenon
<1>5. \A k \in 0..n : IsGoing(g[k]) /\ SameIdentity(o, g[k].o)
  BY <1>4, Zenon DEF S
<1> QED
  BY <1>1, <1>5, Zenon DEF Transform, TransformFrom, n

\* A chain without one of its broken scripts has the same result.
LEMMA TransformWithout ==
    ASSUME NEW q, AreScripts(q), NEW o, IsObservation(o), NEW i \in DOMAIN q, q[i].does \in BrokenTransforms
    PROVE  Transform(q, o) = Transform(RemoveAt(q, i), o)
<1> DEFINE n == Len(q)
           m == n - 1
           p == RemoveAt(q, i)
<1>0. n \in Nat /\ DOMAIN q = 1..n /\ q \in Seq(ToSet(q)) /\ i \in 1..n /\ \A k \in 1..n : q[k].does \in Behaviours
  <2>1. n \in Nat /\ DOMAIN q = 1..n /\ q \in Seq(ToSet(q)) /\ \A k \in 1..n : q[k].does \in Behaviours
    BY ScriptList, Zenon
  <2> QED
    BY <2>1
<1>1. /\ DOMAIN p = 1..m
      /\ \A k \in 1..(i - 1) : p[k] = q[k]
      /\ \A k \in i..m : p[k] = q[k + 1]
  BY <1>0, RemovedAt, Zenon
<1>2. PICK g : /\ g[0] = Going(o)
               /\ \A k \in 1..n : g[k] = TransformStep(g[k - 1], q[k])
               /\ \A k \in 0..n : IsGoing(g[k]) /\ SameIdentity(o, g[k].o)
               /\ Transform(q, o) = g[n]
  BY TransformChain, Zenon
<1>3. m \in Nat /\ n = m + 1
  BY <1>0
<1> HIDE DEF n, m, p
<1>4. PICK h : /\ h[0] = Going(o)
               /\ \A k \in 1..m : h[k] = TransformStep(h[k - 1], p[k])
               /\ TransformFrom(Going(o), p) = h[m]
  <2>1. DOMAIN p = 1..m /\ m \in Nat
    BY <1>1, <1>3, Zenon
  <2> QED
    BY <2>1, TransformFold
<1>5. g[i] = g[i - 1]
  <2>1. i - 1 \in 0..n
    BY <1>0
  <2>2. g[i] = TransformStep(g[i - 1], q[i]) /\ IsGoing(g[i - 1]) /\ q[i].does \in Behaviours
    BY <1>0, <1>2, <2>1, Zenon
  <2> QED
    BY <2>2, TransformStepIsContained
<1>6. \A k \in 1..m, j \in 1..n : h[k - 1] = g[j - 1] /\ p[k] = q[j] => h[k] = g[j]
  BY <1>2, <1>4, Zenon
<1>7. h[m] = g[n]
  <2>1. h[0] = g[0]
    BY <1>2, <1>4, Zenon
  <2>2. Without(i, n, m, g, h, p, q)
    BY <1>1, <1>3, <1>5, <1>6, <2>1, Zenon DEF Without
  <2>3. m \in Nat /\ n \in Nat /\ i \in 1..n
    BY <1>0, <1>3, Zenon
  <2> QED
    BY <2>2, <2>3, Removal
<1> QED
  BY <1>2, <1>4, <1>7, Zenon DEF Transform, TransformFrom, p

\* The results of a chain of enrichers, one after the other.
LEMMA EnrichChain ==
    ASSUME NEW q, AreScripts(q), NEW o, IsObservation(o)
    PROVE  \E g : /\ g[0] = Going(o)
                  /\ \A k \in 1..Len(q) : g[k] = EnrichStep(g[k - 1], q[k])
                  /\ \A k \in 0..Len(q) : IsGoing(g[k]) /\ SameButMetadata(g[k].o, o)
                  /\ EnrichFrom(Going(o), q) = g[Len(q)]
<1> DEFINE n == Len(q)
<1>0. n \in Nat /\ DOMAIN q = 1..n /\ \A k \in 1..n : q[k].does \in Behaviours
  BY ScriptList, Zenon
<1>1. PICK g : /\ g[0] = Going(o)
               /\ \A k \in 1..n : g[k] = EnrichStep(g[k - 1], q[k])
               /\ EnrichFrom(Going(o), q) = g[n]
  <2> HIDE DEF n
  <2> QED
    BY <1>0, EnrichFold
<1> HIDE DEF n
<1> DEFINE S == { k \in Nat : IsGoing(g[k]) /\ SameButMetadata(g[k].o, o) }
<1>2. 0 \in S
  BY <1>1 DEF Going, IsGoing, IsObservation, SameButMetadata
<1>3. ASSUME NEW k \in Nat, k < n, k \in S PROVE k + 1 \in S
  <2>1. k + 1 \in 1..n /\ (k + 1) - 1 = k /\ k + 1 \in Nat
    BY <1>0, <1>3
  <2>2. g[k + 1] = EnrichStep(g[k], q[k + 1])
    BY <1>1, <2>1
  <2>3. q[k + 1].does \in Behaviours /\ IsGoing(g[k])
    BY <1>0, <1>3, <2>1
  <2>4. IsGoing(g[k + 1]) /\ SameButMetadata(g[k + 1].o, g[k].o)
    BY <2>2, <2>3, EnrichStepIsContained
  <2>5. SameButMetadata(g[k + 1].o, o)
    BY <1>3, <2>4 DEF SameButMetadata, IsGoing, IsObservation
  <2> QED
    BY <2>1, <2>4, <2>5
<1> HIDE DEF S
<1>4. \A k \in 0..n : k \in S
  BY <1>0, <1>2, <1>3, Induction, Zenon
<1>5. \A k \in 0..n : IsGoing(g[k]) /\ SameButMetadata(g[k].o, o)
  BY <1>4, Zenon DEF S
<1> QED
  BY <1>1, <1>5, Zenon DEF n

\* A chain without one of its broken enrichers has the same result.
LEMMA EnrichWithout ==
    ASSUME NEW q, AreScripts(q), NEW o, IsObservation(o), NEW i \in DOMAIN q, q[i].does \in BrokenEnrichers
    PROVE  EnrichFrom(Going(o), q) = EnrichFrom(Going(o), RemoveAt(q, i))
<1> DEFINE n == Len(q)
           m == n - 1
           p == RemoveAt(q, i)
<1>0. n \in Nat /\ DOMAIN q = 1..n /\ q \in Seq(ToSet(q)) /\ i \in 1..n /\ \A k \in 1..n : q[k].does \in Behaviours
  <2>1. n \in Nat /\ DOMAIN q = 1..n /\ q \in Seq(ToSet(q)) /\ \A k \in 1..n : q[k].does \in Behaviours
    BY ScriptList, Zenon
  <2> QED
    BY <2>1
<1>1. /\ DOMAIN p = 1..m
      /\ \A k \in 1..(i - 1) : p[k] = q[k]
      /\ \A k \in i..m : p[k] = q[k + 1]
  BY <1>0, RemovedAt, Zenon
<1>2. PICK g : /\ g[0] = Going(o)
               /\ \A k \in 1..n : g[k] = EnrichStep(g[k - 1], q[k])
               /\ \A k \in 0..n : IsGoing(g[k]) /\ SameButMetadata(g[k].o, o)
               /\ EnrichFrom(Going(o), q) = g[n]
  BY EnrichChain, Zenon
<1>3. m \in Nat /\ n = m + 1
  BY <1>0
<1> HIDE DEF n, m, p
<1>4. PICK h : /\ h[0] = Going(o)
               /\ \A k \in 1..m : h[k] = EnrichStep(h[k - 1], p[k])
               /\ EnrichFrom(Going(o), p) = h[m]
  <2>1. DOMAIN p = 1..m /\ m \in Nat
    BY <1>1, <1>3, Zenon
  <2> QED
    BY <2>1, EnrichFold
<1>5. g[i] = g[i - 1]
  <2>1. i - 1 \in 0..n
    BY <1>0
  <2>2. g[i] = EnrichStep(g[i - 1], q[i]) /\ IsGoing(g[i - 1]) /\ q[i].does \in Behaviours
    BY <1>0, <1>2, <2>1, Zenon
  <2> QED
    BY <2>2, EnrichStepIsContained
<1>6. \A k \in 1..m, j \in 1..n : h[k - 1] = g[j - 1] /\ p[k] = q[j] => h[k] = g[j]
  BY <1>2, <1>4, Zenon
<1>7. h[m] = g[n]
  <2>1. h[0] = g[0]
    BY <1>2, <1>4, Zenon
  <2>2. Without(i, n, m, g, h, p, q)
    BY <1>1, <1>3, <1>5, <1>6, <2>1, Zenon DEF Without
  <2>3. m \in Nat /\ n \in Nat /\ i \in 1..n
    BY <1>0, <1>3, Zenon
  <2> QED
    BY <2>2, <2>3, Removal
<1> QED
  BY <1>2, <1>4, <1>7, Zenon DEF p

LEMMA EndsIn == \A s, o : [status |-> s, o |-> o].status = s /\ [status |-> s, o |-> o].o = o
  OBVIOUS

\* Normalization keeps the identity of an observation, and stamps one that came
\* without a time.
LEMMA NormalizedObservation ==
    ASSUME NEW raw, IsObservation(raw)
    PROVE  LET norm == Normalize(Stamped(raw))
           IN  /\ IsObservation(norm) /\ norm.ident = raw.ident
               /\ norm.received = IF raw.received = "" THEN "now" ELSE raw.received
<1> DEFINE s    == Stamped(raw)
           norm == Normalize(s)
<1>1. /\ IsObservation(s) /\ s.ident = raw.ident
      /\ s.received = IF raw.received = "" THEN "now" ELSE raw.received
  <2> DEFINE v == IF raw.received = "" THEN "now" ELSE raw.received
  <2>1. s = [raw EXCEPT !.received = v]
    BY Zenon DEF Stamped
  <2> HIDE DEF v, s
  <2>2. IsObservation(s) /\ s.received = v
    BY <2>1, ChangedFields, Zenon
  <2>3. s.ident = raw.ident
    BY <2>1 DEF IsObservation
  <2> QED
    BY <2>2, <2>3, Zenon DEF v
<1>2. norm = s \/ \E m, v, l, d : norm = [s EXCEPT !.metric = m, !.value = v, !.labels = l, !.metadata = d]
  BY Zenon DEF Normalize
<1> HIDE DEF s, norm
<1> DEFINE Kept(x) == /\ IsObservation(x) /\ x.ident = raw.ident
                      /\ x.received = IF raw.received = "" THEN "now" ELSE raw.received
<1>k. Kept(s)
  BY <1>1, Zenon
<1>3. ASSUME norm = s PROVE Kept(norm)
  <2> HIDE DEF Kept
  <2> QED
    BY <1>k, <1>3
<1>4. ASSUME \E m, v, l, d : norm = [s EXCEPT !.metric = m, !.value = v, !.labels = l, !.metadata = d]
      PROVE  Kept(norm)
  <2>1. PICK m, v, l, d : norm = [s EXCEPT !.metric = m, !.value = v, !.labels = l, !.metadata = d]
    BY <1>4
  <2>2. IsObservation(norm) /\ norm.ident = s.ident /\ norm.received = s.received
    BY <1>1, <2>1 DEF IsObservation
  <2> QED
    BY <1>1, <2>2
<1>5. Kept(norm)
  <2> HIDE DEF Kept
  <2> QED
    BY <1>2, <1>3, <1>4, Zenon
<1> QED
  BY <1>5, Zenon DEF s, norm

\* Stage A: what is published is the observation that came, and valid.
LEMMA PublishedIsReceived ==
    ASSUME NEW raw, IsObservation(raw), NEW q, AreScripts(q), NormalizeMessage(raw, q).status = "ok"
    PROVE  LET o == NormalizeMessage(raw, q).o
           IN  Valid(o) /\ o.ident = raw.ident /\ raw.received \in {"", o.received} /\ o.received \in {"now", raw.received}
<1> DEFINE norm == Normalize(Stamped(raw))
           t    == Transform(q, norm)
           out  == NormalizeMessage(raw, q)
<1>1. out = IF ~Valid(raw) \/ norm.value = Error THEN [status |-> "poison", o |-> raw]
            ELSE IF t.status # "ok" THEN [status |-> t.status, o |-> norm]
            ELSE IF ~Valid(t.o) THEN [status |-> "poison", o |-> raw]
            ELSE t
  BY Zenon DEF NormalizeMessage
<1>2. /\ IsObservation(norm) /\ norm.ident = raw.ident
      /\ norm.received = IF raw.received = "" THEN "now" ELSE raw.received
  BY NormalizedObservation
<1>3. SameIdentity(norm, t.o)
  <2> HIDE DEF norm
  <2>1. PICK g : /\ \A k \in 0..Len(q) : IsGoing(g[k]) /\ SameIdentity(norm, g[k].o)
                 /\ t = g[Len(q)]
    BY <1>2, TransformChain, Zenon
  <2>2. Len(q) \in 0..Len(q)
    BY ScriptList
  <2> HIDE DEF t
  <2> QED
    BY <2>1, <2>2 DEF t
<1> HIDE DEF norm, t, out
<1>4. out.status = "ok"
  BY Zenon DEF out
<1>5. out = t /\ Valid(t.o)
  BY <1>1, <1>4, EndsIn
<1>6. t.o.ident = norm.ident /\ t.o.received = norm.received
  BY <1>3 DEF SameIdentity
<1>7. Valid(out.o) /\ out.o.ident = raw.ident /\ out.o.received = norm.received
  BY <1>2, <1>5, <1>6
<1> QED
  BY <1>2, <1>7 DEF out

\* Enrichment changes nothing but metadata.
LEMMA EnrichedIsObserved ==
    ASSUME NEW o, IsObservation(o), NEW dev, NEW q, AreScripts(q), Enrich(o, dev, q).status = "ok"
    PROVE  SameButMetadata(Enrich(o, dev, q).o, o)
<1> DEFINE x   == [o EXCEPT !.metadata = o.metadata \cup dev.context]
           t   == EnrichFrom(Going(x), q)
           out == Enrich(o, dev, q)
<1>1. out = IF ~dev.known THEN [status |-> "poison", o |-> o]
            ELSE IF ~dev.enabled THEN [status |-> "dropped", o |-> o]
            ELSE t
  BY Zenon DEF Enrich, EnrichFrom
<1>2. IsObservation(x) /\ SameButMetadata(x, o)
  <2>1. IsObservation(x)
    BY ChangedFields, Zenon
  <2>2. [x EXCEPT !.metadata = o.metadata] = o
    <3> DEFINE v == o.metadata \cup dev.context
    <3> HIDE DEF v
    <3>1. [[o EXCEPT !.metadata = v] EXCEPT !.metadata = o.metadata] = o
      BY DEF IsObservation
    <3> QED
      BY <3>1, Zenon DEF v
  <2> QED
    BY <2>1, <2>2, Zenon DEF SameButMetadata
<1>3. IsGoing(t) /\ SameButMetadata(t.o, x)
  <2> HIDE DEF x
  <2>1. PICK g : /\ \A k \in 0..Len(q) : IsGoing(g[k]) /\ SameButMetadata(g[k].o, x)
                 /\ t = g[Len(q)]
    BY <1>2, EnrichChain, Zenon
  <2>2. Len(q) \in 0..Len(q)
    BY ScriptList
  <2> HIDE DEF t
  <2> QED
    BY <2>1, <2>2 DEF t
<1>4. SameButMetadata(t.o, o)
  <2> HIDE DEF x, t
  <2> QED
    BY <1>2, <1>3 DEF SameButMetadata, IsObservation, IsGoing
<1> HIDE DEF x, t, out
<1>5. out.status = "ok"
  BY Zenon DEF out
<1>6. out = t
  BY <1>1, <1>5, EndsIn
<1> QED
  BY <1>4, <1>6 DEF out

\* A script can spoil nothing but its own contribution, in chains of any length,
\* wherever it stands: without a broken one the outcome is the same; what stage A
\* publishes is valid and still what was received, and enrichment changes nothing
\* but metadata (Extensions.Transform and Enrich, decodeTransform, decodeEnrich).
THEOREM ScriptChainsAreContained == Spec => []ScriptsAreContained
<1>1. CaseIsCall => ScriptsAreContained
  <2> SUFFICES ASSUME CaseIsCall PROVE ScriptsAreContained
    OBVIOUS
  <2> DEFINE c   == case.in
             out == case.out
  <2>1. ASSUME case.part = "chain"
        PROVE  /\ \A i \in DOMAIN c.scripts : c.scripts[i].does \in BrokenTransforms =>
                      out = NormalizeMessage(c.raw, RemoveAt(c.scripts, i))
               /\ out.status = "ok" => Valid(out.o) /\ out.o.ident = c.raw.ident
                                       /\ c.raw.received \in {"", out.o.received}
                                       /\ out.o.received \in {"now", c.raw.received}
    <3>1. c \in ChainCases /\ out = NormalizeMessage(c.raw, c.scripts)
      BY <2>1, Zenon DEF CaseIsCall, ChainCase
    <3>2. IsObservation(c.raw) /\ AreScripts(c.scripts)
      BY <3>1, AlgorithmsAssumption, Zenon
    <3> HIDE DEF c, out
    <3>3. ASSUME NEW i \in DOMAIN c.scripts, c.scripts[i].does \in BrokenTransforms
          PROVE  out = NormalizeMessage(c.raw, RemoveAt(c.scripts, i))
      <4> DEFINE norm == Normalize(Stamped(c.raw))
      <4>1. IsObservation(norm)
        BY <3>2, NormalizedObservation
      <4> HIDE DEF norm
      <4>2. Transform(c.scripts, norm) = Transform(RemoveAt(c.scripts, i), norm)
        BY <3>2, <3>3, <4>1, TransformWithout, Zenon
      <4> QED
        BY <3>1, <4>2, Zenon DEF NormalizeMessage, norm
    <3>4. ASSUME out.status = "ok"
          PROVE  Valid(out.o) /\ out.o.ident = c.raw.ident /\ c.raw.received \in {"", out.o.received}
                 /\ out.o.received \in {"now", c.raw.received}
      <4>1. NormalizeMessage(c.raw, c.scripts).status = "ok"
        BY <3>1, <3>4, Zenon
      <4> QED
        BY <3>1, <3>2, <4>1, PublishedIsReceived, Zenon
    <3> QED
      BY <3>3, <3>4, Zenon
  <2>2. ASSUME case.part = "enrich"
        PROVE  /\ \A i \in DOMAIN c.scripts : c.scripts[i].does \in BrokenEnrichers =>
                      out = Enrich(c.o, c.dev, RemoveAt(c.scripts, i))
               /\ out.status = "ok" => [out.o EXCEPT !.metadata = c.o.metadata] = c.o
    <3>1. c \in EnrichCases /\ out = Enrich(c.o, c.dev, c.scripts)
      BY <2>2, Zenon DEF CaseIsCall, EnrichCase
    <3>2. IsObservation(c.o) /\ AreScripts(c.scripts)
      BY <3>1, AlgorithmsAssumption, Zenon
    <3> HIDE DEF c, out
    <3>3. ASSUME NEW i \in DOMAIN c.scripts, c.scripts[i].does \in BrokenEnrichers
          PROVE  out = Enrich(c.o, c.dev, RemoveAt(c.scripts, i))
      <4> DEFINE x == [c.o EXCEPT !.metadata = c.o.metadata \cup c.dev.context]
      <4>1. IsObservation(x)
        BY <3>2, ChangedFields, Zenon
      <4> HIDE DEF x
      <4>2. EnrichFrom(Going(x), c.scripts) = EnrichFrom(Going(x), RemoveAt(c.scripts, i))
        BY <3>2, <3>3, <4>1, EnrichWithout, Zenon
      <4> QED
        BY <3>1, <4>2, Zenon DEF Enrich, EnrichFrom, x
    <3>4. ASSUME out.status = "ok" PROVE [out.o EXCEPT !.metadata = c.o.metadata] = c.o
      <4>1. Enrich(c.o, c.dev, c.scripts).status = "ok"
        BY <3>1, <3>4, Zenon
      <4>2. SameButMetadata(out.o, c.o)
        BY <3>1, <3>2, <4>1, EnrichedIsObserved, Zenon
      <4> QED
        BY <4>2, Zenon DEF SameButMetadata
    <3> QED
      BY <3>3, <3>4, Zenon
  <2> QED
    BY <2>1, <2>2, Zenon DEF ScriptsAreContained
<1> QED
  BY <1>1, CallsAreCases, PTL

-----------------------------------------------------------------------------
(* Integrations.                                                           *)

LEMMA AppendRange ==
    ASSUME NEW W, NEW q \in Seq(W), NEW x \in W
    PROVE  ToSet(Append(q, x)) = ToSet(q) \cup {x}
<1> DEFINE p == Append(q, x)
           n == Len(q)
<1>1. n \in Nat /\ DOMAIN q = 1..n /\ DOMAIN p = (1..n) \cup {n + 1} /\ p[n + 1] = x
  <2>1. n \in Nat /\ DOMAIN q = 1..n /\ DOMAIN p = 1..(n + 1) /\ p[n + 1] = x
    OBVIOUS
  <2>2. 1..(n + 1) = (1..n) \cup {n + 1}
    BY <2>1
  <2> QED
    BY <2>1, <2>2, Zenon
<1>2. \A j \in 1..n : p[j] = q[j]
  OBVIOUS
<1> HIDE DEF p, n
<1>3. \A e : e \in ToSet(p) <=> e \in ToSet(q) \cup {x}
  BY <1>1, <1>2, Zenon DEF ToSet
<1> QED
  BY <1>3, Zenon DEF p

LEMMA InOwnRange ==
    ASSUME NEW W, NEW q \in Seq(W)
    PROVE  q \in Seq(ToSet(q))
<1>1. Len(q) \in Nat /\ q = [j \in 1..Len(q) |-> q[j]] /\ DOMAIN q = 1..Len(q)
  OBVIOUS
<1>2. \A j \in 1..Len(q) : q[j] \in ToSet(q)
  BY <1>1, Zenon DEF ToSet
<1> DEFINE S == ToSet(q)
<1> HIDE DEF S
<1>3. \A j \in 1..Len(q) : q[j] \in S
  BY <1>2, Zenon DEF S
<1>4. q \in Seq(S)
  BY <1>1, <1>3
<1> QED
  BY <1>4, Zenon DEF S

Functions3 == {"emit", "metric", "http"}

\* What a run of a script carries from call to call.
IsRun(c, W) ==
    /\ c = [used |-> c.used, emitted |-> c.emitted, sent |-> c.sent, thrown |-> c.thrown]
    /\ c.used \in [Functions3 -> Nat] /\ c.emitted \in Seq(W) /\ c.thrown \in BOOLEAN

IsHostCall(call) ==
    call.fn \in Functions3 /\ call.arg \in {"good", "refused", "malformed"} /\ call.caught \in BOOLEAN

LEMMA BudgetOf == \A fn \in Functions3 : Budget[fn] \in Nat
  BY IntegrationsAssumption DEF Budget, Functions3

Full(c, call) == c.used[call.fn] >= Budget[call.fn]

\* One call of the host: what it spends, notes, sends and throws.
CallDone(c, call, up, next) ==
    LET fails == call.arg # "good" \/ (call.fn = "http" /\ ~up) \/ Full(c, call)
    IN  /\ next.thrown <=> fails /\ ~call.caught
        /\ \A fn \in Functions3 : next.used[fn] = IF fn = call.fn /\ ~Full(c, call) /\ Counts(call)
                                                  THEN c.used[fn] + 1 ELSE c.used[fn]
        /\ next.emitted = IF call.fn = "emit" /\ ~fails THEN Append(c.emitted, call.what) ELSE c.emitted
        /\ next.sent = IF call.fn = "http" /\ call.arg = "good" /\ ~Full(c, call)
                       THEN c.sent \cup {call.what} ELSE c.sent

LEMMA ThrowDoes ==
    ASSUME NEW W, NEW c, IsRun(c, W), NEW call, IsHostCall(call)
    PROVE  LET next == Throw(c, call)
           IN  /\ IsRun(next, W) /\ next.used = c.used /\ next.emitted = c.emitted /\ next.sent = c.sent
               /\ (next.thrown <=> ~call.caught)
<1> DEFINE next == Throw(c, call)
<1>1. next = [used |-> c.used, emitted |-> c.emitted, sent |-> c.sent, thrown |-> ~call.caught]
  <2>1. \A t : [c EXCEPT !.thrown = t] = [used |-> c.used, emitted |-> c.emitted, sent |-> c.sent, thrown |-> t]
    BY DEF IsRun
  <2> QED
    BY <2>1, Zenon DEF Throw
<1> HIDE DEF next
<1>2. next.used = c.used /\ next.emitted = c.emitted /\ next.sent = c.sent
  BY <1>1
<1>3. next.thrown = ~call.caught
  BY <1>1, Zenon
<1>4. next.thrown \in BOOLEAN
  BY <1>3, Zenon
<1>5. next = [used |-> next.used, emitted |-> next.emitted, sent |-> next.sent, thrown |-> next.thrown]
  BY <1>1, <1>2, <1>3, Zenon
<1>6. IsRun(next, W)
  BY <1>2, <1>4, <1>5, Zenon DEF IsRun
<1> QED
  BY <1>2, <1>3, <1>6, Zenon DEF next

LEMMA SpendDoes ==
    ASSUME NEW W, NEW c, IsRun(c, W), NEW call, IsHostCall(call)
    PROVE  LET next == Spend(c, call)
           IN  /\ IsRun(next, W) /\ next.emitted = c.emitted /\ next.sent = c.sent /\ next.thrown = c.thrown
               /\ \A fn \in Functions3 : next.used[fn] = IF fn = call.fn THEN c.used[fn] + 1 ELSE c.used[fn]
<1> DEFINE next == Spend(c, call)
           u    == [c.used EXCEPT ![call.fn] = c.used[call.fn] + 1]
<1>1. next = [used |-> u, emitted |-> c.emitted, sent |-> c.sent, thrown |-> c.thrown]
  <2>1. \A t : [c EXCEPT !.used = t] = [used |-> t, emitted |-> c.emitted, sent |-> c.sent, thrown |-> c.thrown]
    BY DEF IsRun
  <2>2. next = [c EXCEPT !.used = u]
    BY DEF Spend, IsRun
  <2> HIDE DEF u
  <2> QED
    BY <2>1, <2>2
<1>2. u \in [Functions3 -> Nat] /\ \A fn \in Functions3 : u[fn] = IF fn = call.fn THEN c.used[fn] + 1 ELSE c.used[fn]
  BY DEF IsRun, IsHostCall
<1> HIDE DEF next, u
<1>3. next.used = u /\ next.emitted = c.emitted /\ next.sent = c.sent /\ next.thrown = c.thrown
  BY <1>1, Zenon
<1>4. IsRun(next, W)
  BY <1>1, <1>2, <1>3, Zenon DEF IsRun
<1> QED
  BY <1>2, <1>3, <1>4, Zenon DEF next

LEMMA HostCallDoes ==
    ASSUME NEW W, NEW c, IsRun(c, W), NEW call, IsHostCall(call), call.what \in W, NEW up \in BOOLEAN, ~c.thrown
    PROVE  IsRun(HostCall(c, call, up), W) /\ CallDone(c, call, up, HostCall(c, call, up))
<1> DEFINE next == HostCall(c, call, up)
           sp   == Spend(c, call)
           full == Full(c, call)
<1>a. /\ Asked(c, call) <=> ~full /\ call.arg # "malformed"
      /\ Accepted(c, call) <=> ~full /\ call.arg = "good"
      /\ Counts(call) <=> call.arg = "good" \/ (call.fn = "http" /\ call.arg = "refused")
  <2>1. c.used[call.fn] \in Nat /\ Budget[call.fn] \in Nat
    BY BudgetOf DEF IsRun, IsHostCall
  <2>2. c.used[call.fn] < Budget[call.fn] <=> ~full
    BY <2>1 DEF Full
  <2>3. call.arg = "good" => call.arg # "malformed"
    OBVIOUS
  <2> QED
    BY <2>2, <2>3, Zenon DEF Asked, Accepted, Counts
<1>b. call.fn \in Functions3 /\ call.arg \in {"good", "refused", "malformed"} /\ c.thrown = FALSE
  BY DEF IsHostCall, IsRun
<1>s. /\ IsRun(sp, W) /\ sp.emitted = c.emitted /\ sp.sent = c.sent /\ sp.thrown = FALSE
      /\ \A fn \in Functions3 : sp.used[fn] = IF fn = call.fn THEN c.used[fn] + 1 ELSE c.used[fn]
  BY <1>b, SpendDoes, ZenonT(40)
<1>t. LET t == Throw(c, call)
      IN  /\ IsRun(t, W) /\ t.used = c.used /\ t.emitted = c.emitted /\ t.sent = c.sent /\ (t.thrown <=> ~call.caught)
  BY ThrowDoes, Zenon
<1>1. CASE call.fn = "emit"
  <2>0. next = EmitEvent(c, call) /\ (Counts(call) <=> call.arg = "good")
    BY <1>1, <1>a DEF HostCall
  <2>1. CASE Accepted(c, call)
    <3> DEFINE e == Append(sp.emitted, call.what)
    <3>1. next = [sp EXCEPT !.emitted = e]
      BY <2>0, <2>1, Zenon DEF EmitEvent
    <3> HIDE DEF next, sp
    <3>2. next = [used |-> sp.used, emitted |-> e, sent |-> sp.sent, thrown |-> sp.thrown]
      BY <1>s, <3>1 DEF IsRun
    <3>3. e \in Seq(W)
      BY <1>s DEF IsRun
    <3> HIDE DEF e
    <3>4. next.used = sp.used /\ next.emitted = e /\ next.sent = sp.sent /\ next.thrown = sp.thrown
      BY <3>2, Zenon
    <3>5. IsRun(next, W)
      BY <1>s, <3>2, <3>3, <3>4, Zenon DEF IsRun
    <3>6. CallDone(c, call, up, next)
      BY <1>1, <1>a, <1>s, <2>1, <2>0, <3>4 DEF CallDone, e
    <3> QED
      BY <3>5, <3>6 DEF next
  <2>2. CASE ~Accepted(c, call)
    <3>1. next = Throw(c, call)
      BY <2>0, <2>2, Zenon DEF EmitEvent
    <3> HIDE DEF next
    <3>2. CallDone(c, call, up, next)
      BY <1>1, <1>a, <1>t, <2>2, <2>0, <3>1 DEF CallDone
    <3> QED
      BY <1>t, <3>1, <3>2 DEF next
  <2> QED
    BY <2>1, <2>2, Zenon
<1>2. CASE call.fn = "metric"
  <2>0. next = EmitMetric(c, call) /\ (Counts(call) <=> call.arg = "good")
    BY <1>2, <1>a DEF HostCall
  <2>1. CASE Accepted(c, call)
    <3>1. next = sp
      BY <2>0, <2>1, Zenon DEF EmitMetric
    <3> HIDE DEF next, sp
    <3>2. CallDone(c, call, up, next)
      BY <1>2, <1>a, <1>s, <2>1, <2>0, <3>1 DEF CallDone
    <3> QED
      BY <1>s, <3>1, <3>2 DEF next
  <2>2. CASE ~Accepted(c, call)
    <3>1. next = Throw(c, call)
      BY <2>0, <2>2, Zenon DEF EmitMetric
    <3> HIDE DEF next
    <3>2. CallDone(c, call, up, next)
      BY <1>2, <1>a, <1>t, <2>2, <2>0, <3>1 DEF CallDone
    <3> QED
      BY <1>t, <3>1, <3>2 DEF next
  <2> QED
    BY <2>1, <2>2, Zenon
<1>3. CASE call.fn = "http"
  <2> DEFINE spent == IF Asked(c, call) THEN sp ELSE c
             left  == IF Accepted(c, call) THEN [spent EXCEPT !.sent = spent.sent \cup {call.what}] ELSE spent
  <2>0. next = IF Accepted(c, call) /\ up THEN left ELSE Throw(left, call)
    <3>1. next = HttpRequest(c, call, up)
      BY <1>3 DEF HostCall
    <3> QED
      BY <3>1, Zenon DEF HttpRequest
  <2>1. /\ IsRun(spent, W) /\ spent.emitted = c.emitted /\ spent.sent = c.sent /\ spent.thrown = FALSE
        /\ \A fn \in Functions3 : spent.used[fn] = IF fn = call.fn /\ ~full /\ Counts(call)
                                                   THEN c.used[fn] + 1 ELSE c.used[fn]
    <3>1. CASE Asked(c, call)
      <4>1. spent = sp /\ ~full /\ Counts(call)
        BY <1>3, <1>a, <1>b, <3>1
      <4> HIDE DEF spent, sp
      <4> QED
        BY <1>s, <4>1
    <3>2. CASE ~Asked(c, call)
      <4>1. spent = c /\ ~(~full /\ Counts(call))
        BY <1>a, <1>b, <3>2
      <4> HIDE DEF spent, sp
      <4> QED
        BY <1>b, <4>1, Zenon
    <3> QED
      BY <3>1, <3>2, Zenon
  <2> HIDE DEF spent
  <2>2. /\ IsRun(left, W) /\ left.emitted = c.emitted /\ left.used = spent.used /\ left.thrown = FALSE
        /\ left.sent = IF call.arg = "good" /\ ~full THEN c.sent \cup {call.what} ELSE c.sent
    <3>1. CASE Accepted(c, call)
      <4> DEFINE x == spent.sent \cup {call.what}
      <4>1. left = [spent EXCEPT !.sent = x]
        BY <3>1, Zenon
      <4> HIDE DEF left, x
      <4>2. left = [used |-> spent.used, emitted |-> spent.emitted, sent |-> x, thrown |-> spent.thrown]
        BY <2>1, <4>1 DEF IsRun
      <4>3. left.used = spent.used /\ left.emitted = spent.emitted /\ left.sent = x /\ left.thrown = spent.thrown
        BY <4>2, Zenon
      <4>4. IsRun(left, W)
        BY <2>1, <4>2, <4>3, Zenon DEF IsRun
      <4> QED
        BY <1>a, <2>1, <3>1, <4>3, <4>4, Zenon DEF x
    <3>2. CASE ~Accepted(c, call)
      <4>1. left = spent /\ ~(call.arg = "good" /\ ~full)
        BY <1>a, <3>2, Zenon
      <4> HIDE DEF left
      <4> QED
        BY <2>1, <4>1, Zenon
    <3> QED
      BY <3>1, <3>2, Zenon
  <2> HIDE DEF left, next
  <2>3. CASE Accepted(c, call) /\ up
    <3>1. next = left
      BY <2>0, <2>3, Zenon
    <3>2. CallDone(c, call, up, next)
      BY <1>3, <1>a, <2>1, <2>2, <2>3, <3>1 DEF CallDone
    <3> QED
      BY <2>2, <3>1, <3>2 DEF next
  <2>4. CASE ~(Accepted(c, call) /\ up)
    <3>1. next = Throw(left, call)
      BY <2>0, <2>4, Zenon
    <3>2. /\ IsRun(next, W) /\ next.used = left.used /\ next.emitted = left.emitted /\ next.sent = left.sent
          /\ (next.thrown <=> ~call.caught)
      <4> DEFINE t == Throw(left, call)
      <4>1. IsRun(t, W) /\ t.used = left.used /\ t.emitted = left.emitted /\ t.sent = left.sent /\ (t.thrown <=> ~call.caught)
        BY <2>2, ThrowDoes, Zenon
      <4> HIDE DEF t
      <4> QED
        BY <3>1, <4>1 DEF t
    <3>3. CallDone(c, call, up, next)
      BY <1>3, <1>a, <2>1, <2>2, <2>4, <3>2 DEF CallDone
    <3> QED
      BY <3>2, <3>3 DEF next
  <2> QED
    BY <2>3, <2>4, Zenon
<1> QED
  BY <1>1, <1>2, <1>3, <1>b DEF Functions3

\* How often a function was asked for in the first k calls of a script.
Counted(s, k, fn) == { j \in 1..k : s.does[j].fn = fn /\ Counts(s.does[j]) }

LEMMA CountedStep ==
    ASSUME NEW s, NEW k \in Nat, NEW fn
    PROVE  /\ Cardinality(Counted(s, k, fn)) \in Nat
           /\ Cardinality(Counted(s, 0, fn)) = 0
           /\ Cardinality(Counted(s, k + 1, fn)) =
                  IF s.does[k + 1].fn = fn /\ Counts(s.does[k + 1])
                  THEN Cardinality(Counted(s, k, fn)) + 1 ELSE Cardinality(Counted(s, k, fn))
<1> DEFINE A == Counted(s, k, fn)
           B == Counted(s, k + 1, fn)
           hit == s.does[k + 1].fn = fn /\ Counts(s.does[k + 1])
<1>1. IsFiniteSet(A)
  <2>1. IsFiniteSet(1..k)
    BY FS_Interval
  <2>2. A \in SUBSET (1..k)
    BY Zenon DEF Counted
  <2> QED
    BY <2>1, <2>2, FS_Subset, Zenon
<1>2. Counted(s, 0, fn) = {}
  BY DEF Counted
<1>3. k + 1 \notin A
  <2>1. k + 1 \notin 1..k
    OBVIOUS
  <2> QED
    BY <2>1, Zenon DEF Counted
<1>4. B = IF hit THEN A \cup {k + 1} ELSE A
  <2>1. 1..(k + 1) = (1..k) \cup {k + 1}
    OBVIOUS
  <2> HIDE DEF A
  <2>2. CASE hit
    <3>1. \A j : j \in B <=> j \in A \cup {k + 1}
      BY <2>1, <2>2, Zenon DEF A, Counted
    <3>2. B = A \cup {k + 1}
      <4> HIDE DEF B
      <4> QED
        BY <3>1, Zenon
    <3> QED
      BY <2>2, <3>2, Zenon
  <2>3. CASE ~hit
    <3>1. \A j : j \in B <=> j \in A
      BY <2>1, <2>3, Zenon DEF A, Counted
    <3>2. B = A
      <4> HIDE DEF B
      <4> QED
        BY <3>1, Zenon
    <3> QED
      BY <2>3, <3>2, Zenon
  <2> QED
    BY <2>2, <2>3, Zenon
<1> HIDE DEF A, B, hit
<1>5. Cardinality(A) \in Nat
  BY <1>1, FS_CardinalityType
<1>6. hit => Cardinality(B) = Cardinality(A) + 1
  BY <1>1, <1>3, <1>4, FS_AddElement, Zenon
<1>7. ~hit => Cardinality(B) = Cardinality(A)
  BY <1>4, Zenon
<1>8. Cardinality(Counted(s, 0, fn)) = 0
  BY <1>2, FS_EmptySet, Zenon
<1> QED
  BY <1>5, <1>6, <1>7, <1>8, Zenon DEF A, B, hit

\* The state of a run after the first k calls of a script: it has ended exactly
\* if one of them threw what nobody caught; until then the budgets are spent as
\* often as they were asked for, and what was noted is what was asked for
\* without an exception; what was to be sent before the end was sent.
EmitsAt(s, j, up) == s.does[j].fn = "emit" /\ ~Throws(s, j, up)
SendsAt(s, j, up) ==
    s.does[j].fn = "http" /\ ~Throws(s, j, TRUE) /\ \A k \in 1..(j - 1) : ~Uncaught(s, k, up)
SpentBy(s, k, fn) ==
    IF Cardinality(Counted(s, k, fn)) < Budget[fn] THEN Cardinality(Counted(s, k, fn)) ELSE Budget[fn]

RunsTo(s, k, up, c, W) ==
    /\ IsRun(c, W)
    /\ c.thrown <=> \E j \in 1..k : Uncaught(s, j, up)
    /\ ~c.thrown => \A fn \in Functions3 : c.used[fn] = SpentBy(s, k, fn)
    /\ ~c.thrown => \A e : e \in ToSet(c.emitted) <=> \E j \in 1..k : EmitsAt(s, j, up) /\ s.does[j].what = e
    /\ \A j \in 1..k : SendsAt(s, j, up) => s.does[j].what \in c.sent

LEMMA RunStarts ==
    ASSUME NEW s, NEW up, NEW W
    PROVE  RunsTo(s, 0, up, NewCall, W)
<1> DEFINE c == NewCall
           u == [emit |-> 0, metric |-> 0, http |-> 0]
<1>1. c.used = u /\ c.emitted = <<>> /\ c.sent = {} /\ c.thrown = FALSE
  BY Zenon DEF NewCall
<1>2. u \in [Functions3 -> Nat] /\ \A fn \in Functions3 : u[fn] = 0
  BY DEF Functions3
<1>3. IsRun(c, W)
  <2>1. <<>> \in Seq(W)
    OBVIOUS
  <2>2. c = [used |-> c.used, emitted |-> c.emitted, sent |-> c.sent, thrown |-> c.thrown]
    BY <1>1, Zenon DEF NewCall
  <2> QED
    BY <1>1, <1>2, <2>1, <2>2, Zenon DEF IsRun
<1>4. 1..0 = {}
  OBVIOUS
<1>5. \A fn \in Functions3 : SpentBy(s, 0, fn) = 0
  <2>1. \A fn : Cardinality(Counted(s, 0, fn)) = 0
    <3>1. 0 \in Nat
      OBVIOUS
    <3> QED
      BY <3>1, CountedStep, Zenon
  <2> TAKE fn \in Functions3
  <2> DEFINE n == Cardinality(Counted(s, 0, fn))
  <2>2. SpentBy(s, 0, fn) = IF n < Budget[fn] THEN n ELSE Budget[fn]
    BY Zenon DEF SpentBy
  <2>3. n = 0 /\ Budget[fn] \in Nat
    BY <2>1, BudgetOf, Zenon
  <2> HIDE DEF n
  <2> QED
    BY <2>2, <2>3
<1>6. ToSet(c.emitted) = {}
  BY <1>1 DEF ToSet
<1> HIDE DEF c, u
<1> QED
  BY <1>1, <1>2, <1>3, <1>4, <1>5, <1>6, Zenon DEF RunsTo, c

LEMMA RunStep ==
    ASSUME NEW s, NEW k \in Nat, NEW up \in BOOLEAN, NEW W, NEW c, RunsTo(s, k, up, c, W),
           IsHostCall(s.does[k + 1]), s.does[k + 1].what \in W
    PROVE  RunsTo(s, k + 1, up, HostCall(c, s.does[k + 1], up), W)
<1> DEFINE call == s.does[k + 1]
           next == HostCall(c, call, up)
           i    == k + 1
           N(fn) == Cardinality(Counted(s, k, fn))
<1>0. /\ IsRun(c, W)
      /\ c.thrown <=> \E j \in 1..k : Uncaught(s, j, up)
      /\ ~c.thrown => \A fn \in Functions3 : c.used[fn] = SpentBy(s, k, fn)
      /\ ~c.thrown => \A e : e \in ToSet(c.emitted) <=> \E j \in 1..k : EmitsAt(s, j, up) /\ s.does[j].what = e
      /\ \A j \in 1..k : SendsAt(s, j, up) => s.does[j].what \in c.sent
  BY Zenon DEF RunsTo
<1>1. 1..(k + 1) = (1..k) \cup {k + 1} /\ (k + 1) - 1 = k
  OBVIOUS
<1>2. CASE c.thrown
  <2>1. next = c
    BY <1>2, Zenon DEF HostCall
  <2>2. PICK j \in 1..k : Uncaught(s, j, up)
    BY <1>0, <1>2, Zenon
  <2>3. ~SendsAt(s, k + 1, up)
    <3>1. j \in 1..((k + 1) - 1)
      BY <1>1, Zenon
    <3> QED
      BY <2>2, <3>1, Zenon DEF SendsAt
  <2>4. \E x \in 1..(k + 1) : Uncaught(s, x, up)
    BY <1>1, <2>2, Zenon
  <2>5. \A x \in 1..(k + 1) : SendsAt(s, x, up) => s.does[x].what \in c.sent
    BY <1>0, <1>1, <2>3, Zenon
  <2>6. RunsTo(s, k + 1, up, c, W)
    BY <1>0, <1>2, <2>4, <2>5, Zenon DEF RunsTo
  <2> QED
    BY <2>1, <2>6, Zenon
<1>3. CASE ~c.thrown
  <2>0. IsRun(next, W) /\ CallDone(c, call, up, next)
    <3>1. IsRun(c, W) /\ IsHostCall(call) /\ call.what \in W /\ ~c.thrown
      BY <1>0, <1>3, Zenon
    <3> HIDE DEF call
    <3> QED
      BY <3>1, HostCallDoes
  <2>f. call.fn \in Functions3
    BY Zenon DEF IsHostCall
  <2>n. \A fn \in Functions3 : N(fn) \in Nat /\ Budget[fn] \in Nat /\ c.used[fn] = IF N(fn) < Budget[fn] THEN N(fn) ELSE Budget[fn]
    <3> TAKE fn \in Functions3
    <3>1. N(fn) \in Nat
      BY CountedStep, Zenon
    <3>2. c.used[fn] = SpentBy(s, k, fn)
      BY <1>0, <1>3, Zenon
    <3> QED
      BY <3>1, <3>2, BudgetOf, Zenon DEF SpentBy
  <2>1. Full(c, call) <=> N(call.fn) >= Budget[call.fn]
    <3> HIDE DEF N
    <3> QED
      BY <2>f, <2>n DEF Full
  <2>2. \A u \in BOOLEAN : Throws(s, i, u) <=> call.arg # "good" \/ (call.fn = "http" /\ ~u) \/ Full(c, call)
    <3>1. Counted(s, k, call.fn) = { j \in 1..(i - 1) : s.does[j].fn = s.does[i].fn /\ Counts(s.does[j]) }
      BY <1>1, Zenon DEF Counted
    <3> QED
      BY <2>1, <3>1, Zenon DEF Throws
  <2>3. Uncaught(s, i, up) <=> (call.arg # "good" \/ (call.fn = "http" /\ ~up) \/ Full(c, call)) /\ ~call.caught
    BY <2>2, Zenon DEF Uncaught
  <2>4. next.thrown <=> \E j \in 1..(k + 1) : Uncaught(s, j, up)
    <3>1. next.thrown <=> Uncaught(s, i, up)
      BY <2>0, <2>3, Zenon DEF CallDone
    <3> QED
      BY <1>0, <1>1, <1>3, <3>1, Zenon
  <2>5. \A fn \in Functions3 : next.used[fn] = SpentBy(s, k + 1, fn)
    <3> TAKE fn \in Functions3
    <3> DEFINE hit == call.fn = fn /\ Counts(call)
               m   == Cardinality(Counted(s, k + 1, fn))
               n   == N(fn)
               b   == Budget[fn]
    <3>1. m = IF hit THEN n + 1 ELSE n
      BY CountedStep, Zenon
    <3>2. next.used[fn] = IF fn = call.fn /\ ~Full(c, call) /\ Counts(call) THEN c.used[fn] + 1 ELSE c.used[fn]
      BY <2>0, Zenon DEF CallDone
    <3>3. SpentBy(s, k + 1, fn) = IF m < b THEN m ELSE b
      BY Zenon DEF SpentBy
    <3>4. n \in Nat /\ b \in Nat /\ c.used[fn] = IF n < b THEN n ELSE b
      BY <2>n, Zenon
    <3>5. fn = call.fn => (Full(c, call) <=> n >= b)
      BY <2>1, Zenon
    <3> HIDE DEF n, m, b, call, next
    <3> QED
      BY <3>1, <3>2, <3>3, <3>4, <3>5
  <2>6. \A e : e \in ToSet(next.emitted) <=> \E j \in 1..(k + 1) : EmitsAt(s, j, up) /\ s.does[j].what = e
    <3>1. EmitsAt(s, i, up) <=> call.fn = "emit" /\ ~(call.arg # "good" \/ (call.fn = "http" /\ ~up) \/ Full(c, call))
      BY <2>2, Zenon DEF EmitsAt
    <3>2. next.emitted = IF EmitsAt(s, i, up) THEN Append(c.emitted, call.what) ELSE c.emitted
      BY <2>0, <3>1, Zenon DEF CallDone
    <3>3. c.emitted \in Seq(W)
      BY <1>0 DEF IsRun
    <3>4. ToSet(Append(c.emitted, call.what)) = ToSet(c.emitted) \cup {call.what}
      <4> DEFINE q == c.emitted
                 x == call.what
      <4>1. x \in W /\ q \in Seq(W)
        BY <3>3, Zenon
      <4> HIDE DEF q, x
      <4>2. ToSet(Append(q, x)) = ToSet(q) \cup {x}
        BY <4>1, AppendRange
      <4> QED
        BY <4>2, Zenon DEF q, x
    <3>5. \A e : e \in ToSet(next.emitted) <=> e \in ToSet(c.emitted) \/ (EmitsAt(s, i, up) /\ e = call.what)
      <4> HIDE DEF next, call
      <4>1. CASE EmitsAt(s, i, up)
        <5>1. ToSet(next.emitted) = ToSet(c.emitted) \cup {call.what}
          BY <3>2, <3>4, <4>1, Zenon
        <5> QED
          BY <4>1, <5>1, Zenon
      <4>2. CASE ~EmitsAt(s, i, up)
        BY <3>2, <4>2, Zenon
      <4> QED
        BY <4>1, <4>2, Zenon
    <3> QED
      BY <1>0, <1>1, <1>3, <3>5, Zenon
  <2>7. \A j \in 1..(k + 1) : SendsAt(s, j, up) => s.does[j].what \in next.sent
    <3>1. SendsAt(s, i, up) => call.fn = "http" /\ call.arg = "good" /\ ~Full(c, call)
      BY <2>2, Zenon DEF SendsAt
    <3>2. SendsAt(s, i, up) => call.what \in next.sent
      BY <2>0, <3>1, Zenon DEF CallDone
    <3>3. c.sent \subseteq next.sent
      BY <2>0, Zenon DEF CallDone
    <3> QED
      BY <1>0, <1>1, <3>2, <3>3, Zenon
  <2> QED
    BY <2>0, <2>4, <2>5, <2>6, <2>7, Zenon DEF RunsTo
<1> QED
  BY <1>2, <1>3, Zenon

LEMMA ScriptRuns ==
    ASSUME NEW s, IsIntegration(s), NEW up \in BOOLEAN
    PROVE  /\ Len(s.does) \in Nat /\ DOMAIN s.does = 1..Len(s.does)
           /\ \E W : RunsTo(s, Len(s.does), up, RunScript(s.does, up), W)
<1> DEFINE q == s.does
           n == Len(q)
           W == { s.does[j].what : j \in DOMAIN q }
<1>0. n \in Nat /\ DOMAIN q = 1..n /\ \A j \in 1..n : IsHostCall(q[j]) /\ q[j].what \in W
  <2>1. q \in Seq(ToSet(q)) /\ \A j \in DOMAIN q : IsHostCall(q[j])
    BY Zenon DEF IsIntegration, IsHostCall, Functions3
  <2>2. n \in Nat /\ DOMAIN q = 1..n
    BY <2>1
  <2>3. \A j \in DOMAIN q : q[j].what \in W
    BY Zenon
  <2> QED
    BY <2>1, <2>2, <2>3, Zenon
<1> HIDE DEF n, W
<1>1. PICK g : /\ g[0] = NewCall
               /\ \A k \in 1..n : g[k] = HostCall(g[k - 1], q[k], up)
               /\ CallsFrom(NewCall, q, up) = g[n]
  <2> HIDE DEF q
  <2>1. n \in Nat /\ DOMAIN q = 1..n
    BY <1>0, Zenon
  <2>2. Calls(NewCall, q, n, up)
    BY <2>1, CallsFold
  <2> QED
    BY <2>2, Zenon DEF Calls
<1> DEFINE S == { k \in Nat : RunsTo(s, k, up, g[k], W) }
<1>2. 0 \in S
  <2>1. RunsTo(s, 0, up, g[0], W)
    BY <1>1, RunStarts, Zenon
  <2>2. 0 \in Nat
    OBVIOUS
  <2> QED
    BY <2>1, <2>2, Zenon
<1>3. ASSUME NEW k \in Nat, k < n, k \in S PROVE k + 1 \in S
  <2>1. k + 1 \in 1..n /\ (k + 1) - 1 = k /\ k + 1 \in Nat
    BY <1>0, <1>3
  <2>2. g[k + 1] = HostCall(g[k], q[k + 1], up)
    BY <1>1, <2>1, Zenon
  <2>3. IsHostCall(s.does[k + 1]) /\ s.does[k + 1].what \in W /\ RunsTo(s, k, up, g[k], W)
    BY <1>0, <1>3, <2>1, Zenon
  <2>4. RunsTo(s, k + 1, up, HostCall(g[k], s.does[k + 1], up), W)
    BY <2>3, RunStep, Zenon
  <2> QED
    BY <2>1, <2>2, <2>4, Zenon
<1> HIDE DEF S
<1>4. \A k \in 0..n : k \in S
  BY <1>0, <1>2, <1>3, Induction, Zenon
<1>5. n \in 0..n
  BY <1>0
<1>6. RunsTo(s, n, up, g[n], W)
  BY <1>4, <1>5, Zenon DEF S
<1> QED
  BY <1>0, <1>1, <1>6, Zenon DEF RunScript, CallsFrom, n

\* What RunHandle gives back of a script: nothing but what the script emits when
\* nothing disturbs it, and all of it unless the platform failed.
Handled(r, s, up) ==
    /\ r.err \in {"", "script", "platform"}
    /\ r.emitted \in Seq(ToSet(r.emitted)) /\ ToSet(r.emitted) \subseteq EmittedBy(s, up)
    /\ r.err # "platform" => EmittedBy(s, up) \subseteq ToSet(r.emitted) /\ SentBy(s, up) \subseteq r.sent
    /\ r.err = "" => Behaves(s, up)

LEMMA NothingEmitted == <<>> \in Seq(ToSet(<<>>)) /\ ToSet(<<>>) = {}
  BY DEF ToSet

LEMMA ScriptIsHandled ==
    ASSUME NEW s, IsIntegration(s), NEW up \in BOOLEAN, NEW cut, NEW after
    PROVE  Handled(RunHandle(s, up, cut, after), s, up)
<1> DEFINE r == RunHandle(s, up, cut, after)
           n == Len(s.does)
           c == RunScript(s.does, up)
           d == RunScript(IF cut THEN SubSeq(s.does, 1, after) ELSE s.does, up)
<1>1. PICK W : RunsTo(s, n, up, c, W)
  BY ScriptRuns, Zenon
<1>2. n \in Nat /\ DOMAIN s.does = 1..n
  BY ScriptRuns, Zenon
<1>3. /\ IsRun(c, W)
      /\ c.thrown <=> \E j \in 1..n : Uncaught(s, j, up)
      /\ ~c.thrown => \A e : e \in ToSet(c.emitted) <=> \E j \in 1..n : EmitsAt(s, j, up) /\ s.does[j].what = e
      /\ \A j \in 1..n : SendsAt(s, j, up) => s.does[j].what \in c.sent
  BY <1>1, Zenon DEF RunsTo
<1>4. r = IF ~s.active THEN [err |-> "script", emitted |-> <<>>, sent |-> {}]
          ELSE IF cut THEN [err |-> "platform", emitted |-> <<>>, sent |-> d.sent]
          ELSE IF d.thrown \/ ~ReturnsResult(s) THEN [err |-> "script", emitted |-> <<>>, sent |-> d.sent]
          ELSE [err |-> "", emitted |-> d.emitted, sent |-> d.sent]
  BY Zenon DEF RunHandle
<1>5. ~cut => d = c
  BY Zenon
<1>6. \A a, b, x : LET y == [err |-> a, emitted |-> b, sent |-> x] IN y.err = a /\ y.emitted = b /\ y.sent = x
  OBVIOUS
<1>7. \A e : e \in EmittedBy(s, up) <=> Behaves(s, up) /\ \E j \in 1..n : EmitsAt(s, j, up) /\ s.does[j].what = e
  BY <1>2, Zenon DEF EmittedBy, EmitsAt
<1>8. \A e : e \in SentBy(s, up) <=> s.active /\ \E j \in 1..n : SendsAt(s, j, up) /\ s.does[j].what = e
  BY <1>2, Zenon DEF SentBy, SendsAt
<1>9. Behaves(s, up) <=> s.active /\ ReturnsResult(s) /\ ~c.thrown
  BY <1>2, <1>3, Zenon DEF Behaves
<1> HIDE DEF r, n, c, d
<1>s. s.active => SentBy(s, up) \subseteq c.sent
  <2> SUFFICES ASSUME NEW e \in SentBy(s, up) PROVE e \in c.sent
    BY Zenon
  <2>1. PICK j \in 1..n : SendsAt(s, j, up) /\ s.does[j].what = e
    BY <1>8, Zenon
  <2>2. s.does[j].what \in c.sent
    BY <1>3, <2>1, Zenon
  <2> QED
    BY <2>1, <2>2, Zenon
<1>10. CASE ~s.active
  <2>1. r.err = "script" /\ r.emitted = <<>> /\ r.sent = {}
    BY <1>4, <1>6, <1>10, Zenon
  <2>2. EmittedBy(s, up) = {} /\ SentBy(s, up) = {}
    BY <1>7, <1>8, <1>9, <1>10, Zenon
  <2>3. r.err \in {"", "script", "platform"} /\ r.err # ""
    BY <2>1
  <2> QED
    BY <2>1, <2>2, <2>3, NothingEmitted, Zenon DEF Handled, r
<1>11. CASE s.active /\ cut
  <2>1. r.err = "platform" /\ r.emitted = <<>>
    BY <1>4, <1>6, <1>11, Zenon
  <2>2. r.err \in {"", "script", "platform"} /\ r.err # ""
    BY <2>1
  <2> QED
    BY <2>1, <2>2, NothingEmitted, Zenon DEF Handled, r
<1>12. CASE s.active /\ ~cut /\ (d.thrown \/ ~ReturnsResult(s))
  <2>1. r.err = "script" /\ r.emitted = <<>> /\ r.sent = c.sent
    BY <1>4, <1>5, <1>6, <1>12, Zenon
  <2>2. EmittedBy(s, up) = {}
    BY <1>5, <1>7, <1>9, <1>12, Zenon
  <2>3. r.err \in {"", "script", "platform"} /\ r.err # ""
    BY <2>1
  <2> QED
    BY <1>s, <1>12, <2>1, <2>2, <2>3, NothingEmitted, Zenon DEF Handled, r
<1>13. CASE s.active /\ ~cut /\ ~(d.thrown \/ ~ReturnsResult(s))
  <2>1. r.err = "" /\ r.emitted = c.emitted /\ r.sent = c.sent
    BY <1>4, <1>5, <1>6, <1>13, Zenon
  <2>2. Behaves(s, up) /\ ~c.thrown
    BY <1>5, <1>9, <1>13, Zenon
  <2>3. \A e : e \in EmittedBy(s, up) <=> e \in ToSet(c.emitted)
    BY <1>3, <1>7, <2>2, Zenon
  <2>4. c.emitted \in Seq(ToSet(c.emitted))
    <3>1. c.emitted \in Seq(W)
      BY <1>3, Zenon DEF IsRun
    <3> DEFINE e == c.emitted
    <3> HIDE DEF e
    <3>2. e \in Seq(W)
      BY <3>1, Zenon DEF e
    <3>3. e \in Seq(ToSet(e))
      BY <3>2, InOwnRange
    <3> QED
      BY <3>3, Zenon DEF e
  <2>5. r.err \in {"", "script", "platform"}
    BY <2>1
  <2> QED
    BY <1>s, <1>13, <2>1, <2>2, <2>3, <2>4, <2>5, Zenon DEF Handled, r
<1> QED
  BY <1>10, <1>11, <1>12, <1>13, Zenon

LEMMA ConcatRange ==
    ASSUME NEW p, p \in Seq(ToSet(p)), NEW q, q \in Seq(ToSet(q))
    PROVE  p \o q \in Seq(ToSet(p \o q)) /\ ToSet(p \o q) = ToSet(p) \cup ToSet(q)
<1> DEFINE A == ToSet(p)
           B == ToSet(q)
           r == p \o q
           m == Len(p)
           n == Len(q)
<1>1. /\ m \in Nat /\ n \in Nat /\ DOMAIN p = 1..m /\ DOMAIN q = 1..n
      /\ r \in Seq(A \cup B) /\ DOMAIN r = 1..(m + n)
      /\ \A j \in 1..m : r[j] = p[j]
      /\ \A j \in 1..n : r[m + j] = q[j]
  <2> HIDE DEF A, B
  <2>1. p \in Seq(A) /\ q \in Seq(B)
    BY Zenon DEF A, B
  <2>2. p \in Seq(A \cup B) /\ q \in Seq(A \cup B)
    BY <2>1
  <2> QED
    BY <2>2
<1> HIDE DEF A, B, r, m, n
<1>2. \A j \in 1..(m + n) : j \in 1..m \/ \E k \in 1..n : j = m + k
  <2> TAKE j \in 1..(m + n)
  <2>1. j \notin 1..m => j - m \in 1..n /\ j = m + (j - m)
    BY <1>1
  <2> QED
    BY <2>1, Zenon
<1>3. \A j \in 1..m : j \in 1..(m + n)
  BY <1>1
<1>4. \A j \in 1..n : m + j \in 1..(m + n)
  BY <1>1
<1>5. ToSet(r) \subseteq A \cup B
  <2> SUFFICES ASSUME NEW j \in DOMAIN r PROVE r[j] \in A \cup B
    BY Zenon DEF ToSet
  <2> QED
    BY <1>1
<1>6. A \subseteq ToSet(r)
  BY <1>1, <1>3, Zenon DEF ToSet, A
<1>7. B \subseteq ToSet(r)
  BY <1>1, <1>4, Zenon DEF ToSet, B
<1>8. r \in Seq(ToSet(r))
  BY <1>1, InOwnRange
<1> QED
  BY <1>5, <1>6, <1>7, <1>8, Zenon DEF A, B, r

\* The ids of what a script emitted.
Ids(q, a, b) == [k \in DOMAIN q |-> <<a, q[k], b>>]

LEMMA IdsRange ==
    ASSUME NEW q, q \in Seq(ToSet(q)), NEW a, NEW b
    PROVE  /\ Ids(q, a, b) \in Seq(ToSet(Ids(q, a, b)))
           /\ \A x : x \in ToSet(Ids(q, a, b)) <=> \E e \in ToSet(q) : x = <<a, e, b>>
<1> DEFINE p == Ids(q, a, b)
           n == Len(q)
           W == ToSet(p)
<1>1. n \in Nat /\ DOMAIN q = 1..n
  BY Zenon, LenProperties
<1>2. DOMAIN p = 1..n /\ \A k \in 1..n : p[k] = <<a, q[k], b>>
  BY <1>1, Zenon DEF Ids
<1>3. \A x : x \in W <=> \E e \in ToSet(q) : x = <<a, e, b>>
  <2> HIDE DEF p, n
  <2> QED
    BY <1>1, <1>2, Zenon DEF ToSet
<1>4. p \in Seq(W)
  <2>1. p = [k \in 1..n |-> p[k]]
    BY <1>1, Zenon DEF Ids
  <2> HIDE DEF p, n
  <2>2. \A k \in 1..n : p[k] \in W
    BY <1>2, Zenon DEF ToSet
  <2> HIDE DEF W
  <2> QED
    BY <1>1, <2>1, <2>2
<1> QED
  BY <1>3, <1>4, Zenon

\* The state of HandleEvent after the first k scripts: everything that was
\* emitted belongs to a script that wants the event, and unless the platform
\* failed each of them emitted and sent all of its own.
VisitedTo(acc, k, ev, scripts, up) ==
    /\ acc.err \in {"", "platform"}
    /\ acc.emitted \in Seq(ToSet(acc.emitted))
    /\ \A x \in ToSet(acc.emitted) :
           \E i \in 1..k : /\ Interested(scripts[i], ev)
                           /\ \E e \in EmittedBy(scripts[i], up) : x = <<scripts[i].key, e, ev.id>>
    /\ acc.err = "" =>
           \A i \in 1..k : Interested(scripts[i], ev) =>
               /\ \A e \in EmittedBy(scripts[i], up) : <<scripts[i].key, e, ev.id>> \in ToSet(acc.emitted)
               /\ \A q \in SentBy(scripts[i], up) : <<scripts[i].key, ev.id, q>> \in acc.sent

LEMMA VisitStep ==
    ASSUME NEW scripts, NEW k \in Nat, NEW ev, NEW a, a.up \in BOOLEAN, NEW acc,
           VisitedTo(acc, k, ev, scripts, a.up), IsIntegration(scripts[k + 1])
    PROVE  VisitedTo(VisitScript(acc, k + 1, ev, scripts, a), k + 1, ev, scripts, a.up)
<1> DEFINE s    == scripts[k + 1]
           r    == RunHandle(s, a.up, a.at = k + 1, a.after)
           ids  == Ids(r.emitted, s.key, ev.id)
           next == VisitScript(acc, k + 1, ev, scripts, a)
<1>0. 1..(k + 1) = (1..k) \cup {k + 1}
  OBVIOUS
<1>1. next = IF acc.err # "" \/ ~Interested(s, ev) THEN acc
             ELSE [ err     |-> IF r.err = "platform" THEN "platform" ELSE "",
                    emitted |-> acc.emitted \o ids,
                    sent    |-> acc.sent \cup { <<s.key, ev.id, q>> : q \in r.sent } ]
  BY Zenon DEF VisitScript, Ids
<1>2. /\ acc.err \in {"", "platform"}
      /\ acc.emitted \in Seq(ToSet(acc.emitted))
      /\ \A x \in ToSet(acc.emitted) :
             \E i \in 1..k : /\ Interested(scripts[i], ev)
                             /\ \E e \in EmittedBy(scripts[i], a.up) : x = <<scripts[i].key, e, ev.id>>
      /\ acc.err = "" =>
             \A i \in 1..k : Interested(scripts[i], ev) =>
                 /\ \A e \in EmittedBy(scripts[i], a.up) : <<scripts[i].key, e, ev.id>> \in ToSet(acc.emitted)
                 /\ \A q \in SentBy(scripts[i], a.up) : <<scripts[i].key, ev.id, q>> \in acc.sent
  BY Zenon DEF VisitedTo
<1>3. CASE acc.err # "" \/ ~Interested(s, ev)
  <2>1. next = acc
    BY <1>1, <1>3, Zenon
  <2>2. VisitedTo(acc, k + 1, ev, scripts, a.up)
    BY <1>0, <1>2, <1>3, Zenon DEF VisitedTo
  <2> QED
    BY <2>1, <2>2, Zenon
<1>4. CASE acc.err = "" /\ Interested(s, ev)
  <2>1. Handled(r, s, a.up)
    BY ScriptIsHandled, Zenon
  <2> DEFINE E == IF r.err = "platform" THEN "platform" ELSE ""
             L == acc.emitted \o ids
             T == acc.sent \cup { <<s.key, ev.id, q>> : q \in r.sent }
  <2>2. next = [err |-> E, emitted |-> L, sent |-> T]
    BY <1>1, <1>4, Zenon
  <2> HIDE DEF next, E, L, T
  <2>3. next.err = E /\ next.emitted = L /\ next.sent = T
    BY <2>2
  <2>4. E \in {"", "platform"} /\ (E = "" <=> r.err # "platform")
    BY DEF E
  <2>5. /\ ids \in Seq(ToSet(ids)) /\ \A x : x \in ToSet(ids) <=> \E e \in ToSet(r.emitted) : x = <<s.key, e, ev.id>>
    <3>1. r.emitted \in Seq(ToSet(r.emitted))
      BY <2>1, Zenon DEF Handled
    <3> HIDE DEF r
    <3> QED
      BY <3>1, IdsRange
  <2> HIDE DEF ids, r
  <2>6. L \in Seq(ToSet(L)) /\ ToSet(L) = ToSet(acc.emitted) \cup ToSet(ids)
    BY <1>2, <2>5, ConcatRange, Zenon DEF L
  <2>7. \A x \in ToSet(L) :
            \E i \in 1..(k + 1) : /\ Interested(scripts[i], ev)
                                  /\ \E e \in EmittedBy(scripts[i], a.up) : x = <<scripts[i].key, e, ev.id>>
    <3> TAKE x \in ToSet(L)
    <3>1. CASE x \in ToSet(acc.emitted)
      BY <1>0, <1>2, <3>1, Zenon
    <3>2. CASE x \in ToSet(ids)
      <4>1. PICK e \in ToSet(r.emitted) : x = <<s.key, e, ev.id>>
        BY <2>5, <3>2, Zenon
      <4>2. e \in EmittedBy(s, a.up)
        BY <2>1, Zenon DEF Handled
      <4> QED
        BY <1>0, <1>4, <4>1, <4>2, Zenon
    <3> QED
      BY <2>6, <3>1, <3>2, Zenon
  <2>8. ASSUME E = "", NEW i \in 1..(k + 1), Interested(scripts[i], ev)
        PROVE  /\ \A e \in EmittedBy(scripts[i], a.up) : <<scripts[i].key, e, ev.id>> \in ToSet(L)
               /\ \A q \in SentBy(scripts[i], a.up) : <<scripts[i].key, ev.id, q>> \in T
    <3>1. CASE i \in 1..k
      BY <1>2, <1>4, <2>6, <2>8, <3>1, Zenon DEF T
    <3>2. CASE i = k + 1
      <4>1. EmittedBy(s, a.up) \subseteq ToSet(r.emitted) /\ SentBy(s, a.up) \subseteq r.sent
        BY <2>1, <2>4, <2>8, Zenon DEF Handled
      <4>2. \A e \in EmittedBy(s, a.up) : <<s.key, e, ev.id>> \in ToSet(L)
        BY <2>5, <2>6, <4>1, Zenon
      <4>3. \A q \in SentBy(s, a.up) : <<s.key, ev.id, q>> \in T
        BY <4>1, Zenon DEF T
      <4> QED
        BY <3>2, <4>2, <4>3, Zenon
    <3> QED
      BY <1>0, <3>1, <3>2, Zenon
  <2>9. VisitedTo(next, k + 1, ev, scripts, a.up)
    BY <2>3, <2>4, <2>6, <2>7, <2>8, Zenon DEF VisitedTo
  <2> QED
    BY <2>9, Zenon DEF next
<1> QED
  BY <1>3, <1>4, Zenon

LEMMA EventIsHandled ==
    ASSUME NEW scripts, scripts \in Seq(ToSet(scripts)), \A i \in DOMAIN scripts : IsIntegration(scripts[i]),
           NEW ev, NEW a, a.up \in BOOLEAN
    PROVE  VisitedTo(HandleEvent(ev, scripts, a), Len(scripts), ev, scripts, a.up)
<1> DEFINE n  == Len(scripts)
           q  == [i \in DOMAIN scripts |-> i]
           b  == [err |-> "", emitted |-> <<>>, sent |-> {}]
<1>0. n \in Nat /\ DOMAIN scripts = 1..n
  BY LenProperties, Zenon
<1>1. DOMAIN q = 1..n /\ \A i \in 1..n : q[i] = i
  BY <1>0, Zenon
<1>b. b.err = "" /\ b.emitted = <<>> /\ b.sent = {}
  BY Zenon
<1> HIDE DEF n, q, b
<1>2. PICK g : /\ g[0] = b
               /\ \A k \in 1..n : g[k] = VisitScript(g[k - 1], q[k], ev, scripts, a)
               /\ VisitsFrom(b, q, ev, scripts, a) = g[n]
  <2>1. DOMAIN q = 1..n /\ n \in Nat
    BY <1>0, <1>1, Zenon
  <2>2. Visits(b, q, n, ev, scripts, a)
    BY <2>1, VisitsFold
  <2> QED
    BY <2>2, Zenon DEF Visits
<1> DEFINE S == { k \in Nat : VisitedTo(g[k], k, ev, scripts, a.up) }
<1>3. 0 \in S
  <2>1. 1..0 = {} /\ 0 \in Nat /\ "" \in {"", "platform"}
    OBVIOUS
  <2>2. VisitedTo(b, 0, ev, scripts, a.up)
    BY <1>b, <2>1, NothingEmitted, Zenon DEF VisitedTo
  <2> QED
    BY <1>2, <2>1, <2>2, Zenon
<1>4. ASSUME NEW k \in Nat, k < n, k \in S PROVE k + 1 \in S
  <2>1. k + 1 \in 1..n /\ (k + 1) - 1 = k /\ k + 1 \in Nat
    BY <1>0, <1>4
  <2>2. g[k + 1] = VisitScript(g[k], k + 1, ev, scripts, a)
    BY <1>1, <1>2, <2>1, Zenon
  <2>3. IsIntegration(scripts[k + 1]) /\ VisitedTo(g[k], k, ev, scripts, a.up)
    BY <1>0, <1>4, <2>1, Zenon
  <2>4. VisitedTo(VisitScript(g[k], k + 1, ev, scripts, a), k + 1, ev, scripts, a.up)
    <3> DEFINE y == g[k]
    <3>1. IsIntegration(scripts[k + 1]) /\ VisitedTo(y, k, ev, scripts, a.up)
      BY <2>3, Zenon
    <3> HIDE DEF y
    <3>2. VisitedTo(VisitScript(y, k + 1, ev, scripts, a), k + 1, ev, scripts, a.up)
      BY <3>1, VisitStep
    <3> QED
      BY <3>2, Zenon DEF y
  <2> QED
    BY <2>1, <2>2, <2>4, Zenon
<1> HIDE DEF S
<1>5. \A k \in 0..n : k \in S
  BY <1>0, <1>3, <1>4, Induction, Zenon
<1>6. n \in 0..n
  BY <1>0
<1>7. VisitedTo(g[n], n, ev, scripts, a.up)
  BY <1>5, <1>6, Zenon DEF S
<1> QED
  BY <1>2, <1>7, Zenon DEF HandleEvent, VisitsFrom, n, q, b

IsWorld(w) ==
    /\ w = [events |-> w.events, outbox |-> w.outbox, sent |-> w.sent]
    /\ w.outbox \in Seq(ToSet(w.outbox)) /\ OnceEach(w)

LEMMA EventPersists ==
    ASSUME NEW w, IsWorld(w), NEW id
    PROVE  LET next == PersistEvent(w, id)
           IN  IsWorld(next) /\ next.sent = w.sent /\ next.events = w.events \cup {id}
<1> DEFINE next == PersistEvent(w, id)
<1>1. CASE id \in w.events
  <2>1. next = w
    BY <1>1, Zenon DEF PersistEvent
  <2>2. w.events = w.events \cup {id}
    BY <1>1, Zenon
  <2> HIDE DEF next
  <2> QED
    BY <2>1, <2>2 DEF next
<1>2. CASE id \notin w.events
  <2> DEFINE q  == w.outbox
             n  == Len(q)
             p  == Append(q, id)
             ev == w.events \cup {id}
  <2>0. q \in Seq(ToSet(q)) /\ (\A i, j \in DOMAIN q : q[i] = q[j] => i = j) /\ ToSet(q) = w.events
    BY Zenon DEF IsWorld, OnceEach, IsInjective
  <2>1. next = [w EXCEPT !.events = ev, !.outbox = p]
    BY <1>2, Zenon DEF PersistEvent
  <2> HIDE DEF next, ev, p
  <2>2. next = [events |-> ev, outbox |-> p, sent |-> w.sent]
    BY <2>1 DEF IsWorld
  <2>3. next.events = ev /\ next.outbox = p /\ next.sent = w.sent
    BY <2>2, Zenon
  <2> HIDE DEF q
  <2>4. /\ n \in Nat /\ DOMAIN q = 1..n /\ DOMAIN p = 1..(n + 1) /\ p[n + 1] = id
        /\ \A j \in 1..n : p[j] = q[j]
    <3> DEFINE V == ToSet(q)
    <3> HIDE DEF V
    <3>1. q \in Seq(V)
      BY <2>0, Zenon DEF V
    <3>2. q \in Seq(V \cup {id})
      BY <3>1
    <3> QED
      BY <3>2 DEF p
  <2>5. p \in Seq(ev) /\ ToSet(p) = ev
    <3>0. ToSet(q) \subseteq ev /\ id \in ev /\ ev = ToSet(q) \cup {id}
      BY <2>0, Zenon DEF ev
    <3> DEFINE V == ToSet(q)
    <3> HIDE DEF V
    <3>1. q \in Seq(V) /\ V \subseteq ev
      BY <2>0, <3>0, Zenon DEF V
    <3>2. q \in Seq(ev)
      BY <3>1
    <3>3. p \in Seq(ev)
      BY <3>0, <3>2 DEF p
    <3>4. ToSet(p) = ToSet(q) \cup {id}
      BY <3>0, <3>2, AppendRange DEF p
    <3> QED
      BY <3>0, <3>3, <3>4, Zenon
  <2>6. \A i, j \in DOMAIN p : p[i] = p[j] => i = j
    <3>1. 1..(n + 1) = (1..n) \cup {n + 1}
      BY <2>4
    <3>2. \A j \in 1..n : p[j] # id
      <4> TAKE j \in 1..n
      <4>1. q[j] \in ToSet(q)
        BY <2>4, Zenon DEF ToSet
      <4> QED
        BY <1>2, <2>0, <2>4, <4>1, Zenon
    <3> HIDE DEF n
    <3> TAKE i, j \in DOMAIN p
    <3>3. i \in 1..n /\ j \in 1..n => (p[i] = p[j] => i = j)
      BY <2>0, <2>4, Zenon
    <3>4. i = n + 1 /\ j \in 1..n => p[i] # p[j]
      BY <2>4, <3>2, Zenon
    <3>5. j = n + 1 /\ i \in 1..n => p[i] # p[j]
      BY <2>4, <3>2, Zenon
    <3>6. (i \in 1..n \/ i = n + 1) /\ (j \in 1..n \/ j = n + 1)
      BY <2>4, <3>1, Zenon
    <3> QED
      BY <3>3, <3>4, <3>5, <3>6
  <2>7. IsWorld(next)
    BY <2>2, <2>3, <2>5, <2>6, Zenon DEF IsWorld, OnceEach, IsInjective
  <2> QED
    BY <2>3, <2>7, Zenon DEF next, ev
<1> QED
  BY <1>1, <1>2, Zenon

LEMMA EventsPersist ==
    ASSUME NEW w, IsWorld(w), NEW q, NEW n \in Nat, DOMAIN q = 1..n
    PROVE  LET v == PersistFrom(w, q)
           IN  /\ IsWorld(v) /\ v.sent = w.sent
               /\ \A x : x \in v.events <=> x \in w.events \/ \E j \in 1..n : q[j] = x
<1>1. PICK g : /\ g[0] = w
               /\ \A k \in 1..n : g[k] = PersistEvent(g[k - 1], q[k])
               /\ PersistFrom(w, q) = g[n]
  <2>1. Persists(w, q, n)
    BY PersistFold
  <2> QED
    BY <2>1, Zenon DEF Persists
<1> DEFINE To(v, k) == /\ IsWorld(v) /\ v.sent = w.sent
                       /\ \A x : x \in v.events <=> x \in w.events \/ \E j \in 1..k : q[j] = x
           S == { k \in Nat : To(g[k], k) }
<1>2. 0 \in S
  <2>1. 1..0 = {} /\ 0 \in Nat
    OBVIOUS
  <2>2. To(w, 0)
    BY <2>1, Zenon
  <2> HIDE DEF To
  <2> QED
    BY <1>1, <2>1, <2>2, Zenon
<1>3. ASSUME NEW k \in Nat, k < n, k \in S PROVE k + 1 \in S
  <2>1. k + 1 \in 1..n /\ (k + 1) - 1 = k /\ k + 1 \in Nat /\ 1..(k + 1) = (1..k) \cup {k + 1}
    BY <1>3
  <2> DEFINE v == g[k]
             x == q[k + 1]
             u == PersistEvent(v, x)
  <2>2. g[k + 1] = u
    BY <1>1, <2>1, Zenon
  <2>3. To(v, k)
    BY <1>3, Zenon
  <2>4. IsWorld(u) /\ u.sent = v.sent /\ u.events = v.events \cup {x}
    <3> HIDE DEF v, x
    <3> QED
      BY <2>3, EventPersists, Zenon
  <2>5. To(u, k + 1)
    <3> HIDE DEF u, v
    <3> QED
      BY <2>1, <2>3, <2>4, Zenon
  <2> HIDE DEF To, u
  <2> QED
    BY <2>1, <2>2, <2>5, Zenon
<1> HIDE DEF S
<1>4. \A k \in 0..n : k \in S
  BY <1>2, <1>3, Induction, Zenon
<1>5. n \in 0..n
  OBVIOUS
<1>6. To(g[n], n)
  BY <1>4, <1>5, Zenon DEF S
<1> QED
  BY <1>1, <1>6, Zenon

\* What the loop over the emitted events leaves, also when it ends early.
LEMMA AllPersist ==
    ASSUME NEW w, IsWorld(w), NEW q, q \in Seq(ToSet(q)), NEW fails
    PROVE  LET v == PersistAll(w, q, fails)
           IN  /\ IsWorld(v) /\ v.sent = w.sent /\ w.events \subseteq v.events
               /\ v.events \subseteq w.events \cup ToSet(q)
               /\ fails \notin DOMAIN q => ToSet(q) \subseteq v.events
<1> DEFINE v == PersistAll(w, q, fails)
           n == Len(q)
<1>0. n \in Nat /\ DOMAIN q = 1..n
  BY LenProperties, Zenon
<1>1. CASE fails \notin DOMAIN q
  <2>1. v = PersistFrom(w, q)
    BY <1>1, Zenon DEF PersistAll, PersistFrom
  <2>2. LET y == PersistFrom(w, q)
        IN  /\ IsWorld(y) /\ y.sent = w.sent
            /\ \A x : x \in y.events <=> x \in w.events \/ \E j \in 1..n : q[j] = x
    <3> HIDE DEF n
    <3> QED
      BY <1>0, EventsPersist
  <2> HIDE DEF v
  <2>3. /\ IsWorld(v) /\ v.sent = w.sent
        /\ \A x : x \in v.events <=> x \in w.events \/ \E j \in 1..n : q[j] = x
    BY <2>1, <2>2, Zenon
  <2>4. \A x : x \in v.events <=> x \in w.events \/ x \in ToSet(q)
    BY <1>0, <2>3, Zenon DEF ToSet
  <2> QED
    BY <2>3, <2>4, Zenon DEF v
<1>2. CASE fails \in DOMAIN q
  <2> DEFINE m == fails - 1
             p == SubSeq(q, 1, m)
  <2>0. m \in Nat /\ m <= n
    BY <1>0, <1>2
  <2>1. v = PersistFrom(w, p)
    BY <1>2, Zenon DEF PersistAll, PersistFrom
  <2>2. DOMAIN p = 1..m /\ \A j \in 1..m : p[j] = q[j] /\ j \in 1..n
    BY <1>0, <2>0
  <2>3. LET y == PersistFrom(w, p)
        IN  /\ IsWorld(y) /\ y.sent = w.sent
            /\ \A x : x \in y.events <=> x \in w.events \/ \E j \in 1..m : p[j] = x
    <3> HIDE DEF m, p
    <3> QED
      BY <2>0, <2>2, EventsPersist
  <2> HIDE DEF v, m, p
  <2>4. /\ IsWorld(v) /\ v.sent = w.sent
        /\ \A x : x \in v.events <=> x \in w.events \/ \E j \in 1..m : p[j] = x
    BY <2>1, <2>3, Zenon
  <2>5. \A x : x \in v.events => x \in w.events \/ x \in ToSet(q)
    <3>1. \A j \in 1..m : p[j] \in ToSet(q)
      <4>1. \A j \in 1..n : q[j] \in ToSet(q)
        BY <1>0, Zenon DEF ToSet
      <4> QED
        BY <2>2, <4>1, Zenon
    <3> QED
      BY <2>4, <3>1, Zenon
  <2> QED
    BY <1>2, <2>4, <2>5, Zenon DEF v
<1> QED
  BY <1>1, <1>2, Zenon

IsEvent(c) ==
    /\ c.scripts \in Seq(ToSet(c.scripts)) /\ \A i \in DOMAIN c.scripts : IsIntegration(c.scripts[i])
    /\ c.attempts \in Seq(ToSet(c.attempts)) /\ Len(c.attempts) > 0
    /\ \A k \in DOMAIN c.attempts : c.attempts[k].up \in BOOLEAN

TracesAre(c, up) ==
    LET q  == c.scripts
        ev == c.msg.event
    IN  /\ \A x : x \in Emissions(c, up) <=>
                  \E i \in 1..Len(q) : /\ Interested(q[i], ev)
                                       /\ \E e \in EmittedBy(q[i], up) : x = <<q[i].key, e, ev.id>>
        /\ \A x : x \in RequestsMade(c, up) <=>
                  \E i \in 1..Len(q) : /\ Interested(q[i], ev)
                                       /\ \E e \in SentBy(q[i], up) : x = <<q[i].key, ev.id, e>>

LEMMA TracesOf ==
    ASSUME NEW c, IsEvent(c), NEW up
    PROVE  TracesAre(c, up)
<1> DEFINE q  == c.scripts
           ev == c.msg.event
<1>1. DOMAIN q = 1..Len(q)
  BY LenProperties, Zenon DEF IsEvent
<1>2. \A s : s \in ToSet(q) <=> \E i \in 1..Len(q) : s = q[i]
  BY <1>1, Zenon DEF ToSet
<1>3. ASSUME NEW x
      PROVE  x \in Emissions(c, up) <=>
             \E i \in 1..Len(q) : /\ Interested(q[i], ev)
                                  /\ \E e \in EmittedBy(q[i], up) : x = <<q[i].key, e, ev.id>>
  <2> DEFINE P(s) == Interested(s, ev) /\ \E e \in EmittedBy(s, up) : x = <<s.key, e, ev.id>>
  <2>1. ASSUME x \in Emissions(c, up) PROVE \E i \in 1..Len(q) : P(q[i])
    <3>1. PICK s \in { y \in ToSet(q) : Interested(y, ev) } : x \in { <<s.key, e, ev.id>> : e \in EmittedBy(s, up) }
      BY <2>1, Zenon DEF Emissions
    <3>2. P(s)
      BY <3>1, Zenon
    <3>3. PICK i \in 1..Len(q) : s = q[i]
      BY <1>2, Zenon
    <3> HIDE DEF P, q
    <3> QED
      BY <3>2, <3>3
  <2>2. ASSUME NEW i \in 1..Len(q), P(q[i]) PROVE x \in Emissions(c, up)
    <3> DEFINE s == q[i]
    <3>1. s \in { y \in ToSet(q) : Interested(y, ev) } /\ x \in { <<s.key, e, ev.id>> : e \in EmittedBy(s, up) }
      BY <1>2, <2>2, Zenon
    <3> HIDE DEF s, q, ev
    <3> QED
      BY <3>1, Zenon DEF Emissions, q, ev
  <2> QED
    BY <2>1, <2>2, Zenon
<1>4. ASSUME NEW x
      PROVE  x \in RequestsMade(c, up) <=>
             \E i \in 1..Len(q) : /\ Interested(q[i], ev)
                                  /\ \E e \in SentBy(q[i], up) : x = <<q[i].key, ev.id, e>>
  <2> DEFINE P(s) == Interested(s, ev) /\ \E e \in SentBy(s, up) : x = <<s.key, ev.id, e>>
  <2>1. ASSUME x \in RequestsMade(c, up) PROVE \E i \in 1..Len(q) : P(q[i])
    <3>1. PICK s \in { y \in ToSet(q) : Interested(y, ev) } : x \in { <<s.key, ev.id, e>> : e \in SentBy(s, up) }
      BY <2>1, Zenon DEF RequestsMade
    <3>2. P(s)
      BY <3>1, Zenon
    <3>3. PICK i \in 1..Len(q) : s = q[i]
      BY <1>2, Zenon
    <3> HIDE DEF P, q
    <3> QED
      BY <3>2, <3>3
  <2>2. ASSUME NEW i \in 1..Len(q), P(q[i]) PROVE x \in RequestsMade(c, up)
    <3> DEFINE s == q[i]
    <3>1. s \in { y \in ToSet(q) : Interested(y, ev) } /\ x \in { <<s.key, ev.id, e>> : e \in SentBy(s, up) }
      BY <1>2, <2>2, Zenon
    <3> HIDE DEF s, q, ev
    <3> QED
      BY <3>1, Zenon DEF RequestsMade, q, ev
  <2> QED
    BY <2>1, <2>2, Zenon
<1> QED
  BY <1>3, <1>4, Zenon DEF TracesAre

Runs(c) == c.msg.complete /\ c.msg.deviceKnown

\* One delivery of an event: it adds nothing but what the scripts emit, and all
\* of it once it is acknowledged.
DeliveredOnce(r, c, up, w) ==
    /\ IsWorld(r.world) /\ w.events \subseteq r.world.events
    /\ r.world.events \subseteq w.events \cup Emissions(c, up)
    /\ r.err = "" /\ Runs(c) => Emissions(c, up) \subseteq r.world.events /\ RequestsMade(c, up) \subseteq r.world.sent
    /\ ~Runs(c) => r.world = w

LEMMA WorldSends ==
    ASSUME NEW w, IsWorld(w), NEW t
    PROVE  LET v == [w EXCEPT !.sent = t]
           IN  IsWorld(v) /\ v.events = w.events /\ v.sent = t
<1> DEFINE v == [w EXCEPT !.sent = t]
<1>1. v = [events |-> w.events, outbox |-> w.outbox, sent |-> t]
  BY DEF IsWorld
<1> HIDE DEF v
<1>2. v.events = w.events /\ v.outbox = w.outbox /\ v.sent = t
  BY <1>1, Zenon
<1>3. IsWorld(v)
  BY <1>1, <1>2, Zenon DEF IsWorld, OnceEach
<1> QED
  BY <1>2, <1>3, Zenon DEF v

LEMMA ErrWorld == \A a, b : [err |-> a, world |-> b].err = a /\ [err |-> a, world |-> b].world = b
  OBVIOUS

LEMMA IntegrationsRun ==
    ASSUME NEW c, IsEvent(c), Runs(c), NEW a, a.up \in BOOLEAN, NEW w, IsWorld(w)
    PROVE  DeliveredOnce(RunIntegrations(c.msg.event, c.scripts, a, w), c, a.up, w)
<1> DEFINE q  == c.scripts
           ev == c.msg.event
           h  == HandleEvent(ev, q, a)
           T  == w.sent \cup h.sent
           v  == [w EXCEPT !.sent = T]
           p  == PersistAll(v, h.emitted, a.store)
           r  == RunIntegrations(ev, q, a, w)
<1>1. VisitedTo(h, Len(q), ev, q, a.up)
  <2>1. q \in Seq(ToSet(q)) /\ \A i \in DOMAIN q : IsIntegration(q[i])
    BY Zenon DEF IsEvent
  <2> HIDE DEF q, ev
  <2> QED
    BY <2>1, EventIsHandled
<1>t. /\ \A x : x \in Emissions(c, a.up) <=>
               \E i \in 1..Len(q) : /\ Interested(q[i], ev)
                                    /\ \E e \in EmittedBy(q[i], a.up) : x = <<q[i].key, e, ev.id>>
      /\ \A x : x \in RequestsMade(c, a.up) <=>
               \E i \in 1..Len(q) : /\ Interested(q[i], ev)
                                    /\ \E e \in SentBy(q[i], a.up) : x = <<q[i].key, ev.id, e>>
  <2>1. TracesAre(c, a.up)
    BY TracesOf
  <2> QED
    BY <2>1, Zenon DEF TracesAre
<1>2. /\ h.err \in {"", "platform"} /\ h.emitted \in Seq(ToSet(h.emitted))
      /\ ToSet(h.emitted) \subseteq Emissions(c, a.up)
      /\ h.err = "" => Emissions(c, a.up) \subseteq ToSet(h.emitted) /\ RequestsMade(c, a.up) \subseteq h.sent
  <2> HIDE DEF h
  <2>1. h.err \in {"", "platform"} /\ h.emitted \in Seq(ToSet(h.emitted))
    BY <1>1, Zenon DEF VisitedTo
  <2>2. ToSet(h.emitted) \subseteq Emissions(c, a.up)
    <3> SUFFICES ASSUME NEW x \in ToSet(h.emitted) PROVE x \in Emissions(c, a.up)
      BY Zenon
    <3>1. \E i \in 1..Len(q) : Interested(q[i], ev) /\ \E e \in EmittedBy(q[i], a.up) : x = <<q[i].key, e, ev.id>>
      BY <1>1, Zenon DEF VisitedTo
    <3> QED
      BY <1>t, <3>1, Zenon
  <2>3. ASSUME h.err = "" PROVE Emissions(c, a.up) \subseteq ToSet(h.emitted)
    <3> SUFFICES ASSUME NEW x \in Emissions(c, a.up) PROVE x \in ToSet(h.emitted)
      BY Zenon
    <3>1. PICK i \in 1..Len(q) : Interested(q[i], ev) /\ \E e \in EmittedBy(q[i], a.up) : x = <<q[i].key, e, ev.id>>
      BY <1>t, Zenon
    <3>2. PICK e \in EmittedBy(q[i], a.up) : x = <<q[i].key, e, ev.id>>
      BY <3>1, Zenon
    <3>3. <<q[i].key, e, ev.id>> \in ToSet(h.emitted)
      BY <1>1, <2>3, <3>1, Zenon DEF VisitedTo
    <3> QED
      BY <3>2, <3>3, Zenon
  <2>4. ASSUME h.err = "" PROVE RequestsMade(c, a.up) \subseteq h.sent
    <3> SUFFICES ASSUME NEW x \in RequestsMade(c, a.up) PROVE x \in h.sent
      BY Zenon
    <3>1. PICK i \in 1..Len(q) : Interested(q[i], ev) /\ \E e \in SentBy(q[i], a.up) : x = <<q[i].key, ev.id, e>>
      BY <1>t, Zenon
    <3>2. PICK e \in SentBy(q[i], a.up) : x = <<q[i].key, ev.id, e>>
      BY <3>1, Zenon
    <3>3. <<q[i].key, ev.id, e>> \in h.sent
      BY <1>1, <2>4, <3>1, Zenon DEF VisitedTo
    <3> QED
      BY <3>2, <3>3, Zenon
  <2> QED
    BY <2>1, <2>2, <2>3, <2>4, Zenon
<1>3. r = IF h.err # "" THEN [err |-> h.err, world |-> v]
          ELSE [err |-> IF a.store \in DOMAIN h.emitted THEN "platform" ELSE "", world |-> p]
  BY Zenon DEF RunIntegrations
<1>4. IsWorld(v) /\ v.events = w.events /\ v.sent = T
  <2> HIDE DEF T
  <2> QED
    BY WorldSends, Zenon
<1> HIDE DEF r, h, v
<1>5. /\ IsWorld(p) /\ p.sent = v.sent /\ v.events \subseteq p.events
      /\ p.events \subseteq v.events \cup ToSet(h.emitted)
      /\ a.store \notin DOMAIN h.emitted => ToSet(h.emitted) \subseteq p.events
  <2> DEFINE m == h.emitted
             f == a.store
  <2>1. IsWorld(v) /\ m \in Seq(ToSet(m))
    BY <1>2, <1>4, Zenon
  <2> HIDE DEF m, f
  <2>2. LET x == PersistAll(v, m, f)
        IN  /\ IsWorld(x) /\ x.sent = v.sent /\ v.events \subseteq x.events
            /\ x.events \subseteq v.events \cup ToSet(m)
            /\ f \notin DOMAIN m => ToSet(m) \subseteq x.events
    BY <2>1, AllPersist
  <2> QED
    BY <2>2, Zenon DEF m, f
<1> HIDE DEF p
<1>6. CASE h.err # ""
  <2>1. r.err = h.err /\ r.world = v
    BY <1>3, <1>6, ErrWorld, Zenon
  <2> QED
    BY <1>4, <1>6, <2>1, Zenon DEF DeliveredOnce, r
<1>7. CASE h.err = ""
  <2> DEFINE E == IF a.store \in DOMAIN h.emitted THEN "platform" ELSE ""
  <2>1. r.err = E /\ r.world = p
    BY <1>3, <1>7, ErrWorld, Zenon
  <2>2. E = "" => a.store \notin DOMAIN h.emitted
    OBVIOUS
  <2> HIDE DEF E
  <2>3. IsWorld(p) /\ w.events \subseteq p.events /\ p.events \subseteq w.events \cup Emissions(c, a.up)
    BY <1>2, <1>4, <1>5, Zenon
  <2>4. E = "" => Emissions(c, a.up) \subseteq p.events /\ RequestsMade(c, a.up) \subseteq p.sent
    BY <1>2, <1>4, <1>5, <1>7, <2>2, Zenon DEF T
  <2> QED
    BY <2>1, <2>3, <2>4, Zenon DEF DeliveredOnce, r
<1> QED
  BY <1>6, <1>7, Zenon

LEMMA MessageIsHandled ==
    ASSUME NEW c, IsEvent(c), NEW a, a.up \in BOOLEAN, NEW w, IsWorld(w)
    PROVE  DeliveredOnce(HandleMessage(c.msg, c.scripts, a, w), c, a.up, w)
<1> DEFINE r == HandleMessage(c.msg, c.scripts, a, w)
           R == RunIntegrations(c.msg.event, c.scripts, a, w)
<1>1. r = IF ~c.msg.complete THEN [err |-> "poison", world |-> w]
          ELSE IF ~a.engine THEN [err |-> "platform", world |-> w]
          ELSE IF ~c.msg.deviceKnown THEN [err |-> "", world |-> w]
          ELSE R
  BY Zenon DEF HandleMessage
<1>2. Runs(c) => DeliveredOnce(R, c, a.up, w)
  BY IntegrationsRun
<1> HIDE DEF r, R
<1>3. \/ r = R /\ Runs(c)
      \/ r.world = w /\ (r.err # "" \/ ~Runs(c))
  <2>1. CASE ~c.msg.complete
    BY <1>1, <2>1, ErrWorld, Zenon DEF Runs
  <2>2. CASE c.msg.complete /\ ~a.engine
    <3>1. r.err = "platform" /\ r.world = w
      BY <1>1, <2>2, ErrWorld, Zenon
    <3>2. r.err # ""
      BY <3>1
    <3> QED
      BY <3>1, <3>2, Zenon
  <2>3. CASE c.msg.complete /\ a.engine /\ ~c.msg.deviceKnown
    BY <1>1, <2>3, ErrWorld, Zenon DEF Runs
  <2>4. CASE c.msg.complete /\ a.engine /\ c.msg.deviceKnown
    BY <1>1, <2>4, Zenon DEF Runs
  <2> QED
    BY <2>1, <2>2, <2>3, <2>4, Zenon
<1>4. r.world = w /\ (r.err # "" \/ ~Runs(c)) => DeliveredOnce(r, c, a.up, w)
  BY Zenon DEF DeliveredOnce
<1>5. r = R /\ Runs(c) => DeliveredOnce(r, c, a.up, w)
  BY <1>2, Zenon
<1> QED
  BY <1>3, <1>4, <1>5, Zenon DEF r

\* The state after k deliveries: at most k were made, all of them unless one
\* settled the message.
DeliveredTo(acc, k, c) ==
    /\ acc.tries \in Nat /\ acc.tries <= k /\ (acc.tries = 0 => k = 0)
    /\ acc.err = "platform" => acc.tries = k
    /\ IsWorld(acc.world)
    /\ \A x \in acc.world.events : \E j \in 1..acc.tries : x \in Emissions(c, c.attempts[j].up)
    /\ acc.tries > 0 /\ acc.err = "" /\ Runs(c) =>
           /\ Emissions(c, c.attempts[acc.tries].up) \subseteq acc.world.events
           /\ RequestsMade(c, c.attempts[acc.tries].up) \subseteq acc.world.sent
    /\ ~Runs(c) => acc.world = NewWorld

LEMMA NewWorldIsWorld == IsWorld(NewWorld) /\ NewWorld.events = {}
<1>1. NewWorld.events = {} /\ NewWorld.outbox = <<>> /\ NewWorld.sent = {}
  BY DEF NewWorld
<1>2. NewWorld = [events |-> NewWorld.events, outbox |-> NewWorld.outbox, sent |-> NewWorld.sent]
  BY <1>1, Zenon DEF NewWorld
<1>3. DOMAIN <<>> = {}
  OBVIOUS
<1>4. OnceEach(NewWorld)
  BY <1>1, <1>3, NothingEmitted, Zenon DEF OnceEach, IsInjective
<1> QED
  BY <1>1, <1>2, <1>4, NothingEmitted, Zenon DEF IsWorld

LEMMA DeliveryStep ==
    ASSUME NEW c, IsEvent(c), NEW k \in Nat, k < Len(c.attempts), NEW acc, DeliveredTo(acc, k, c)
    PROVE  DeliveredTo(DeliverOnce(acc, c.attempts[k + 1], c.msg, c.scripts), k + 1, c)
<1> DEFINE a    == c.attempts[k + 1]
           w    == acc.world
           t    == acc.tries
           r    == HandleMessage(c.msg, c.scripts, a, w)
           next == DeliverOnce(acc, a, c.msg, c.scripts)
<1>0. /\ t \in Nat /\ t <= k /\ (t = 0 => k = 0)
      /\ acc.err = "platform" => t = k
      /\ IsWorld(w)
      /\ \A x \in w.events : \E j \in 1..t : x \in Emissions(c, c.attempts[j].up)
      /\ t > 0 /\ acc.err = "" /\ Runs(c) =>
             /\ Emissions(c, c.attempts[t].up) \subseteq w.events
             /\ RequestsMade(c, c.attempts[t].up) \subseteq w.sent
      /\ ~Runs(c) => w = NewWorld
  BY Zenon DEF DeliveredTo
<1>1. next = IF t > 0 /\ acc.err # "platform" THEN acc ELSE [err |-> r.err, world |-> r.world, tries |-> t + 1]
  BY Zenon DEF DeliverOnce
<1>2. a.up \in BOOLEAN
  <2>1. k + 1 \in 1..Len(c.attempts)
    BY DEF IsEvent
  <2>2. DOMAIN c.attempts = 1..Len(c.attempts)
    BY LenProperties, Zenon DEF IsEvent
  <2> QED
    BY <2>1, <2>2, Zenon DEF IsEvent
<1>3. DeliveredOnce(r, c, a.up, w)
  <2>1. IsWorld(w) /\ a.up \in BOOLEAN
    BY <1>0, <1>2, Zenon
  <2> HIDE DEF a, w
  <2> QED
    BY <2>1, MessageIsHandled
<1>t. t \in Nat /\ t <= k /\ (t = 0 => k = 0) /\ (acc.err = "platform" => t = k)
  BY <1>0, Zenon
<1> HIDE DEF r, next
<1>4. CASE t > 0 /\ acc.err # "platform"
  <2>1. next = acc
    BY <1>1, <1>4, Zenon
  <2>2. t <= k + 1 /\ t # 0
    <3> HIDE DEF t
    <3> QED
      BY <1>t, <1>4
  <2>3. DeliveredTo(acc, k + 1, c)
    BY <1>0, <1>4, <2>2, Zenon DEF DeliveredTo
  <2> QED
    BY <2>1, <2>3, Zenon DEF next
<1>5. CASE ~(t > 0 /\ acc.err # "platform")
  <2>1. t = k
    <3> HIDE DEF t
    <3> QED
      BY <1>t, <1>5
  <2>2. next = [err |-> r.err, world |-> r.world, tries |-> t + 1]
    BY <1>1, <1>5, Zenon
  <2>3. next.err = r.err /\ next.world = r.world /\ next.tries = k + 1
    BY <2>1, <2>2
  <2>4. k + 1 \in Nat /\ k + 1 <= k + 1 /\ k + 1 # 0 /\ k + 1 \in 1..(k + 1) /\ \A j \in 1..k : j \in 1..(k + 1)
    OBVIOUS
  <2>5. \A x \in r.world.events : \E j \in 1..(k + 1) : x \in Emissions(c, c.attempts[j].up)
    <3> TAKE x \in r.world.events
    <3>1. x \in w.events \/ x \in Emissions(c, a.up)
      BY <1>3, Zenon DEF DeliveredOnce
    <3>2. CASE x \in w.events
      <4>1. PICK j \in 1..t : x \in Emissions(c, c.attempts[j].up)
        BY <1>0, <3>2, Zenon
      <4>2. j \in 1..(k + 1)
        BY <2>1
      <4> QED
        BY <4>1, <4>2, Zenon
    <3>3. CASE x \in Emissions(c, a.up)
      BY <2>4, <3>3, Zenon
    <3> QED
      BY <3>1, <3>2, <3>3, Zenon
  <2>6. /\ IsWorld(r.world)
        /\ r.err = "" /\ Runs(c) => /\ Emissions(c, c.attempts[k + 1].up) \subseteq r.world.events
                                    /\ RequestsMade(c, c.attempts[k + 1].up) \subseteq r.world.sent
        /\ ~Runs(c) => r.world = NewWorld
    BY <1>0, <1>3, Zenon DEF DeliveredOnce
  <2>7. DeliveredTo(next, k + 1, c)
    BY <2>3, <2>4, <2>5, <2>6, Zenon DEF DeliveredTo
  <2> QED
    BY <2>7, Zenon DEF next
<1> QED
  BY <1>4, <1>5, Zenon

LEMMA MessageIsDelivered ==
    ASSUME NEW c, IsEvent(c)
    PROVE  /\ Len(c.attempts) \in Nat \ {0}
           /\ DeliveredTo(DeliverMessage(c.msg, c.scripts, c.attempts), Len(c.attempts), c)
<1> DEFINE q == c.attempts
           n == Len(q)
           b == [err |-> "", world |-> NewWorld, tries |-> 0]
<1>0. n \in Nat \ {0} /\ DOMAIN q = 1..n
  <2>1. n \in Nat /\ DOMAIN q = 1..n
    BY LenProperties, Zenon DEF IsEvent
  <2>2. n > 0
    BY Zenon DEF IsEvent
  <2> QED
    BY <2>1, <2>2
<1>b. b.err = "" /\ b.world = NewWorld /\ b.tries = 0
  OBVIOUS
<1> HIDE DEF b
<1>1. PICK g : /\ g[0] = b
               /\ \A k \in 1..n : g[k] = DeliverOnce(g[k - 1], q[k], c.msg, c.scripts)
               /\ DeliveriesFrom(b, q, c.msg, c.scripts) = g[n]
  <2>1. n \in Nat /\ DOMAIN q = 1..n
    BY <1>0
  <2> HIDE DEF n, q
  <2>2. Delivers(b, q, n, c.msg, c.scripts)
    BY <2>1, DeliveriesFold
  <2> QED
    BY <2>2, Zenon DEF Delivers
<1> DEFINE S == { k \in Nat : DeliveredTo(g[k], k, c) }
<1>2. 0 \in S
  <2>1. 0 \in Nat /\ 0 <= 0 /\ ~(0 > 0) /\ "" # "platform"
    OBVIOUS
  <2>2. DeliveredTo(b, 0, c)
    BY <1>b, <2>1, NewWorldIsWorld, Zenon DEF DeliveredTo
  <2> QED
    BY <1>1, <2>1, <2>2, Zenon
<1>3. ASSUME NEW k \in Nat, k < n, k \in S PROVE k + 1 \in S
  <2>1. k + 1 \in 1..n /\ (k + 1) - 1 = k /\ k + 1 \in Nat
    BY <1>0, <1>3
  <2>2. g[k + 1] = DeliverOnce(g[k], q[k + 1], c.msg, c.scripts)
    BY <1>1, <2>1, Zenon
  <2>3. DeliveredTo(DeliverOnce(g[k], c.attempts[k + 1], c.msg, c.scripts), k + 1, c)
    <3> DEFINE y == g[k]
    <3>1. DeliveredTo(y, k, c) /\ k < Len(c.attempts)
      BY <1>3, Zenon
    <3> HIDE DEF y
    <3>2. DeliveredTo(DeliverOnce(y, c.attempts[k + 1], c.msg, c.scripts), k + 1, c)
      BY <3>1, DeliveryStep
    <3> QED
      BY <3>2, Zenon DEF y
  <2> QED
    BY <2>1, <2>2, <2>3, Zenon
<1> HIDE DEF S
<1>4. \A k \in 0..n : k \in S
  BY <1>0, <1>2, <1>3, Induction
<1>5. n \in 0..n
  BY <1>0
<1>6. DeliveredTo(g[n], n, c)
  BY <1>4, <1>5, Zenon DEF S
<1> QED
  BY <1>0, <1>1, <1>6, Zenon DEF DeliverMessage, DeliveriesFrom, b

\* What an invoked extension leaves: nothing but its own events, all of them if
\* it reports success.
Invoked(out, s, up) ==
    /\ IsWorld(out.world)
    /\ \A x \in out.world.events : \E e \in EmittedBy(s, up) : x = <<s.key, e, "req">>
    /\ out.err = "" => /\ \A e \in EmittedBy(s, up) : <<s.key, e, "req">> \in out.world.events
                       /\ s.returns = "ok" /\ Behaves(s, up)

LEMMA ExtensionIsInvoked ==
    ASSUME NEW s, IsIntegration(s), NEW a, a.up \in BOOLEAN
    PROVE  Invoked(Invoke("req", s, a, NewWorld), s, a.up)
<1> DEFINE r   == RunHandle(s, a.up, a.at = 1, a.after)
           ids == Ids(r.emitted, s.key, "req")
           T   == NewWorld.sent \cup { <<s.key, "req", q>> : q \in r.sent }
           w   == [NewWorld EXCEPT !.sent = T]
           v   == PersistAll(w, ids, a.store)
           out == Invoke("req", s, a, NewWorld)
           E   == IF r.err # "" \/ a.store \in DOMAIN ids \/ s.returns # "ok" THEN "failed" ELSE ""
<1>1. out = [err |-> E, world |-> v]
  BY Zenon DEF Invoke, Ids
<1>2. Handled(r, s, a.up)
  BY ScriptIsHandled, Zenon
<1>3. IsWorld(w) /\ w.events = {}
  <2> HIDE DEF T
  <2>1. IsWorld([NewWorld EXCEPT !.sent = T]) /\ [NewWorld EXCEPT !.sent = T].events = NewWorld.events
    BY NewWorldIsWorld, WorldSends, Zenon
  <2> QED
    BY <2>1, NewWorldIsWorld, Zenon
<1>4. /\ ids \in Seq(ToSet(ids)) /\ \A x : x \in ToSet(ids) <=> \E e \in ToSet(r.emitted) : x = <<s.key, e, "req">>
  <2>1. r.emitted \in Seq(ToSet(r.emitted))
    BY <1>2, Zenon DEF Handled
  <2> HIDE DEF r
  <2> QED
    BY <2>1, IdsRange
<1> HIDE DEF r, ids, w, out
<1>5. /\ IsWorld(v) /\ v.events \subseteq w.events \cup ToSet(ids)
      /\ a.store \notin DOMAIN ids => ToSet(ids) \subseteq v.events
  <2> DEFINE f == a.store
  <2> HIDE DEF f
  <2>1. LET x == PersistAll(w, ids, f)
        IN  /\ IsWorld(x) /\ x.events \subseteq w.events \cup ToSet(ids)
            /\ f \notin DOMAIN ids => ToSet(ids) \subseteq x.events
    BY <1>3, <1>4, AllPersist
  <2> QED
    BY <2>1, Zenon DEF f
<1>6. E = "" => r.err = "" /\ a.store \notin DOMAIN ids /\ s.returns = "ok"
  OBVIOUS
<1> HIDE DEF v, E
<1>7. out.err = E /\ out.world = v
  BY <1>1, ErrWorld, Zenon
<1>8. \A x \in v.events : \E e \in EmittedBy(s, a.up) : x = <<s.key, e, "req">>
  <2> TAKE x \in v.events
  <2>1. PICK e \in ToSet(r.emitted) : x = <<s.key, e, "req">>
    BY <1>3, <1>4, <1>5, Zenon
  <2>2. e \in EmittedBy(s, a.up)
    BY <1>2, Zenon DEF Handled
  <2> QED
    BY <2>1, <2>2, Zenon
<1>9. ASSUME E = ""
      PROVE  /\ \A e \in EmittedBy(s, a.up) : <<s.key, e, "req">> \in v.events
             /\ s.returns = "ok" /\ Behaves(s, a.up)
  <2>0. r.err # "platform"
    BY <1>6, <1>9
  <2>1. EmittedBy(s, a.up) \subseteq ToSet(r.emitted) /\ Behaves(s, a.up)
    BY <1>2, <1>6, <1>9, <2>0, Zenon DEF Handled
  <2>2. \A e \in EmittedBy(s, a.up) : <<s.key, e, "req">> \in ToSet(ids)
    BY <1>4, <2>1, Zenon
  <2> QED
    BY <1>5, <1>6, <1>9, <2>1, <2>2, Zenon
<1> QED
  BY <1>5, <1>7, <1>8, <1>9, Zenon DEF Invoked, out

\* An event that is delivered again and again, with the platform failing wherever
\* it may, leaves what one undisturbed delivery would, for any number of scripts,
\* calls, budgets and deliveries; an invoked extension that reports success left
\* all of its events and only those (IntegrationRunner.Run and Invoke, RunHandle,
\* PersistEvent, Worker.Handle).
THEOREM RedeliveriesLeaveOneTrace == Spec => []RedeliveryLeavesOneTrace
<1>1. CaseIsCall => RedeliveryLeavesOneTrace
  <2> SUFFICES ASSUME CaseIsCall PROVE RedeliveryLeavesOneTrace
    OBVIOUS
  <2> DEFINE c   == case.in
             out == case.out
  <2>1. ASSUME case.part = "integrations"
        PROVE  /\ OnceEach(out.world)
               /\ out.world.events \subseteq UNION { Emissions(c, c.attempts[k].up) : k \in 1..out.tries }
               /\ out.err = "" /\ Runs(c) =>
                      /\ Emissions(c, c.attempts[out.tries].up) \subseteq out.world.events
                      /\ RequestsMade(c, c.attempts[out.tries].up) \subseteq out.world.sent
               /\ ~Runs(c) => out.world = NewWorld
    <3>1. c \in EventCases /\ out = DeliverMessage(c.msg, c.scripts, c.attempts)
      BY <2>1, Zenon DEF CaseIsCall, IntegrationsCase
    <3>2. IsEvent(c)
      BY <3>1, AlgorithmsAssumption, Zenon DEF IsEvent
    <3> DEFINE n == Len(c.attempts)
    <3>3. n \in Nat \ {0} /\ DeliveredTo(out, n, c)
      BY <3>1, <3>2, MessageIsDelivered, Zenon
    <3> HIDE DEF c, out, n
    <3>4. out.tries > 0
      <4>1. out.tries \in Nat /\ (out.tries = 0 => n = 0)
        BY <3>3, Zenon DEF DeliveredTo
      <4> QED
        BY <3>3, <4>1
    <3>5. OnceEach(out.world)
      BY <3>3, Zenon DEF DeliveredTo, IsWorld
    <3>6. out.world.events \subseteq UNION { Emissions(c, c.attempts[k].up) : k \in 1..out.tries }
      BY <3>3, Zenon DEF DeliveredTo
    <3> QED
      BY <3>3, <3>4, <3>5, <3>6, Zenon DEF DeliveredTo
  <2>2. ASSUME case.part = "invoke"
        PROVE  LET s   == c.script
                   all == { <<s.key, e, "req">> : e \in EmittedBy(s, c.attempt.up) }
               IN  /\ OnceEach(out.world) /\ out.world.events \subseteq all
                   /\ out.err = "" => out.world.events = all /\ s.returns = "ok" /\ Behaves(s, c.attempt.up)
    <3>1. c \in InvokeCases /\ out = Invoke("req", c.script, c.attempt, NewWorld)
      BY <2>2, Zenon DEF CaseIsCall, InvokeCase
    <3>2. IsIntegration(c.script) /\ c.attempt.up \in BOOLEAN
      BY <3>1, AlgorithmsAssumption, Zenon
    <3> DEFINE s == c.script
               a == c.attempt
               x == Invoke("req", s, a, NewWorld)
               up == a.up
               all == { <<s.key, e, "req">> : e \in EmittedBy(s, up) }
    <3>3. Invoked(out, s, up)
      <4>1. IsIntegration(s) /\ a.up \in BOOLEAN
        BY <3>2, Zenon
      <4> HIDE DEF s, a
      <4>2. Invoked(x, s, a.up)
        BY <4>1, ExtensionIsInvoked
      <4>3. out = x
        BY <3>1, Zenon DEF s, a
      <4> HIDE DEF x, out
      <4> QED
        BY <4>2, <4>3
    <3> HIDE DEF c, out, s, up
    <3>4. OnceEach(out.world) /\ out.world.events \subseteq all
      BY <3>3, Zenon DEF Invoked, IsWorld
    <3>5. out.err = "" => all \subseteq out.world.events /\ s.returns = "ok" /\ Behaves(s, up)
      BY <3>3, Zenon DEF Invoked
    <3> QED
      BY <3>4, <3>5, Zenon DEF s, up
  <2> QED
    BY <2>1, <2>2, Zenon DEF RedeliveryLeavesOneTrace, Runs
<1> QED
  BY <1>1, CallsAreCases, PTL

-----------------------------------------------------------------------------
(* Lists.  In a finite set with a strict total order every element has its *)
(* own number of predecessors.                                             *)

IsOrder(S, pred) ==
    /\ pred \in [S -> SUBSET S]
    /\ \A x \in S : x \notin pred[x]
    /\ \A x, y \in S : x = y \/ x \in pred[y] \/ y \in pred[x]
    /\ \A x, y, z \in S : x \in pred[y] /\ y \in pred[z] => x \in pred[z]

LEMMA RankIsPlace ==
    ASSUME NEW S, IsFiniteSet(S), NEW pred, IsOrder(S, pred)
    PROVE  /\ Cardinality(S) \in Nat
           /\ \A x \in S : Cardinality(pred[x]) \in 0..(Cardinality(S) - 1)
           /\ \A x, y \in S : x \in pred[y] => Cardinality(pred[x]) < Cardinality(pred[y])
           /\ \A x, y \in S : Cardinality(pred[x]) = Cardinality(pred[y]) => x = y
           /\ \A n \in 1..Cardinality(S) : \E x \in S : Cardinality(pred[x]) = n - 1
<1> DEFINE m == Cardinality(S)
           rank(x) == Cardinality(pred[x])
<1>0. m \in Nat
  BY FS_CardinalityType, Zenon
<1>1. ASSUME NEW x \in S PROVE IsFiniteSet(pred[x]) /\ rank(x) \in 0..(m - 1)
  <2>1. IsFiniteSet(S \ {x}) /\ Cardinality(S \ {x}) = m - 1
    BY FS_RemoveElement, Zenon
  <2>2. pred[x] \in SUBSET (S \ {x})
    BY Zenon DEF IsOrder
  <2>3. IsFiniteSet(pred[x]) /\ rank(x) <= m - 1
    <3>1. IsFiniteSet(pred[x]) /\ Cardinality(pred[x]) <= Cardinality(S \ {x})
      BY <2>1, <2>2, FS_Subset, Zenon
    <3> QED
      BY <2>1, <3>1, Zenon
  <2>4. rank(x) \in Nat
    BY <2>3, FS_CardinalityType, Zenon
  <2> HIDE DEF m, rank
  <2> QED
    BY <1>0, <2>3, <2>4
<1>2. ASSUME NEW x \in S, NEW y \in S, x \in pred[y] PROVE rank(x) < rank(y)
  <2>1. pred[x] \in SUBSET pred[y]
    BY <1>2, Zenon DEF IsOrder
  <2>2. pred[x] # pred[y]
    BY <1>2, Zenon DEF IsOrder
  <2>3. rank(x) <= rank(y) /\ (rank(y) = rank(x) => pred[y] = pred[x])
    BY <1>1, <2>1, FS_Subset, Zenon
  <2>4. rank(x) \in 0..(m - 1) /\ rank(y) \in 0..(m - 1)
    BY <1>1, Zenon
  <2>5. rank(x) # rank(y)
    BY <2>2, <2>3, Zenon
  <2> HIDE DEF m, rank
  <2> QED
    BY <1>0, <2>3, <2>4, <2>5
<1>3. ASSUME NEW x \in S, NEW y \in S, rank(x) = rank(y) PROVE x = y
  <2>1. rank(x) \in 0..(m - 1) /\ rank(y) \in 0..(m - 1)
    BY <1>1, Zenon
  <2>2. ~(rank(x) < rank(y)) /\ ~(rank(y) < rank(x))
    <3> HIDE DEF m, rank
    <3> QED
      BY <1>0, <1>3, <2>1
  <2>3. x \notin pred[y] /\ y \notin pred[x]
    BY <1>2, <2>2, Zenon
  <2> QED
    BY <2>3, Zenon DEF IsOrder
<1>4. ASSUME NEW n \in 1..m PROVE \E x \in S : rank(x) = n - 1
  <2> DEFINE T == 0..(m - 1)
             f == [x \in S |-> rank(x)]
  <2>1. f \in [S -> T]
    BY <1>1, Zenon
  <2>2. f \in Injection(S, T)
    <3>1. \A x, y \in S : f[x] = f[y] => x = y
      BY <1>3, Zenon
    <3> QED
      BY <2>1, <3>1, Zenon DEF Injection, IsInjective
  <2>3. 0 \in Int /\ m - 1 \in Int
    BY <1>0
  <2>4. IsFiniteSet(T) /\ Cardinality(T) = IF 0 > m - 1 THEN 0 ELSE m - 1 - 0 + 1
    BY <2>3, FS_Interval, Zenon
  <2>5. Cardinality(T) = m
    <3> HIDE DEF m, T
    <3> QED
      BY <1>0, <2>4
  <2>6. f \in Surjection(S, T)
    BY <2>2, <2>4, <2>5, FS_Injection, Zenon
  <2>7. n - 1 \in T
    BY <1>0
  <2>8. PICK x \in S : f[x] = n - 1
    BY <2>6, <2>7, Zenon DEF Surjection
  <2> QED
    BY <2>8, Zenon
<1> QED
  BY <1>0, <1>1, <1>2, <1>3, <1>4, Zenon

\* A list has the elements of S in order: the n-th has n - 1 before it.
Lists(q, S, pred) ==
    /\ DOMAIN q = 1..Cardinality(S)
    /\ \A n \in 1..Cardinality(S) : q[n] \in S /\ Cardinality(pred[q[n]]) = n - 1

LEMMA ListsAll ==
    ASSUME NEW S, IsFiniteSet(S), NEW pred, IsOrder(S, pred), NEW q, Lists(q, S, pred)
    PROVE  /\ \A x \in S : \E n \in 1..Cardinality(S) : q[n] = x
           /\ \A i, j \in 1..Cardinality(S) : i < j => q[i] \in pred[q[j]]
           /\ \A i, j \in 1..Cardinality(S) : q[i] = q[j] => i = j
<1> DEFINE m == Cardinality(S)
<1>0. m \in Nat
  BY RankIsPlace, Zenon
<1>r. /\ \A x, y \in S : x \in pred[y] => Cardinality(pred[x]) < Cardinality(pred[y])
      /\ \A x, y \in S : Cardinality(pred[x]) = Cardinality(pred[y]) => x = y
  BY RankIsPlace, Zenon
<1>1. ASSUME NEW x \in S PROVE \E n \in 1..m : q[n] = x
  <2>1. Cardinality(pred[x]) \in 0..(m - 1)
    BY RankIsPlace, Zenon
  <2> DEFINE n == Cardinality(pred[x]) + 1
  <2>2. n \in 1..m /\ n - 1 = Cardinality(pred[x])
    BY <1>0, <2>1
  <2>3. q[n] \in S /\ Cardinality(pred[q[n]]) = n - 1
    BY <2>2, Zenon DEF Lists
  <2>4. q[n] = x
    <3>1. Cardinality(pred[q[n]]) = Cardinality(pred[x])
      BY <2>2, <2>3, Zenon
    <3> HIDE DEF n
    <3> QED
      BY <1>r, <2>3, <3>1, Zenon
  <2> QED
    BY <2>2, <2>4, Zenon
<1>2. ASSUME NEW i \in 1..m, NEW j \in 1..m, i < j PROVE q[i] \in pred[q[j]]
  <2>1. /\ q[i] \in S /\ Cardinality(pred[q[i]]) = i - 1
        /\ q[j] \in S /\ Cardinality(pred[q[j]]) = j - 1
    BY Zenon DEF Lists
  <2>2. ~(j - 1 < i - 1) /\ i - 1 # j - 1
    BY <1>0, <1>2
  <2>3. q[j] \notin pred[q[i]] /\ q[i] # q[j]
    BY <1>r, <2>1, <2>2, Zenon
  <2> QED
    BY <2>1, <2>3, Zenon DEF IsOrder
<1>3. ASSUME NEW i \in 1..m, NEW j \in 1..m, q[i] = q[j] PROVE i = j
  <2>1. i - 1 = j - 1
    BY <1>3, Zenon DEF Lists
  <2> QED
    BY <1>0, <2>1
<1> QED
  BY <1>1, <1>2, <1>3, Zenon

\* There is only one.
LEMMA OneList ==
    ASSUME NEW S, IsFiniteSet(S), NEW pred, IsOrder(S, pred), NEW q, NEW n \in Nat,
           DOMAIN q = 1..n, \A i \in 1..n : q[i] \in S, \A x \in S : \E i \in 1..n : q[i] = x,
           \A i, j \in 1..n : i < j => q[i] \in pred[q[j]]
    PROVE  n = Cardinality(S) /\ Lists(q, S, pred)
<1>1. \A i, j \in 1..n : q[i] = q[j] => i = j
  <2>1. ASSUME NEW i \in 1..n, NEW j \in 1..n, q[i] = q[j] PROVE i = j
    <3>1. ~(i < j) /\ ~(j < i)
      BY <2>1, Zenon DEF IsOrder
    <3> QED
      BY <3>1
  <2> QED
    BY <2>1, Zenon
<1>c. ASSUME NEW k \in 0..n
      PROVE  Cardinality({ q[i] : i \in 1..k }) = k /\ IsFiniteSet({ q[i] : i \in 1..k })
  <2> DEFINE T == { q[i] : i \in 1..k }
             f == [i \in 1..k |-> q[i]]
  <2>1. 1..k \subseteq 1..n /\ 1 \in Int /\ k \in Int
    OBVIOUS
  <2>2. f \in [1..k -> T] /\ (\A x \in T : \E i \in 1..k : f[i] = x) /\ \A i, j \in 1..k : f[i] = f[j] => i = j
    BY <1>1, <2>1, Zenon
  <2>3. f \in Surjection(1..k, T) /\ f \in Injection(1..k, T)
    BY <2>2, Zenon DEF Surjection, Injection, IsInjective
  <2>4. IsFiniteSet(1..k) /\ Cardinality(1..k) = IF 1 > k THEN 0 ELSE k - 1 + 1
    BY <2>1, FS_Interval, Zenon
  <2>5. Cardinality(1..k) = k
    BY <2>4
  <2>6. IsFiniteSet(T) /\ (Cardinality(T) = Cardinality(1..k) <=> f \in Injection(1..k, T))
    <3> HIDE DEF T, f
    <3> QED
      BY <2>3, <2>4, FS_Surjection, Zenon
  <2> QED
    BY <2>3, <2>5, <2>6, Zenon
<1>2. n = Cardinality(S)
  <2>1. { q[i] : i \in 1..n } = S
    BY Zenon
  <2>2. n \in 0..n
    OBVIOUS
  <2> QED
    BY <1>c, <2>1, <2>2, Zenon
<1>3. ASSUME NEW k \in 1..n PROVE Cardinality(pred[q[k]]) = k - 1
  <2>1. k - 1 \in 0..n
    OBVIOUS
  <2>2. pred[q[k]] = { q[i] : i \in 1..(k - 1) }
    <3>1. ASSUME NEW i \in 1..(k - 1) PROVE q[i] \in pred[q[k]]
      <4>1. i \in 1..n /\ i < k
        OBVIOUS
      <4> QED
        BY <4>1, Zenon
    <3>2. ASSUME NEW x \in pred[q[k]] PROVE \E i \in 1..(k - 1) : q[i] = x
      <4>1. x \in S
        BY Zenon DEF IsOrder
      <4>2. PICK i \in 1..n : q[i] = x
        BY <4>1, Zenon
      <4>3. i # k
        BY <4>2, Zenon DEF IsOrder
      <4>4. ~(k < i)
        <5>1. SUFFICES ASSUME k < i PROVE FALSE
          OBVIOUS
        <5>2. q[k] \in pred[q[i]]
          BY <5>1, Zenon
        <5>3. q[k] \in pred[q[k]]
          BY <4>2, <5>2, Zenon DEF IsOrder
        <5> QED
          BY <5>3, Zenon DEF IsOrder
      <4>5. i \in 1..(k - 1)
        BY <4>3, <4>4
      <4> QED
        BY <4>2, <4>5, Zenon
    <3> QED
      BY <3>1, <3>2
  <2> QED
    BY <1>c, <2>1, <2>2, Zenon
<1> QED
  BY <1>2, <1>3, Zenon DEF Lists

LEMMA SameList ==
    ASSUME NEW S, IsFiniteSet(S), NEW pred, IsOrder(S, pred), NEW p, Lists(p, S, pred), NEW q, Lists(q, S, pred),
           NEW n \in 1..Cardinality(S)
    PROVE  p[n] = q[n]
<1>1. p[n] \in S /\ q[n] \in S /\ Cardinality(pred[p[n]]) = Cardinality(pred[q[n]])
  BY Zenon DEF Lists
<1>2. \A x, y \in S : Cardinality(pred[x]) = Cardinality(pred[y]) => x = y
  BY RankIsPlace, Zenon
<1> QED
  BY <1>1, <1>2, Zenon

\* The positions I of a sequence, in order.
Below(I) == [i \in I |-> { j \in I : j < i }]

LEMMA PositionsOrder ==
    ASSUME NEW n \in Nat, NEW I, I \subseteq 1..n
    PROVE  IsFiniteSet(I) /\ Cardinality(I) \in Nat /\ IsOrder(I, Below(I))
<1>1. IsFiniteSet(1..n)
  BY FS_Interval
<1>2. IsFiniteSet(I)
  BY <1>1, FS_Subset, Zenon
<1>3. Cardinality(I) \in Nat
  BY <1>2, FS_CardinalityType, Zenon
<1>4. \A i \in I : i \in Nat
  OBVIOUS
<1>5. IsOrder(I, Below(I))
  <2>1. Below(I) \in [I -> SUBSET I]
    BY Zenon DEF Below
  <2>2. \A i, j \in I : i \in Below(I)[j] <=> i < j
    BY Zenon DEF Below
  <2>3. \A i, j \in I : i = j \/ i < j \/ j < i
    BY <1>4
  <2>4. \A i \in I : ~(i < i)
    BY <1>4
  <2>5. \A i, j, k \in I : i < j /\ j < k => i < k
    BY <1>4
  <2> QED
    BY <2>1, <2>2, <2>3, <2>4, <2>5, Zenon DEF IsOrder
<1> QED
  BY <1>2, <1>3, <1>5, Zenon

PicksAt(at, out, q, I) ==
    /\ \A k \in 1..Cardinality(I) : at[k] \in I /\ out[k] = q[at[k]]
    /\ \A k \in 1..Cardinality(I) : Cardinality({ j \in I : j < at[k] }) = k - 1
    /\ \A i \in I : \E k \in 1..Cardinality(I) : at[k] = i
    /\ \A k, l \in 1..Cardinality(I) : k < l => at[k] < at[l]

LEMMA PickedAt ==
    ASSUME NEW n \in Nat, NEW I, I \subseteq 1..n, NEW q
    PROVE  /\ IsFiniteSet(I) /\ Cardinality(I) \in Nat
           /\ DOMAIN Picked(q, I) = 1..Cardinality(I)
           /\ \E at : PicksAt(at, Picked(q, I), q, I)
<1> DEFINE m  == Cardinality(I)
           at == Ordered(I, <)
<1>0. IsFiniteSet(I) /\ m \in Nat /\ IsOrder(I, Below(I))
  BY PositionsOrder, Zenon
<1>1. \A k \in 1..m : \E x \in I : Cardinality(Below(I)[x]) = k - 1
  <2> DEFINE pred == Below(I)
  <2>1. IsOrder(I, pred)
    BY <1>0, Zenon
  <2> HIDE DEF pred
  <2>2. IsFiniteSet(I)
    BY <1>0, Zenon
  <2> HIDE DEF at
  <2>3. \A k \in 1..Cardinality(I) : \E x \in I : Cardinality(pred[x]) = k - 1
    BY ONLY <2>1, <2>2, RankIsPlace, SMT
  <2> QED
    BY <2>3, Zenon DEF pred
<1>2. \A x \in I : Below(I)[x] = { j \in I : j < x }
  BY Zenon DEF Below
<1>3. ASSUME NEW k \in 1..m PROVE at[k] \in I /\ Cardinality({ j \in I : j < at[k] }) = k - 1
  <2>1. at[k] = CHOOSE x \in I : Cardinality({ y \in I : y < x }) = k - 1
    BY Zenon DEF Ordered
  <2>2. \E x \in I : Cardinality({ y \in I : y < x }) = k - 1
    BY <1>1, <1>2, Zenon
  <2> QED
    BY <2>1, <2>2, Zenon
<1>4. DOMAIN at = 1..m
  BY Zenon DEF Ordered
<1> HIDE DEF at
<1>5. Lists(at, I, Below(I))
  BY <1>2, <1>3, <1>4, Zenon DEF Lists
<1>6. /\ \A i \in I : \E k \in 1..m : at[k] = i
      /\ \A k, l \in 1..m : k < l => at[k] \in Below(I)[at[l]]
  <2> DEFINE pred == Below(I)
  <2>1. IsOrder(I, pred) /\ Lists(at, I, pred)
    BY <1>0, <1>5, Zenon
  <2> HIDE DEF pred
  <2>2. /\ \A i \in I : \E k \in 1..m : at[k] = i
        /\ \A k, l \in 1..m : k < l => at[k] \in pred[at[l]]
    BY <1>0, <2>1, ListsAll
  <2> QED
    BY <2>2, Zenon DEF pred
<1>7. \A k, l \in 1..m : k < l => at[k] < at[l]
  BY <1>2, <1>3, <1>6, Zenon
<1>8. DOMAIN Picked(q, I) = 1..m /\ \A k \in 1..m : Picked(q, I)[k] = q[at[k]]
  BY Zenon DEF Picked, at
<1>9. \A k \in 1..m : at[k] \in I /\ Picked(q, I)[k] = q[at[k]]
  BY <1>3, <1>8, Zenon
<1>10. \A k \in 1..m : Cardinality({ j \in I : j < at[k] }) = k - 1
  BY <1>3, Zenon
<1> QED
  BY <1>0, <1>6, <1>7, <1>8, <1>9, <1>10, Zenon DEF PicksAt

-----------------------------------------------------------------------------
(* Rows, newest first.                                                     *)

AreRows(S) ==
    /\ IsFiniteSet(S)
    /\ \A x \in S : x.t \in Nat /\ x.id \in Nat
    /\ \A x, y \in S : x.id = y.id => x = y
NewerIn(S) == [x \in S |-> { y \in S : Newer(y, x) }]

LEMMA RowsOrder ==
    ASSUME NEW S, AreRows(S)
    PROVE  IsFiniteSet(S) /\ Cardinality(S) \in Nat /\ IsOrder(S, NewerIn(S))
<1>1. NewerIn(S) \in [S -> SUBSET S] /\ \A x, y \in S : x \in NewerIn(S)[y] <=> Newer(x, y)
  BY Zenon DEF NewerIn
<1>2. \A x \in S : x.t \in Nat /\ x.id \in Nat
  BY Zenon DEF AreRows
<1>3. ASSUME NEW x \in S, NEW y \in S PROVE x = y \/ Newer(x, y) \/ Newer(y, x)
  <2>1. x.id = y.id => x = y
    BY Zenon DEF AreRows
  <2> QED
    BY <1>2, <2>1 DEF Newer
<1>4. \A x \in S : ~Newer(x, x)
  BY <1>2 DEF Newer
<1>5. \A x, y, z \in S : Newer(x, y) /\ Newer(y, z) => Newer(x, z)
  BY <1>2 DEF Newer
<1>6. IsOrder(S, NewerIn(S))
  BY <1>1, <1>3, <1>4, <1>5, Zenon DEF IsOrder
<1>7. IsFiniteSet(S)
  BY Zenon DEF AreRows
<1> QED
  BY <1>6, <1>7, FS_CardinalityType, Zenon

LEMMA SomeRows ==
    ASSUME NEW S, AreRows(S), NEW T, T \subseteq S
    PROVE  AreRows(T)
<1>1. IsFiniteSet(T)
  BY FS_Subset, Zenon DEF AreRows
<1> QED
  BY <1>1, Zenon DEF AreRows

LEMMA NewestFirst ==
    ASSUME NEW S, AreRows(S)
    PROVE  LET q == Ordered(S, Newer)
           IN  /\ q \in Seq(S) /\ Len(q) = Cardinality(S) /\ Lists(q, S, NewerIn(S))
               /\ q = [n \in 1..Cardinality(S) |-> q[n]]
               /\ \A x \in S : \E n \in 1..Len(q) : q[n] = x
               /\ \A i, j \in 1..Len(q) : i < j => Newer(q[i], q[j])
<1> DEFINE m == Cardinality(S)
           q == Ordered(S, Newer)
<1>0. IsFiniteSet(S) /\ m \in Nat /\ IsOrder(S, NewerIn(S))
  BY RowsOrder, Zenon
<1>1. \A k \in 1..m : \E x \in S : Cardinality(NewerIn(S)[x]) = k - 1
  <2> DEFINE pred == NewerIn(S)
  <2>1. IsOrder(S, pred)
    BY <1>0, Zenon
  <2> HIDE DEF pred
  <2>2. \A k \in 1..m : \E x \in S : Cardinality(pred[x]) = k - 1
    BY <1>0, <2>1, RankIsPlace
  <2> QED
    BY <2>2, Zenon DEF pred
<1>2. \A x \in S : NewerIn(S)[x] = { y \in S : Newer(y, x) }
  BY Zenon DEF NewerIn
<1>3. ASSUME NEW k \in 1..m PROVE q[k] \in S /\ Cardinality({ y \in S : Newer(y, q[k]) }) = k - 1
  <2>1. q[k] = CHOOSE x \in S : Cardinality({ y \in S : Newer(y, x) }) = k - 1
    BY Zenon DEF Ordered
  <2>2. \E x \in S : Cardinality({ y \in S : Newer(y, x) }) = k - 1
    BY <1>1, <1>2, Zenon
  <2> QED
    BY <2>1, <2>2, Zenon
<1>4. DOMAIN q = 1..m /\ q = [n \in 1..m |-> q[n]]
  BY SMTT(30) DEF Ordered
<1> HIDE DEF q
<1>5. Lists(q, S, NewerIn(S))
  BY <1>2, <1>3, <1>4, Zenon DEF Lists
<1>6. /\ \A x \in S : \E k \in 1..m : q[k] = x
      /\ \A k, l \in 1..m : k < l => q[k] \in NewerIn(S)[q[l]]
  <2> DEFINE pred == NewerIn(S)
  <2>1. IsOrder(S, pred) /\ Lists(q, S, pred)
    BY <1>0, <1>5, Zenon
  <2> HIDE DEF pred
  <2>2. /\ \A x \in S : \E k \in 1..m : q[k] = x
        /\ \A k, l \in 1..m : k < l => q[k] \in pred[q[l]]
    BY <1>0, <2>1, ListsAll
  <2> QED
    BY <2>2, Zenon DEF pred
<1>7. \A k, l \in 1..m : k < l => Newer(q[k], q[l])
  BY <1>2, <1>3, <1>6, Zenon
<1>8. q \in Seq(S) /\ Len(q) = m
  <2>1. \A k \in 1..m : q[k] \in S
    BY <1>3, Zenon
  <2> HIDE DEF m
  <2> QED
    BY <1>0, <1>4, <2>1
<1> QED
  BY <1>4, <1>5, <1>6, <1>7, <1>8, Zenon DEF q

\* The one list of these rows that is in order.
LEMMA OnlyNewestFirst ==
    ASSUME NEW S, AreRows(S), NEW q, NEW n \in Nat,
           DOMAIN q = 1..n, \A i \in 1..n : q[i] \in S, \A x \in S : \E i \in 1..n : q[i] = x,
           \A i, j \in 1..n : i < j => Newer(q[i], q[j])
    PROVE  n = Cardinality(S) /\ \A i \in 1..n : q[i] = Ordered(S, Newer)[i]
<1>0. IsFiniteSet(S) /\ IsOrder(S, NewerIn(S)) /\ Lists(Ordered(S, Newer), S, NewerIn(S))
  BY RowsOrder, NewestFirst, Zenon
<1>1. \A i, j \in 1..n : i < j => q[i] \in NewerIn(S)[q[j]]
  BY Zenon DEF NewerIn
<1> DEFINE pred == NewerIn(S)
           p == Ordered(S, Newer)
<1> HIDE DEF pred, p
<1>2. n = Cardinality(S) /\ Lists(q, S, pred)
  BY <1>0, <1>1, OneList DEF pred
<1>3. \A i \in 1..n : q[i] = p[i]
  BY <1>0, <1>2, SameList DEF pred, p
<1> QED
  BY <1>2, <1>3, Zenon DEF p

LEMMA TablesHaveRows ==
    ASSUME NEW table, IsTable(table), NEW f
    PROVE  AreRows(Hits(table, f))
<1> DEFINE n == Len(table)
           H == Hits(table, f)
           T == { table[i] : i \in 1..n }
           g == [i \in 1..n |-> table[i]]
<1>1. n \in Nat /\ DOMAIN table = 1..n
  BY LenProperties, Zenon DEF IsTable
<1>2. H \in SUBSET T
  BY <1>1, Zenon DEF Hits
<1>3. IsFiniteSet(T)
  <2>1. g \in Surjection(1..n, T)
    <3>1. g \in [1..n -> T] /\ \A x \in T : \E i \in 1..n : g[i] = x
      BY Zenon
    <3> QED
      BY <3>1, Zenon DEF Surjection
  <2>2. IsFiniteSet(1..n)
    BY <1>1, FS_Interval
  <2> HIDE DEF g, T, n
  <2> QED
    BY <2>1, <2>2, FS_Surjection, Zenon
<1>4. IsFiniteSet(H)
  BY <1>2, <1>3, FS_Subset, Zenon
<1>5. \A x \in T : \E i \in DOMAIN table : table[i] = x
  BY <1>1, Zenon
<1>6. \A x \in T : x.t \in Nat /\ x.id \in Nat
  BY <1>5, Zenon DEF IsTable
<1>7. \A x, y \in T : x.id = y.id => x = y
  BY <1>5, Zenon DEF IsTable
<1> QED
  BY <1>2, <1>4, <1>6, <1>7, Zenon DEF AreRows

\* The rows of a page: those that pass the filter and come after the cursor.
Behind(table, f, c) == { r \in Hits(table, f) : After(c, r) }

\* What either store answers: the first rows of the list.
PageOfRows(S, limit) ==
    LET q == Ordered(S, Newer)
    IN  [ rows |-> SubSeq(q, 1, IF Len(q) > limit THEN limit ELSE Len(q)),
          next |-> IF Len(q) > limit THEN EncodeCursor(q[limit]) ELSE Start ]

LEMMA Limits == \A n \in Int : ClampLimit(n) \in Nat \ {0}
  BY PagingAssumption DEF ClampLimit

LEMMA MemPage ==
    ASSUME NEW table, IsTable(table), NEW f, NEW c, NEW n \in Int
    PROVE  MemList(table, f, c, n) = PageOfRows(Behind(table, f, c), ClampLimit(n))
<1> DEFINE H == Hits(table, f)
           W == Behind(table, f, c)
           items == Ordered(H, Newer)
           limit == ClampLimit(n)
           I == { i \in DOMAIN items : After(c, items[i]) }
           out == Picked(items, I)
           q == Ordered(W, Newer)
<1>0. limit \in Nat \ {0}
  BY Limits, Zenon
<1>1. AreRows(H) /\ W \subseteq H
  BY TablesHaveRows, Zenon DEF Behind
<1>2. AreRows(W)
  BY <1>1, SomeRows, Zenon
<1>w. \A r \in H : r \in W <=> After(c, r)
  BY Zenon DEF Behind
<1>m. MemList(table, f, c, n) =
          LET page == SubSeq(out, 1, IF Len(out) > limit THEN limit ELSE Len(out))
          IN  [rows |-> page, next |-> IF Len(out) > limit THEN EncodeCursor(Last(page)) ELSE Start]
  BY Zenon DEF MemList, PageOf
<1> HIDE DEF H, W, limit
<1>3. /\ items \in Seq(H) /\ Len(items) = Cardinality(H)
      /\ \A x \in H : \E i \in 1..Len(items) : items[i] = x
      /\ \A i, j \in 1..Len(items) : i < j => Newer(items[i], items[j])
  BY <1>1, NewestFirst, Zenon
<1>4. /\ q \in Seq(W) /\ Len(q) = Cardinality(W)
      /\ q = [k \in 1..Cardinality(W) |-> q[k]]
  BY <1>2, NewestFirst, Zenon
<1> HIDE DEF items, q
<1>5. Len(items) \in Nat /\ DOMAIN items = 1..Len(items) /\ \A i \in 1..Len(items) : items[i] \in H
  BY <1>3, LenProperties, ElementOfSeq
<1>6. I \subseteq 1..Len(items)
  BY <1>5, Zenon
<1>i. \A i \in 1..Len(items) : i \in I <=> items[i] \in W
  BY <1>5, <1>w, Zenon
<1> HIDE DEF I
<1>7. Cardinality(I) \in Nat /\ DOMAIN out = 1..Cardinality(I) /\ \E at : PicksAt(at, out, items, I)
  <2> DEFINE N == Len(items)
  <2>1. N \in Nat /\ I \subseteq 1..N
    BY <1>5, <1>6, Zenon
  <2> HIDE DEF N
  <2> QED
    BY <2>1, PickedAt, Zenon
<1>8. PICK at : /\ \A k \in 1..Cardinality(I) : at[k] \in I /\ out[k] = items[at[k]]
                /\ \A i \in I : \E k \in 1..Cardinality(I) : at[k] = i
                /\ \A k, l \in 1..Cardinality(I) : k < l => at[k] < at[l]
  BY <1>7, Zenon DEF PicksAt
<1>d. out = [k \in 1..Cardinality(I) |-> out[k]]
  BY DEF Picked
<1> DEFINE m == Cardinality(I)
<1> HIDE DEF out, m
<1>9. m = Cardinality(W) /\ \A k \in 1..m : out[k] = q[k]
  <2>1. \A k \in 1..m : out[k] \in W
    BY <1>6, <1>8, <1>i, Zenon DEF m
  <2>2. ASSUME NEW x \in W PROVE \E k \in 1..m : out[k] = x
    <3>1. x \in H
      BY <1>1, Zenon
    <3>2. PICK i \in 1..Len(items) : items[i] = x
      BY <1>3, <3>1, Zenon
    <3>3. i \in I
      BY <1>i, <3>2, Zenon
    <3>4. PICK k \in 1..m : at[k] = i
      BY <1>8, <3>3, Zenon DEF m
    <3>5. out[k] = items[at[k]]
      BY <1>8, Zenon DEF m
    <3> QED
      BY <3>2, <3>4, <3>5, Zenon
  <2>3. ASSUME NEW k \in 1..m, NEW l \in 1..m, k < l PROVE Newer(out[k], out[l])
    <3>1. at[k] \in I /\ at[l] \in I /\ at[k] < at[l] /\ out[k] = items[at[k]] /\ out[l] = items[at[l]]
      BY <1>8, <2>3, Zenon DEF m
    <3> QED
      BY <1>3, <1>6, <3>1, Zenon
  <2>4. m \in Nat /\ DOMAIN out = 1..m
    BY <1>7, Zenon DEF m
  <2>5. m = Cardinality(W) /\ \A k \in 1..m : out[k] = Ordered(W, Newer)[k]
    BY <1>2, <2>1, <2>2, <2>3, <2>4, OnlyNewestFirst
  <2> QED
    BY <2>5, Zenon DEF q
<1>10. out = q
  BY <1>4, <1>9, <1>d, Zenon DEF m
<1>11. ASSUME Len(q) > limit PROVE Last(SubSeq(q, 1, limit)) = q[limit]
  BY <1>0, <1>4, <1>11 DEF Last
<1> QED
  BY <1>10, <1>11, <1>m, Zenon DEF PageOfRows, q, W, limit

LEMMA PgPage ==
    ASSUME NEW table, IsTable(table), NEW f, NEW c, NEW n \in Int
    PROVE  PgList(table, f, c, n) = PageOfRows(Behind(table, f, c), ClampLimit(n))
<1> DEFINE H == Hits(table, f)
           where == { r \in H : c # Start => (r.t < c.t \/ (r.t = c.t /\ r.id < c.id)) }
           W == Behind(table, f, c)
           limit == ClampLimit(n)
           top == { r \in W : Cardinality({ x \in W : Newer(x, r) }) < limit + 1 }
           rows == Ordered(top, Newer)
           q == Ordered(W, Newer)
<1>0. limit \in Nat \ {0}
  BY Limits, Zenon
<1>1. AreRows(H) /\ W \subseteq H
  BY TablesHaveRows, Zenon DEF Behind
<1>2. AreRows(W)
  BY <1>1, SomeRows, Zenon
<1>t. top \subseteq W
  BY Zenon
<1>3. AreRows(top)
  BY <1>2, <1>t, SomeRows, Zenon
<1>4. where = W
  BY Zenon DEF Behind, After
<1>m. PgList(table, f, c, n) = IF Len(rows) <= limit THEN [rows |-> rows, next |-> Start]
                               ELSE [rows |-> Front(rows), next |-> EncodeCursor(rows[limit])]
  BY <1>4, Zenon DEF PgList
<1>5. /\ q \in Seq(W) /\ Len(q) = Cardinality(W) /\ Lists(q, W, NewerIn(W))
      /\ \A x \in W : \E i \in 1..Len(q) : q[i] = x
      /\ \A i, j \in 1..Len(q) : i < j => Newer(q[i], q[j])
  BY <1>2, NewestFirst, Zenon
<1>6. rows \in Seq(top) /\ Len(rows) = Cardinality(top)
  BY <1>3, NewestFirst, Zenon
<1>7. \A i \in 1..Len(q) : q[i] \in W /\ Cardinality({ x \in W : Newer(x, q[i]) }) = i - 1
  <2>1. \A i \in 1..Len(q) : q[i] \in W /\ Cardinality(NewerIn(W)[q[i]]) = i - 1
    BY <1>5, Zenon DEF Lists
  <2> QED
    BY <2>1, Zenon DEF NewerIn
<1>8. Len(q) \in Nat
  BY <1>5
<1> DEFINE k == IF Len(q) > limit + 1 THEN limit + 1 ELSE Len(q)
           p == [i \in 1..k |-> q[i]]
<1>k. k \in Nat /\ k <= Len(q) /\ k <= limit + 1 /\ 1..k \subseteq 1..Len(q)
  <2> HIDE DEF limit, q
  <2> QED
    BY <1>0, <1>8
<1>9. \A i \in 1..Len(q) : q[i] \in top <=> i \in 1..k
  <2>1. \A i \in 1..Len(q) : q[i] \in top <=> i - 1 < limit + 1
    BY <1>7, Zenon
  <2>2. \A i \in 1..Len(q) : i - 1 < limit + 1 <=> i \in 1..k
    <3> HIDE DEF limit, q
    <3> QED
      BY <1>0, <1>8
  <2> QED
    BY <2>1, <2>2, Zenon
<1> HIDE DEF W, limit, top, q, rows, k
<1>10. k = Cardinality(top) /\ \A i \in 1..k : q[i] = rows[i]
  <2>1. DOMAIN p = 1..k /\ \A i \in 1..k : p[i] = q[i]
    BY Zenon
  <2> HIDE DEF p
  <2>2. \A i \in 1..k : p[i] \in top
    BY <1>9, <1>k, <2>1, Zenon
  <2>3. ASSUME NEW x \in top PROVE \E i \in 1..k : p[i] = x
    <3>1. PICK i \in 1..Len(q) : q[i] = x
      BY <1>5, <1>t, Zenon
    <3> QED
      BY <1>9, <2>1, <3>1, Zenon
  <2>4. \A i, j \in 1..k : i < j => Newer(p[i], p[j])
    BY <1>5, <1>k, <2>1, Zenon
  <2>5. k \in Nat
    BY <1>k
  <2>d. DOMAIN p = 1..k
    BY <2>1, Zenon
  <2>e. \A x \in top : \E i \in 1..k : p[i] = x
    BY <2>3, Zenon
  <2>6. k = Cardinality(top) /\ \A i \in 1..k : p[i] = Ordered(top, Newer)[i]
    BY <1>3, <2>d, <2>e, <2>2, <2>4, <2>5, OnlyNewestFirst, Zenon
  <2> QED
    BY <2>1, <2>6, Zenon DEF rows
<1>11. CASE Len(q) <= limit
  <2>1. k = Len(q) /\ ~(Len(q) > limit)
    BY <1>0, <1>8, <1>11 DEF k
  <2>2. rows = SubSeq(q, 1, Len(q)) /\ Len(rows) <= limit
    BY <1>5, <1>6, <1>10, <1>11, <2>1
  <2> QED
    BY <1>m, <2>1, <2>2, Zenon DEF PageOfRows, q, W, limit
<1>12. CASE Len(q) > limit
  <2>1. k = limit + 1 /\ ~(Len(rows) <= limit) /\ Len(rows) = limit + 1
    BY <1>0, <1>6, <1>8, <1>10, <1>12 DEF k
  <2>2. Front(rows) = SubSeq(q, 1, limit) /\ rows[limit] = q[limit]
    BY <1>0, <1>5, <1>6, <1>10, <1>12, <2>1 DEF Front
  <2> QED
    BY <1>12, <1>m, <2>1, <2>2, Zenon DEF PageOfRows, q, W, limit
<1> QED
  BY <1>0, <1>8, <1>11, <1>12

-----------------------------------------------------------------------------
(* A page and what it leaves for the next one.                             *)

IsRow(r) == r.t \in Nat /\ r.id \in Nat
IsPage(page, S) ==
    /\ page.rows \in Seq(S)
    /\ \A i, j \in 1..Len(page.rows) : i < j => Newer(page.rows[i], page.rows[j])
    /\ page.next = Start => \A r \in S : \E i \in 1..Len(page.rows) : page.rows[i] = r
    /\ page.next # Start =>
           /\ Len(page.rows) >= 1
           /\ \A r \in S : (\E i \in 1..Len(page.rows) : page.rows[i] = r) \/ After(page.next, r)
           /\ \A r : IsRow(r) /\ After(page.next, r) => \A i \in 1..Len(page.rows) : Newer(page.rows[i], r)

LEMMA NewerTransitive ==
    ASSUME NEW x, NEW y, NEW z, IsRow(x), IsRow(y), IsRow(z), Newer(x, y), Newer(y, z)
    PROVE  Newer(x, z)
  BY DEF IsRow, Newer

LEMMA CursorIsRow ==
    ASSUME NEW x, IsRow(x), NEW r
    PROVE  EncodeCursor(x) # Start /\ (After(EncodeCursor(x), r) <=> Newer(x, r))
<1>1. EncodeCursor(x).t = x.t /\ EncodeCursor(x).id = x.id /\ Start.t = -1
  BY DEF EncodeCursor, Start, NotSet
<1>2. EncodeCursor(x) # Start
  BY <1>1 DEF IsRow
<1>3. After(EncodeCursor(x), r) <=> r.t < x.t \/ (r.t = x.t /\ r.id < x.id)
  BY <1>1, <1>2, Zenon DEF After
<1>4. Newer(x, r) <=> r.t < x.t \/ (r.t = x.t /\ r.id < x.id)
  <2>1. (x.t > r.t <=> r.t < x.t) /\ (x.id > r.id <=> r.id < x.id)
    BY SMT
  <2> QED
    BY <2>1, Zenon DEF Newer
<1> QED
  BY <1>2, <1>3, <1>4, Zenon

LEMMA RowsMakeAPage ==
    ASSUME NEW S, AreRows(S), NEW limit \in Nat \ {0}
    PROVE  IsPage(PageOfRows(S, limit), S)
<1> DEFINE q == Ordered(S, Newer)
           m == IF Len(q) > limit THEN limit ELSE Len(q)
           p == SubSeq(q, 1, m)
           c == IF Len(q) > limit THEN EncodeCursor(q[limit]) ELSE Start
<1>1. /\ q \in Seq(S)
      /\ \A x \in S : \E n \in 1..Len(q) : q[n] = x
      /\ \A i, j \in 1..Len(q) : i < j => Newer(q[i], q[j])
  BY NewestFirst, Zenon
<1>2. PageOfRows(S, limit) = [rows |-> p, next |-> c]
  BY Zenon DEF PageOfRows
<1>3. PageOfRows(S, limit).rows = p /\ PageOfRows(S, limit).next = c
  BY <1>2
<1> HIDE DEF q, c
<1>4. Len(q) \in Nat /\ m \in Nat /\ m <= Len(q) /\ 1..m \subseteq 1..Len(q)
  BY <1>1
<1>q. \A i \in 1..Len(q) : q[i] \in S /\ IsRow(q[i])
  <2>1. \A i \in 1..Len(q) : q[i] \in S
    BY <1>1
  <2> QED
    BY <2>1, Zenon DEF AreRows, IsRow
<1>5. p \in Seq(S) /\ Len(p) = m /\ \A i \in 1..m : p[i] = q[i]
  BY <1>1, <1>4
<1> HIDE DEF p
<1>6. \A i, j \in 1..m : i < j => Newer(p[i], p[j])
  BY <1>1, <1>4, <1>5, Zenon
<1>7. CASE Len(q) > limit
  <2>1. m = limit /\ limit \in 1..Len(q) /\ limit \in 1..m
    BY <1>1, <1>7
  <2>2. c = EncodeCursor(q[limit])
    BY <1>7, Zenon DEF c
  <2>3. c # Start /\ \A r : After(c, r) <=> Newer(q[limit], r)
    <3> DEFINE x == q[limit]
    <3>1. IsRow(x)
      BY <1>q, <2>1, Zenon
    <3> HIDE DEF x
    <3>2. \A r : EncodeCursor(x) # Start /\ (After(EncodeCursor(x), r) <=> Newer(x, r))
      BY <3>1, CursorIsRow, Zenon
    <3> QED
      BY <2>2, <3>2, Zenon DEF x
  <2>4. ASSUME NEW r \in S PROVE (\E i \in 1..m : p[i] = r) \/ After(c, r)
    <3>1. PICK i \in 1..Len(q) : q[i] = r
      BY <1>1, Zenon
    <3>2. CASE i \in 1..m
      BY <1>5, <3>1, <3>2, Zenon
    <3>3. CASE i \notin 1..m
      <4>1. limit < i
        BY <2>1, <3>3
      <4>2. Newer(q[limit], q[i])
        BY <1>1, <2>1, <4>1, Zenon
      <4> QED
        BY <2>3, <3>1, <4>2, Zenon
    <3> QED
      BY <3>2, <3>3, Zenon
  <2>5. ASSUME NEW r, IsRow(r), After(c, r), NEW i \in 1..m PROVE Newer(p[i], r)
    <3>1. Newer(q[limit], r) /\ p[i] = q[i] /\ i \in 1..Len(q)
      BY <1>4, <1>5, <2>3, <2>5, Zenon
    <3>2. CASE i = limit
      BY <3>1, <3>2, Zenon
    <3>3. CASE i # limit
      <4>1. i < limit
        BY <2>1, <3>3
      <4>2. Newer(q[i], q[limit])
        BY <1>1, <2>1, <3>1, <4>1, Zenon
      <4>3. IsRow(q[i]) /\ IsRow(q[limit])
        BY <1>q, <2>1, <3>1, Zenon
      <4> QED
        BY <2>5, <3>1, <4>2, <4>3, NewerTransitive, Zenon
    <3> QED
      BY <3>2, <3>3, Zenon
  <2>6. Len(p) >= 1
    BY <1>5, <2>1
  <2> QED
    BY <1>3, <1>5, <1>6, <2>3, <2>4, <2>5, <2>6, Zenon DEF IsPage
<1>8. CASE ~(Len(q) > limit)
  <2>1. m = Len(q) /\ c = Start
    BY <1>8, Zenon DEF c
  <2>2. \A r \in S : \E i \in 1..m : p[i] = r
    BY <1>1, <1>5, <2>1, Zenon
  <2> QED
    BY <1>3, <1>5, <1>6, <2>1, <2>2, Zenon DEF IsPage
<1> QED
  BY <1>7, <1>8, Zenon

IsPages(c) ==
    /\ c.limit \in Int /\ c.tables \in Seq(ToSet(c.tables))
    /\ \A k \in DOMAIN c.tables : IsTable(c.tables[k])
    /\ \A a, b \in Rows(c.tables) : a.id = b.id => a.t = b.t
    /\ Cardinality({ r.id : r \in Rows(c.tables) }) < Len(c.tables)

\* The rows that every request finds.
Stays(id, c) == \A k \in DOMAIN c.tables : \E r \in Hits(c.tables[k], c.filter) : r.id = id

\* After k requests the list is in order, and a row that stays is listed or
\* comes after the cursor.
WalkedTo(w, k, c) ==
    /\ w.done \in BOOLEAN /\ w.listed \in Seq(Rows(c.tables))
    /\ \A i \in 1..Len(w.listed) : \E j \in 1..k : w.listed[i] \in Hits(c.tables[j], c.filter)
    /\ \A i, j \in 1..Len(w.listed) : i < j => Newer(w.listed[i], w.listed[j])
    /\ ~w.done => Len(w.listed) >= k
    /\ ~w.done => \A r \in Rows(c.tables) : After(w.cursor, r) => \A i \in 1..Len(w.listed) : Newer(w.listed[i], r)
    /\ \A r \in Rows(c.tables) : Stays(r.id, c) =>
           (\E i \in 1..Len(w.listed) : w.listed[i].id = r.id) \/ (~w.done /\ After(w.cursor, r))

LEMMA PagesHaveRows ==
    ASSUME NEW c, IsPages(c)
    PROVE  /\ Len(c.tables) \in Nat /\ DOMAIN c.tables = 1..Len(c.tables)
           /\ \A r \in Rows(c.tables) : IsRow(r)
           /\ \A k \in 1..Len(c.tables) : Hits(c.tables[k], c.filter) \subseteq Rows(c.tables)
<1>1. Len(c.tables) \in Nat /\ DOMAIN c.tables = 1..Len(c.tables)
  BY LenProperties, Zenon DEF IsPages
<1>2. ASSUME NEW r \in Rows(c.tables) PROVE IsRow(r)
  <2>1. PICK k \in DOMAIN c.tables : r \in ToSet(c.tables[k])
    BY Zenon DEF Rows
  <2>2. PICK i \in DOMAIN c.tables[k] : r = c.tables[k][i]
    BY <2>1, Zenon DEF ToSet
  <2> QED
    BY <2>1, <2>2, Zenon DEF IsPages, IsTable, IsRow
<1>3. ASSUME NEW k \in 1..Len(c.tables), NEW r \in Hits(c.tables[k], c.filter) PROVE r \in Rows(c.tables)
  <2>1. r \in ToSet(c.tables[k])
    BY Zenon DEF Hits, ToSet
  <2> QED
    BY <1>1, <2>1, Zenon DEF Rows
<1> QED
  BY <1>1, <1>2, <1>3, Zenon

LEMMA WalkStep ==
    ASSUME NEW c, IsPages(c), NEW w, NEW k \in Nat, k < Len(c.tables), WalkedTo(w, k, c), NEW page,
           page = PageOfRows(Behind(c.tables[k + 1], c.filter, w.cursor), ClampLimit(c.limit))
    PROVE  WalkedTo(Turn(w, page), k + 1, c)
<1> DEFINE All == Rows(c.tables)
           H   == Hits(c.tables[k + 1], c.filter)
           S   == Behind(c.tables[k + 1], c.filter, w.cursor)
           q   == w.listed
           p   == page.rows
           v   == [listed |-> q \o p, cursor |-> page.next, done |-> page.next = Start]
<1>0. /\ \A r \in All : IsRow(r)
      /\ \A j \in 1..Len(c.tables) : Hits(c.tables[j], c.filter) \subseteq All
      /\ DOMAIN c.tables = 1..Len(c.tables) /\ Len(c.tables) \in Nat
  BY PagesHaveRows, Zenon
<1>k. k + 1 \in 1..Len(c.tables) /\ 1..k \subseteq 1..(k + 1) /\ k + 1 \in 1..(k + 1)
  BY <1>0
<1>1. CASE w.done
  <2>1. Turn(w, page) = w
    BY <1>1, Zenon DEF Turn
  <2>2. \A i \in 1..Len(w.listed) : \E j \in 1..(k + 1) : w.listed[i] \in Hits(c.tables[j], c.filter)
    BY <1>k, Zenon DEF WalkedTo
  <2>3. WalkedTo(w, k + 1, c)
    BY <1>1, <2>2, Zenon DEF WalkedTo
  <2> QED
    BY <2>1, <2>3, Zenon
<1>2. CASE ~w.done
  <2>0. Turn(w, page) = v
    BY <1>2, Zenon DEF Turn
  <2>1. IsTable(c.tables[k + 1])
    BY <1>0, <1>k, Zenon DEF IsPages
  <2>2. IsPage(page, S)
    <3>1. AreRows(H)
      BY <2>1, TablesHaveRows, Zenon
    <3>2. S \subseteq H
      BY Zenon DEF Behind
    <3>3. AreRows(S)
      BY <3>1, <3>2, SomeRows, Zenon
    <3>4. ClampLimit(c.limit) \in Nat \ {0}
      BY Limits, Zenon DEF IsPages
    <3> HIDE DEF S
    <3>5. IsPage(PageOfRows(S, ClampLimit(c.limit)), S)
      BY <3>3, <3>4, RowsMakeAPage, Zenon
    <3> QED
      BY <3>5, Zenon DEF S
  <2>3. S \subseteq H /\ H \subseteq All /\ \A r \in H : r \in S <=> After(w.cursor, r)
    BY <1>0, <1>k, Zenon DEF Behind
  <2>4. /\ q \in Seq(All) /\ Len(q) >= k
        /\ \A i, j \in 1..Len(q) : i < j => Newer(q[i], q[j])
        /\ \A r \in All : After(w.cursor, r) => \A i \in 1..Len(q) : Newer(q[i], r)
    BY <1>2, Zenon DEF WalkedTo
  <2>5. /\ p \in Seq(S)
        /\ \A i, j \in 1..Len(p) : i < j => Newer(p[i], p[j])
        /\ page.next = Start => \A r \in S : \E i \in 1..Len(p) : p[i] = r
        /\ page.next # Start => Len(p) >= 1
        /\ page.next # Start => \A r \in S : (\E i \in 1..Len(p) : p[i] = r) \/ After(page.next, r)
        /\ page.next # Start => \A r : IsRow(r) /\ After(page.next, r) => \A i \in 1..Len(p) : Newer(p[i], r)
    BY <2>2, Zenon DEF IsPage
  <2>q. \A i \in 1..Len(q) : q[i] \in All /\ \E j \in 1..k : q[i] \in Hits(c.tables[j], c.filter)
    <3>1. \A i \in 1..Len(q) : q[i] \in All
      BY <2>4
    <3> QED
      BY <3>1, Zenon DEF WalkedTo
  <2>p. \A i \in 1..Len(p) : p[i] \in S
    BY <2>5
  <2>r. \A r \in All : Stays(r.id, c) => (\E i \in 1..Len(q) : q[i].id = r.id) \/ After(w.cursor, r)
    BY Zenon DEF WalkedTo
  <2>v. v.listed = q \o p /\ v.cursor = page.next /\ v.done = (page.next = Start)
    OBVIOUS
  <2> DEFINE both == q \o p
             m    == Len(q)
  <2> HIDE DEF v, All, S, H, q, p
  <2>6. Len(q) \in Nat /\ Len(p) \in Nat
    BY <2>4, <2>5
  <2>7. /\ Len(both) = m + Len(p)
        /\ \A i \in 1..m : both[i] = q[i] /\ i \in 1..Len(both)
        /\ \A i \in 1..Len(p) : both[m + i] = p[i] /\ m + i \in 1..Len(both)
        /\ both \in Seq(All)
    <3>1. p \in Seq(All)
      BY <2>3, <2>5
    <3>2. /\ Len(both) = m + Len(p)
          /\ \A i \in 1..m : both[i] = q[i] /\ i \in 1..Len(both)
          /\ both \in Seq(All)
      BY <2>4, <2>6, <3>1
    <3>3. ASSUME NEW i \in 1..Len(p) PROVE both[m + i] = p[i] /\ m + i \in 1..Len(both)
      BY <2>4, <2>6, <3>1
    <3> QED
      BY <3>2, <3>3, Zenon
  <2>8. \A i \in 1..Len(both) : i \in 1..m \/ (i - m \in 1..Len(p) /\ m + (i - m) = i)
    BY <2>6, <2>7
  <2>9. \A i \in 1..Len(both) : \E j \in 1..(k + 1) : both[i] \in Hits(c.tables[j], c.filter)
    <3>1. \A i \in 1..m : \E j \in 1..(k + 1) : both[i] \in Hits(c.tables[j], c.filter)
      BY <1>k, <2>7, <2>q, Zenon
    <3>2. \A i \in 1..Len(p) : both[m + i] \in Hits(c.tables[k + 1], c.filter)
      BY <2>3, <2>7, <2>p, Zenon DEF H
    <3>3. ASSUME NEW i \in 1..Len(both) PROVE \E j \in 1..(k + 1) : both[i] \in Hits(c.tables[j], c.filter)
      <4>1. CASE i \in 1..m
        BY <3>1, <4>1, Zenon
      <4>2. CASE i - m \in 1..Len(p) /\ m + (i - m) = i
        <5>1. both[i] \in Hits(c.tables[k + 1], c.filter)
          BY <3>2, <4>2, Zenon
        <5> QED
          BY <1>k, <5>1, Zenon
      <4> QED
        BY <2>8, <4>1, <4>2, Zenon
    <3> QED
      BY <3>3, Zenon
  <2>10. ASSUME NEW i \in 1..Len(both), NEW j \in 1..Len(both), i < j PROVE Newer(both[i], both[j])
    <3>1. CASE i \in 1..m /\ j \in 1..m
      BY <2>10, <2>4, <2>7, <3>1, Zenon
    <3>2. CASE i \in 1..m /\ j - m \in 1..Len(p) /\ m + (j - m) = j
      <4>1. both[i] = q[i] /\ both[j] = p[j - m] /\ p[j - m] \in S
        BY <2>7, <2>p, <3>2, Zenon
      <4>2. Newer(q[i], p[j - m])
        BY <2>3, <2>4, <3>2, <4>1, Zenon
      <4> QED
        BY <4>1, <4>2, Zenon
    <3>3. CASE /\ i - m \in 1..Len(p) /\ m + (i - m) = i
               /\ j - m \in 1..Len(p) /\ m + (j - m) = j
      <4>1. i - m < j - m
        BY <2>10, <2>6
      <4>2. both[i] = p[i - m] /\ both[j] = p[j - m]
        BY <2>7, <3>3, Zenon
      <4>3. Newer(p[i - m], p[j - m])
        BY <2>5, <3>3, <4>1, Zenon
      <4> QED
        BY <4>2, <4>3, Zenon
    <3>4. ~(i \notin 1..m /\ j \in 1..m)
      BY <2>10, <2>6
    <3> QED
      BY <2>8, <3>1, <3>2, <3>3, <3>4, Zenon
  <2>11. page.next # Start => Len(both) >= k + 1
    BY <2>4, <2>5, <2>6, <2>7
  <2>12. ASSUME page.next # Start, NEW r \in All, After(page.next, r), NEW i \in 1..Len(both)
         PROVE  Newer(both[i], r)
    <3>0. IsRow(r)
      BY <1>0, Zenon DEF All
    <3>1. CASE i \in 1..m
      <4>1. 1 \in 1..Len(p)
        BY <2>12, <2>5, <2>6
      <4>2. p[1] \in S /\ Newer(p[1], r)
        BY <2>12, <2>5, <2>p, <3>0, <4>1, Zenon
      <4>3. p[1] \in All /\ After(w.cursor, p[1])
        BY <2>3, <4>2, Zenon
      <4>4. Newer(q[i], p[1])
        BY <2>4, <3>1, <4>3, Zenon
      <4>5. IsRow(q[i]) /\ IsRow(p[1])
        BY <1>0, <2>q, <3>1, <4>3, Zenon DEF All
      <4>6. Newer(q[i], r)
        BY <3>0, <4>2, <4>4, <4>5, NewerTransitive, Zenon
      <4> QED
        BY <2>7, <3>1, <4>6, Zenon
    <3>2. CASE i - m \in 1..Len(p) /\ m + (i - m) = i
      <4>1. both[i] = p[i - m]
        BY <2>7, <3>2, Zenon
      <4>2. Newer(p[i - m], r)
        BY <2>12, <2>5, <3>0, <3>2, Zenon
      <4> QED
        BY <4>1, <4>2, Zenon
    <3> QED
      BY <2>8, <3>1, <3>2, Zenon
  <2>13. ASSUME NEW r \in All, Stays(r.id, c)
         PROVE  (\E i \in 1..Len(both) : both[i].id = r.id) \/ (page.next # Start /\ After(page.next, r))
    <3>1. CASE \E i \in 1..Len(q) : q[i].id = r.id
      BY <2>7, <3>1, Zenon
    <3>2. CASE After(w.cursor, r)
      <4>1. PICK x \in H : x.id = r.id
        BY <1>0, <1>k, <2>13, Zenon DEF Stays, H
      <4>2. x.t = r.t
        BY <2>3, <4>1, Zenon DEF IsPages, All
      <4>3. \A cur : After(cur, x) <=> After(cur, r)
        BY <4>1, <4>2, Zenon DEF After
      <4>4. x \in S
        BY <2>3, <3>2, <4>1, <4>3, Zenon
      <4>5. CASE \E i \in 1..Len(p) : p[i] = x
        <5>1. PICK i \in 1..Len(p) : p[i] = x
          BY <4>5, Zenon
        <5>2. m + i \in 1..Len(both) /\ both[m + i].id = r.id
          BY <2>7, <4>1, <5>1, Zenon
        <5> QED
          BY <5>2, Zenon
      <4>6. CASE ~\E i \in 1..Len(p) : p[i] = x
        <5>1. page.next # Start /\ After(page.next, x)
          BY <2>5, <4>4, <4>6, Zenon
        <5> QED
          BY <4>3, <5>1, Zenon
      <4> QED
        BY <4>5, <4>6, Zenon
    <3> QED
      BY <2>13, <2>r, <3>1, <3>2, Zenon
  <2>14. v.done \in BOOLEAN /\ (v.done <=> page.next = Start)
    BY <2>v, Zenon
  <2> HIDE DEF both
  <2>15. v.listed = both
    BY <2>v, Zenon DEF both
  <2>16. WalkedTo(v, k + 1, c)
    BY <2>7, <2>9, <2>10, <2>11, <2>12, <2>13, <2>14, <2>15, <2>v, Zenon DEF WalkedTo, All
  <2> QED
    BY <2>0, <2>16, Zenon
<1> QED
  BY <1>1, <1>2, Zenon

LEMMA TablesAreWalked ==
    ASSUME NEW c, IsPages(c)
    PROVE  /\ Walked(c.tables, c.filter, c.limit) = PgWalked(c.tables, c.filter, c.limit)
           /\ WalkedTo(Walked(c.tables, c.filter, c.limit), Len(c.tables), c)
<1> DEFINE q == c.tables
           n == Len(q)
<1>0. n \in Nat /\ DOMAIN q = 1..n
  BY PagesHaveRows, Zenon
<1>1. PICK g : /\ g[0] = Unread
               /\ \A k \in 1..n : g[k] = MemTurn(g[k - 1], q[k], c.filter, c.limit)
               /\ MemTurnFrom(Unread, q, c.filter, c.limit) = g[n]
  <2> HIDE DEF n, q
  <2>2. MemTurns(Unread, q, n, c.filter, c.limit)
    BY <1>0, MemTurnFold
  <2> QED
    BY <2>2, Zenon DEF MemTurns
<1>2. PICK h : /\ h[0] = Unread
               /\ \A k \in 1..n : h[k] = PgTurn(h[k - 1], q[k], c.filter, c.limit)
               /\ PgTurnFrom(Unread, q, c.filter, c.limit) = h[n]
  <2> HIDE DEF n, q
  <2>2. PgTurns(Unread, q, n, c.filter, c.limit)
    BY <1>0, PgTurnFold
  <2> QED
    BY <2>2, Zenon DEF PgTurns
<1> DEFINE S == { k \in Nat : g[k] = h[k] /\ WalkedTo(g[k], k, c) }
<1>3. 0 \in S
  <2>1. Unread.listed = <<>> /\ Unread.cursor = Start /\ Unread.done = FALSE
    BY DEF Unread
  <2>2. <<>> \in Seq(Rows(c.tables)) /\ Len(<<>>) = 0 /\ 1..0 = {} /\ 0 >= 0
    OBVIOUS
  <2>3. \A r : After(Start, r)
    BY Zenon DEF After
  <2>4. WalkedTo(Unread, 0, c)
    BY <2>1, <2>2, <2>3, Zenon DEF WalkedTo
  <2> QED
    BY <1>1, <1>2, <2>4
<1>4. ASSUME NEW k \in Nat, k < n, k \in S PROVE k + 1 \in S
  <2>1. k + 1 \in 1..n /\ (k + 1) - 1 = k /\ k + 1 \in Nat
    BY <1>0, <1>4
  <2>2. /\ g[k + 1] = MemTurn(g[k], q[k + 1], c.filter, c.limit)
        /\ h[k + 1] = PgTurn(h[k], q[k + 1], c.filter, c.limit)
    BY <1>1, <1>2, <2>1, Zenon
  <2>3. IsTable(q[k + 1]) /\ c.limit \in Int
    BY <1>0, <2>1, Zenon DEF IsPages
  <2> DEFINE w == g[k]
             page == PageOfRows(Behind(c.tables[k + 1], c.filter, w.cursor), ClampLimit(c.limit))
  <2>4. WalkedTo(w, k, c) /\ h[k] = w
    BY <1>4, Zenon
  <2>5. MemList(q[k + 1], c.filter, w.cursor, c.limit) = page
    BY <2>3, MemPage, Zenon
  <2>6. PgList(q[k + 1], c.filter, w.cursor, c.limit) = page
    BY <2>3, PgPage, Zenon
  <2>7. g[k + 1] = Turn(w, page) /\ h[k + 1] = Turn(w, page)
    BY <2>2, <2>4, <2>5, <2>6, Zenon DEF MemTurn, PgTurn
  <2>8. WalkedTo(Turn(w, page), k + 1, c)
    <3>1. k < Len(c.tables)
      BY <1>4, Zenon
    <3> HIDE DEF w
    <3> QED
      BY <2>4, <3>1, WalkStep, Zenon
  <2> QED
    BY <2>1, <2>7, <2>8, Zenon
<1> HIDE DEF S
<1>5. \A k \in 0..n : k \in S
  BY <1>0, <1>3, <1>4, Induction
<1>6. n \in 0..n
  BY <1>0
<1>7. g[n] = h[n] /\ WalkedTo(g[n], n, c)
  BY <1>5, <1>6, Zenon DEF S
<1> QED
  BY <1>1, <1>2, <1>7, Zenon DEF Walked, PgWalked, MemTurnFrom, PgTurnFrom

LEMMA RowIds ==
    ASSUME NEW c, IsPages(c)
    PROVE  LET ids == { r.id : r \in Rows(c.tables) } IN IsFiniteSet(ids) /\ Cardinality(ids) \in Nat
<1> DEFINE ids == { r.id : r \in Rows(c.tables) }
<1> DEFINE n  == Len(c.tables)
           T(k) == { r.id : r \in ToSet(c.tables[k]) }
           parts == { T(k) : k \in 1..n }
<1>1. n \in Nat /\ DOMAIN c.tables = 1..n
  BY PagesHaveRows, Zenon
<1>2. ASSUME NEW k \in 1..n PROVE IsFiniteSet(T(k))
  <2> DEFINE t == c.tables[k]
             e == [i \in DOMAIN t |-> t[i].id]
  <2>1. t \in Seq(ToSet(t))
    BY <1>1, Zenon DEF IsPages, IsTable
  <2>2. Len(t) \in Nat /\ DOMAIN t = 1..Len(t)
    BY <2>1, LenProperties, Zenon
  <2>3. IsFiniteSet(DOMAIN t)
    BY <2>2, FS_Interval
  <2>4. e \in Surjection(DOMAIN t, T(k))
    <3>1. e \in [DOMAIN t -> T(k)] /\ \A x \in T(k) : \E i \in DOMAIN t : e[i] = x
      BY Zenon DEF ToSet
    <3> QED
      BY <3>1, Zenon DEF Surjection
  <2> HIDE DEF e
  <2> QED
    BY <2>3, <2>4, FS_Surjection, Zenon
<1>3. IsFiniteSet(parts)
  <2> DEFINE e == [k \in 1..n |-> T(k)]
  <2>1. e \in Surjection(1..n, parts)
    <3>1. e \in [1..n -> parts] /\ \A x \in parts : \E k \in 1..n : e[k] = x
      BY Zenon
    <3> QED
      BY <3>1, Zenon DEF Surjection
  <2>2. IsFiniteSet(1..n)
    <3>1. 1 \in Int /\ n \in Int
      BY <1>1, SMT
    <3> QED
      BY <3>1, FS_Interval, Zenon
  <2> HIDE DEF e, parts, n
  <2> QED
    BY <2>1, <2>2, FS_Surjection, Zenon
<1>4. \A x \in parts : IsFiniteSet(x)
  BY <1>2, Zenon
<1>5. ids = UNION parts
  <2>1. ASSUME NEW x \in ids PROVE x \in UNION parts
    <3>1. PICK r \in Rows(c.tables) : r.id = x
      BY <2>1, Zenon
    <3>2. PICK k \in 1..n : r \in ToSet(c.tables[k])
      BY <1>1, <3>1, Zenon DEF Rows
    <3>3. x \in T(k)
      BY <3>1, <3>2, Zenon
    <3>4. T(k) \in parts
      BY <3>2, Zenon
    <3> HIDE DEF T, parts
    <3> QED
      BY <3>3, <3>4, Zenon
  <2>2. ASSUME NEW x \in UNION parts PROVE x \in ids
    <3>1. PICK k \in 1..n : x \in T(k)
      BY <2>2, Zenon
    <3>2. PICK r \in ToSet(c.tables[k]) : r.id = x
      BY <3>1, Zenon
    <3>3. r \in Rows(c.tables)
      BY <1>1, <3>2, Zenon DEF Rows
    <3> QED
      BY <3>2, <3>3, Zenon
  <2> QED
    BY <2>1, <2>2, Zenon
<1> HIDE DEF parts
<1>6. IsFiniteSet(ids)
  BY <1>3, <1>4, <1>5, FS_UNION, Zenon
<1> QED
  BY <1>6, FS_CardinalityType, Zenon

\* More requests than rows: the walk has ended.
LEMMA WalkEnds ==
    ASSUME NEW c, IsPages(c), NEW w, WalkedTo(w, Len(c.tables), c)
    PROVE  w.done
<1> DEFINE All == Rows(c.tables)
           ids == { r.id : r \in All }
           q == w.listed
           m == Len(q)
<1>0. /\ \A r \in All : IsRow(r) /\ \A x \in All : r.id = x.id => r.t = x.t
      /\ Len(c.tables) \in Nat /\ Cardinality(ids) < Len(c.tables)
  BY PagesHaveRows, Zenon DEF IsPages
<1>1. SUFFICES ASSUME ~w.done PROVE FALSE
  BY Zenon DEF WalkedTo
<1>2. q \in Seq(All) /\ m >= Len(c.tables) /\ \A i, j \in 1..m : i < j => Newer(q[i], q[j])
  BY <1>1, Zenon DEF WalkedTo
<1>3. m \in Nat /\ \A i \in 1..m : q[i] \in All
  BY <1>2
<1>4. \A x, y \in All : Newer(x, y) => x.id # y.id
  <2>1. \A x, y \in All : x.id = y.id /\ x.t = y.t => ~Newer(x, y)
    BY <1>0 DEF Newer, IsRow
  <2> QED
    BY <1>0, <2>1, Zenon
<1> DEFINE f == [i \in 1..m |-> q[i].id]
<1>5. f \in Injection(1..m, ids)
  <2>1. f \in [1..m -> ids]
    BY <1>3, Zenon
  <2>2. ASSUME NEW i \in 1..m, NEW j \in 1..m, f[i] = f[j] PROVE i = j
    <3>1. ~(i < j) /\ ~(j < i)
      BY <1>2, <1>3, <1>4, <2>2, Zenon
    <3> QED
      BY <1>3, <3>1
  <2> QED
    BY <2>1, <2>2, Zenon DEF Injection, IsInjective
<1>6. IsFiniteSet(ids) /\ Cardinality(ids) \in Nat
  BY RowIds, Zenon
<1> HIDE DEF f, ids
<1>7. Cardinality(1..m) <= Cardinality(ids) /\ Cardinality(ids) \in Nat
  BY <1>5, <1>6, FS_Injection, Zenon
<1>8. Cardinality(1..m) = IF 1 > m THEN 0 ELSE m - 1 + 1
  <2>1. 1 \in Int /\ m \in Int
    BY <1>3
  <2> HIDE DEF m
  <2> QED
    BY <2>1, FS_Interval, Zenon
<1> HIDE DEF m
<1> QED
  BY <1>0, <1>2, <1>3, <1>7, <1>8

LEMMA WalkIsTheList ==
    ASSUME NEW c, IsPages(c)
    PROVE  LET mem    == Walked(c.tables, c.filter, c.limit)
               listed == mem.listed
               Found(k) == { r.id : r \in Hits(c.tables[k], c.filter) }
           IN  /\ mem = PgWalked(c.tables, c.filter, c.limit) /\ mem.done
               /\ \A i, j \in DOMAIN listed : i < j => Newer(listed[i], listed[j])
               /\ { id \in Found(1) : \A k \in DOMAIN c.tables : id \in Found(k) } \subseteq { listed[i].id : i \in DOMAIN listed }
               /\ \A i \in DOMAIN listed : \E k \in DOMAIN c.tables : listed[i].id \in Found(k)
<1> DEFINE mem == Walked(c.tables, c.filter, c.limit)
           q == mem.listed
           Found(k) == { r.id : r \in Hits(c.tables[k], c.filter) }
<1>1. mem = PgWalked(c.tables, c.filter, c.limit) /\ WalkedTo(mem, Len(c.tables), c)
  BY TablesAreWalked, Zenon
<1>2. mem.done
  <2> HIDE DEF mem
  <2> QED
    BY <1>1, WalkEnds, Zenon
<1>3. /\ DOMAIN c.tables = 1..Len(c.tables) /\ Len(c.tables) \in Nat
      /\ \A k \in 1..Len(c.tables) : Hits(c.tables[k], c.filter) \subseteq Rows(c.tables)
      /\ Cardinality({ r.id : r \in Rows(c.tables) }) < Len(c.tables)
  BY PagesHaveRows, Zenon DEF IsPages
<1> HIDE DEF mem
<1>4. q \in Seq(Rows(c.tables))
  BY <1>1, Zenon DEF WalkedTo
<1>5. DOMAIN q = 1..Len(q)
  BY <1>4, LenProperties, Zenon
<1>6. \A i, j \in DOMAIN q : i < j => Newer(q[i], q[j])
  BY <1>1, <1>5, Zenon DEF WalkedTo
<1>7. ASSUME NEW i \in DOMAIN q PROVE \E k \in DOMAIN c.tables : q[i].id \in Found(k)
  <2>1. PICK k \in 1..Len(c.tables) : q[i] \in Hits(c.tables[k], c.filter)
    BY <1>1, <1>5, Zenon DEF WalkedTo
  <2> QED
    BY <1>3, <2>1, Zenon
<1>8. ASSUME NEW id \in Found(1), \A k \in DOMAIN c.tables : id \in Found(k)
      PROVE  id \in { q[i].id : i \in DOMAIN q }
  <2>1. Stays(id, c)
    BY <1>8, Zenon DEF Stays
  <2>2. PICK r \in Hits(c.tables[1], c.filter) : r.id = id
    BY <1>8, Zenon
  <2>3. \A k \in DOMAIN c.tables : \E x \in Hits(c.tables[k], c.filter) : x.id = id
    BY <1>8, Zenon
  <2>4. \E k \in DOMAIN c.tables : TRUE
    <3>1. 1 \in 1..Len(c.tables)
      <4> DEFINE N == Cardinality({ x.id : x \in Rows(c.tables) })
      <4>1. N \in Nat
        BY RowIds, Zenon
      <4>2. N < Len(c.tables)
        BY <1>3, Zenon
      <4> HIDE DEF N
      <4> QED
        BY <1>3, <4>1, <4>2
    <3> QED
      BY <1>3, <3>1, Zenon
  <2>5. PICK x \in Rows(c.tables) : x.id = id
    BY <1>3, <2>3, <2>4, Zenon
  <2>6. \E i \in 1..Len(q) : q[i].id = x.id
    BY <1>1, <1>2, <2>1, <2>5, Zenon DEF WalkedTo
  <2> QED
    BY <1>5, <2>5, <2>6, Zenon
<1> QED
  BY <1>1, <1>2, <1>6, <1>7, <1>8, Zenon DEF mem

\* The pages of either store, followed to the end of a changing table, are the
\* list: in order, nothing twice, and everything that stays, for tables of any
\* length and any number of requests (pageOf, ListEvents, ListAlerts,
\* ListAutomation).
THEOREM PagesListEverything == Spec => []PagesAreTheList
<1>1. ASSUME CaseIsCall PROVE PagesAreTheList
  <2> SUFFICES ASSUME case.part = "pages" PROVE PagesAreTheList
    BY Zenon DEF PagesAreTheList
  <2>1. PagesCase
    BY <1>1, Zenon DEF CaseIsCall
  <2> DEFINE c == case.in
  <2>2. IsPages(c)
    BY <2>1, AlgorithmsAssumption, Zenon DEF PagesCase, IsPages
  <2>3. /\ case.mem = Walked(c.tables, c.filter, c.limit)
        /\ case.pg = PgWalked(c.tables, c.filter, c.limit)
    BY <2>1, Zenon DEF PagesCase
  <2> HIDE DEF c
  <2> DEFINE mem    == Walked(c.tables, c.filter, c.limit)
             listed == mem.listed
             Found(k) == { r.id : r \in Hits(c.tables[k], c.filter) }
  <2>4. /\ mem = PgWalked(c.tables, c.filter, c.limit) /\ mem.done
        /\ \A i, j \in DOMAIN listed : i < j => Newer(listed[i], listed[j])
        /\ { id \in Found(1) : \A k \in DOMAIN c.tables : id \in Found(k) } \subseteq { listed[i].id : i \in DOMAIN listed }
        /\ \A i \in DOMAIN listed : \E k \in DOMAIN c.tables : listed[i].id \in Found(k)
    BY <2>2, WalkIsTheList, Zenon
  <2> HIDE DEF mem
  <2> QED
    BY <2>3, <2>4, Zenon DEF PagesAreTheList, mem, c
<1> QED
  BY <1>1, CallsAreCases, PTL

-----------------------------------------------------------------------------
(* The in-memory store, and what it stands for.                            *)

\* A table and the order of insertion.
Keeps(S, q) ==
    /\ IsFiniteSet(S) /\ \A a, b \in S : a.id = b.id => a = b
    /\ q \in Seq(ToSet(q)) /\ ToSet(q) = { r.id : r \in S } /\ Len(q) = Cardinality(S)

Tables3 == {"observations", "transitions", "events"}
TablesKept(s) ==
    /\ s.order = [x \in Tables3 |-> s.order[x]]
    /\ \A x \in Tables3 : Keeps(s[x], s.order[x])
    /\ \A r \in s.observations : r.at \in Int

DevicesKept(s) ==
    /\ s.devices = [d \in DOMAIN s.devices |-> s.devices[d]]
    /\ \A d \in DOMAIN s.devices :
           s.devices[d] = [seen |-> s.devices[d].seen, attrs |-> s.devices[d].attrs] /\ s.devices[d].seen \in Int

IsAlert(a) == a = [event |-> a.event, key |-> a.key, status |-> a.status, at |-> a.at]
AlertsKept(s) ==
    /\ s.alerts \in Seq(ToSet(s.alerts))
    /\ \A i \in DOMAIN s.alerts : IsAlert(s.alerts[i])
    /\ \A i, j \in DOMAIN s.alerts :
           s.alerts[i].status = "firing" /\ s.alerts[j].status = "firing" /\ s.alerts[i].key = s.alerts[j].key => i = j

OutboxKept(s) ==
    /\ s.outbox \in Seq(ToSet(s.outbox)) /\ s.next = Len(s.outbox)
    /\ \A i \in DOMAIN s.outbox :
           /\ s.outbox[i] = [id |-> i, msg |-> s.outbox[i].msg, published |-> s.outbox[i].published]

RequestsKept(s) ==
    /\ s.autoReq = [id \in DOMAIN s.autoReq |-> s.autoReq[id]]
    /\ \A id \in DOMAIN s.autoReq :
           LET r == s.autoReq[id]
           IN  /\ r = [status |-> r.status, created |-> r.created, notBefore |-> r.notBefore, by |-> r.by, claimed |-> r.claimed]
               /\ r.claimed = Never
               /\ r.status = "executing" => id \in DOMAIN s.autoClaim
    /\ s.autoOrder \in Seq(ToSet(s.autoOrder)) /\ ToSet(s.autoOrder) = DOMAIN s.autoReq
    /\ s.autoClaim = [id \in DOMAIN s.autoClaim |-> s.autoClaim[id]]
    /\ DOMAIN s.autoClaim \subseteq DOMAIN s.autoReq /\ \A id \in DOMAIN s.autoClaim : s.autoClaim[id] \in Int
    /\ \A id \in DOMAIN s.autoReq : id \in Nat /\ s.autoReq[id].created \in Int
    /\ \A i, j \in DOMAIN s.autoOrder : s.autoOrder[i] = s.autoOrder[j] => i = j

Names == { "observations", "transitions", "events", "order", "states", "alerts", "devices", "outbox", "next",
           "autoReq", "autoOrder", "autoRes", "autoClaim" }
HasFields(s) == s = [f \in Names |-> s[f]]

IsStore(s) ==
    /\ HasFields(s) /\ s.states = [k \in DOMAIN s.states |-> s.states[k]]
    /\ TablesKept(s) /\ DevicesKept(s) /\ AlertsKept(s) /\ OutboxKept(s) /\ RequestsKept(s)

\* What an operation of a transaction leaves: the tables of PostgreSQL, and
\* what takes it back.
Restores(s, r) ==
    (r.s = s /\ r.undo = <<>>) \/ \E u : r.undo = <<u>> /\ Undo(r.s, u) = s

OpDone(s, r, db) == IsStore(r.s) /\ Contents(r.s) = db /\ Restores(s, r)

LEMMA NothingToTakeBack ==
    ASSUME NEW s, IsStore(s) PROVE OpDone(s, NoChange(s), Contents(s))
  BY DEF OpDone, NoChange, Restores

LEMMA UndoableDone ==
    ASSUME NEW s, NEW t, NEW u, NEW r, r = [s |-> t, undo |-> <<u>>], IsStore(t), Undo(t, u) = s
    PROVE  OpDone(s, r, Contents(t))
<1>1. r.s = t /\ r.undo = <<u>>
  OBVIOUS
<1> QED
  BY <1>1, Zenon DEF OpDone, Restores

\* t has the fields of s, except perhaps those of F.
SameBut(s, t, F) == HasFields(t) /\ \A f \in Names \ F : t[f] = s[f]

LEMMA FieldsKept ==
    ASSUME NEW s, NEW t, NEW F, SameBut(s, t, F)
    PROVE  /\ "observations" \notin F => t.observations = s.observations
           /\ "transitions" \notin F => t.transitions = s.transitions
           /\ "events" \notin F => t.events = s.events
           /\ "order" \notin F => t.order = s.order
           /\ "states" \notin F => t.states = s.states
           /\ "alerts" \notin F => t.alerts = s.alerts
           /\ "devices" \notin F => t.devices = s.devices
           /\ "outbox" \notin F => t.outbox = s.outbox
           /\ "next" \notin F => t.next = s.next
           /\ "autoReq" \notin F => t.autoReq = s.autoReq
           /\ "autoOrder" \notin F => t.autoOrder = s.autoOrder
           /\ "autoRes" \notin F => t.autoRes = s.autoRes
           /\ "autoClaim" \notin F => t.autoClaim = s.autoClaim
  BY DEF SameBut, Names

LEMMA PartsKept ==
    ASSUME NEW s, IsStore(s), NEW t, NEW F, SameBut(s, t, F)
    PROVE  /\ HasFields(t)
           /\ "states" \notin F => t.states = [k \in DOMAIN t.states |-> t.states[k]]
           /\ F \cap {"observations", "transitions", "events", "order"} = {} => TablesKept(t)
           /\ "devices" \notin F => DevicesKept(t)
           /\ "alerts" \notin F => AlertsKept(t)
           /\ F \cap {"outbox", "next"} = {} => OutboxKept(t)
           /\ F \cap {"autoReq", "autoOrder", "autoClaim"} = {} => RequestsKept(t)
<1>1. HasFields(t) /\ ("states" \notin F => t.states = [k \in DOMAIN t.states |-> t.states[k]])
  <2>1. "states" \notin F => t.states = s.states
    BY FieldsKept
  <2> QED
    BY <2>1, Zenon DEF IsStore, SameBut
<1>2. F \cap {"observations", "transitions", "events", "order"} = {} => TablesKept(t)
  <2> SUFFICES ASSUME F \cap {"observations", "transitions", "events", "order"} = {} PROVE TablesKept(t)
    OBVIOUS
  <2>1. "observations" \notin F /\ "transitions" \notin F /\ "events" \notin F /\ "order" \notin F
    OBVIOUS
  <2>2. t.order = s.order /\ t.observations = s.observations
    BY <2>1, FieldsKept, Zenon
  <2>3. \A x \in Tables3 : t[x] = s[x]
    BY <2>1 DEF Tables3, SameBut, Names
  <2> QED
    BY <2>2, <2>3, Zenon DEF IsStore, TablesKept
<1>3. "devices" \notin F => DevicesKept(t)
  <2>1. "devices" \notin F => t.devices = s.devices
    BY FieldsKept
  <2> QED
    BY <2>1, Zenon DEF IsStore, DevicesKept
<1>4. "alerts" \notin F => AlertsKept(t)
  <2>1. "alerts" \notin F => t.alerts = s.alerts
    BY FieldsKept
  <2> QED
    BY <2>1, Zenon DEF IsStore, AlertsKept
<1>5. F \cap {"outbox", "next"} = {} => OutboxKept(t)
  <2> SUFFICES ASSUME F \cap {"outbox", "next"} = {} PROVE OutboxKept(t)
    OBVIOUS
  <2>1. "outbox" \notin F /\ "next" \notin F
    OBVIOUS
  <2>2. t.outbox = s.outbox /\ t.next = s.next
    BY <2>1, FieldsKept, Zenon
  <2> QED
    BY <2>2, Zenon DEF IsStore, OutboxKept
<1>6. F \cap {"autoReq", "autoOrder", "autoClaim"} = {} => RequestsKept(t)
  <2> SUFFICES ASSUME F \cap {"autoReq", "autoOrder", "autoClaim"} = {} PROVE RequestsKept(t)
    OBVIOUS
  <2>1. "autoReq" \notin F /\ "autoOrder" \notin F /\ "autoClaim" \notin F
    OBVIOUS
  <2>2. t.autoReq = s.autoReq /\ t.autoOrder = s.autoOrder /\ t.autoClaim = s.autoClaim
    BY <2>1, FieldsKept, Zenon
  <2> QED
    BY <2>2, Zenon DEF IsStore, RequestsKept
<1> QED
  BY <1>1, <1>2, <1>3, <1>4, <1>5, <1>6, Zenon

LEMMA RowsKept ==
    ASSUME NEW s, NEW t, NEW F, SameBut(s, t, F)
    PROVE  /\ "outbox" \notin F => OutboxRows(t) = OutboxRows(s)
           /\ F \cap {"autoReq", "autoClaim"} = {} => RequestRows(t) = RequestRows(s)
<1>1. "outbox" \notin F => OutboxRows(t) = OutboxRows(s)
  <2>1. "outbox" \notin F => t.outbox = s.outbox
    BY FieldsKept
  <2> QED
    BY <2>1, Zenon DEF OutboxRows
<1>2. F \cap {"autoReq", "autoClaim"} = {} => RequestRows(t) = RequestRows(s)
  <2> SUFFICES ASSUME F \cap {"autoReq", "autoClaim"} = {} PROVE RequestRows(t) = RequestRows(s)
    OBVIOUS
  <2>0. "autoReq" \notin F /\ "autoClaim" \notin F
    OBVIOUS
  <2>1. t.autoReq = s.autoReq /\ t.autoClaim = s.autoClaim
    BY <2>0, FieldsKept, Zenon
  <2>2. \A id : RequestRow(t, id) = RequestRow(s, id)
    BY <2>1, Zenon DEF RequestRow
  <2> QED
    BY <2>1, <2>2 DEF RequestRows
<1> QED
  BY <1>1, <1>2, Zenon

LEMMA WithDevices ==
    ASSUME NEW s, IsStore(s), NEW D, NEW t, t = [s EXCEPT !.devices = D]
    PROVE  /\ SameBut(s, t, {"devices"}) /\ t.devices = D
           /\ Contents(t) = [Contents(s) EXCEPT !.devices = D]
<1>0. HasFields(s) /\ "devices" \in Names
  BY Zenon DEF IsStore, Names
<1>1. SameBut(s, t, {"devices"}) /\ t.devices = D
  BY <1>0 DEF HasFields, SameBut
<1>2. OutboxRows(t) = OutboxRows(s) /\ RequestRows(t) = RequestRows(s)
  BY <1>1, RowsKept
<1>3. /\ t.observations = s.observations /\ t.transitions = s.transitions /\ t.events = s.events
      /\ t.states = s.states /\ t.alerts = s.alerts /\ t.autoRes = s.autoRes
  BY ONLY <1>1, FieldsKept, SMT
<1> QED
  BY ONLY <1>1, <1>2, <1>3, SMT DEF Contents

LEMMA TouchDone ==
    ASSUME NEW s, IsStore(s), NEW o, o.at \in Int
    PROVE  OpDone(s, MemTouchDevice(s, o), TouchDevice(Contents(s), o))
<1> DEFINE db == Contents(s)
           dev == o.dev
           seen == s.devices[dev].seen
<1>0. HasFields(s) /\ DevicesKept(s)
  BY DEF IsStore
<1>1. db.devices = s.devices
  BY DEF Contents
<1>2. CASE dev \notin DOMAIN s.devices
  BY <1>1, <1>2, NothingToTakeBack DEF MemTouchDevice, TouchDevice
<1>t. ASSUME dev \in DOMAIN s.devices
      PROVE  /\ seen \in Int
             /\ \A at : at = (IF o.at > seen THEN o.at ELSE seen) =>
                    TouchDevice(db, o) = [db EXCEPT !.devices = [s.devices EXCEPT ![dev] = [s.devices[dev] EXCEPT !.seen = at]]]
  <2>1. seen \in Int
    BY <1>0, <1>t, Zenon DEF DevicesKept
  <2>2. dev \in DOMAIN db.devices
    BY <1>1, <1>t, Zenon
  <2> HIDE DEF db
  <2>3. ASSUME NEW at, at = (IF o.at > seen THEN o.at ELSE seen)
        PROVE  TouchDevice(db, o) = [db EXCEPT !.devices = [s.devices EXCEPT ![dev] = [s.devices[dev] EXCEPT !.seen = at]]]
    <3>1. at = IF o.at > db.devices[dev].seen THEN o.at ELSE db.devices[dev].seen
      BY <1>1, <2>3, Zenon
    <3>2. TouchDevice(db, o) = [db EXCEPT !.devices = [db.devices EXCEPT ![dev] = [db.devices[dev] EXCEPT !.seen = at]]]
      BY <2>2, <3>1, Zenon DEF TouchDevice
    <3> QED
      BY <1>1, <3>2, Zenon
  <2> QED
    BY <2>1, <2>3, Zenon
<1>3. CASE dev \in DOMAIN s.devices /\ o.at <= seen
  <2>1. TouchDevice(db, o) = db
    <3> DEFINE D == [s.devices EXCEPT ![dev] = [s.devices[dev] EXCEPT !.seen = seen]]
    <3>1. TouchDevice(db, o) = [db EXCEPT !.devices = D]
      <4>1. seen = (IF o.at > seen THEN o.at ELSE seen)
        <5> HIDE DEF seen
        <5> QED
          BY <1>3, <1>t
      <4> QED
        BY <1>3, <1>t, <4>1, Zenon
    <3>2. D = s.devices
      <4>1. [s.devices[dev] EXCEPT !.seen = seen] = s.devices[dev]
        BY <1>0, <1>3 DEF DevicesKept
      <4> QED
        BY <1>0, <1>3, <4>1 DEF DevicesKept
    <3> QED
      BY <3>1, <3>2 DEF Contents
  <2> QED
    BY <1>3, <2>1, NothingToTakeBack DEF MemTouchDevice
<1>4. CASE dev \in DOMAIN s.devices /\ ~(o.at <= seen)
  <2> DEFINE D == [s.devices EXCEPT ![dev] = [s.devices[dev] EXCEPT !.seen = o.at]]
             t == [s EXCEPT !.devices = D]
             u == [what |-> "touch", dev |-> dev, old |-> s.devices[dev]]
  <2>1. MemTouchDevice(s, o) = [s |-> t, undo |-> <<u>>]
    BY <1>4, Zenon DEF MemTouchDevice, Undoable
  <2>2. TouchDevice(db, o) = [db EXCEPT !.devices = D]
    <3>1. o.at = (IF o.at > seen THEN o.at ELSE seen)
      <4> HIDE DEF seen
      <4> QED
        BY <1>4, <1>t
    <3> QED
      BY <1>4, <1>t, <3>1, Zenon
  <2>3. [D EXCEPT ![dev] = s.devices[dev]] = s.devices /\ DOMAIN D = DOMAIN s.devices
    BY <1>0, <1>4 DEF DevicesKept
  <2>4. /\ D = [d \in DOMAIN D |-> D[d]]
        /\ \A d \in DOMAIN D : D[d] = [seen |-> D[d].seen, attrs |-> D[d].attrs] /\ D[d].seen \in Int
    <3> DEFINE E == s.devices
               e == [E[dev] EXCEPT !.seen = o.at]
    <3>1. \A d \in DOMAIN E : E[d] = [seen |-> E[d].seen, attrs |-> E[d].attrs] /\ E[d].seen \in Int
      BY <1>0, Zenon DEF DevicesKept
    <3>2. e = [seen |-> e.seen, attrs |-> e.attrs] /\ e.seen \in Int
      <4>1. E[dev] = [seen |-> E[dev].seen, attrs |-> E[dev].attrs]
        BY <1>4, <3>1, Zenon
      <4>2. \A a, b : [[seen |-> a, attrs |-> b] EXCEPT !.seen = o.at] = [seen |-> o.at, attrs |-> b]
        OBVIOUS
      <4>3. e = [seen |-> o.at, attrs |-> E[dev].attrs]
        BY <4>1, <4>2, Zenon
      <4> HIDE DEF e
      <4> QED
        BY <1>t, <4>3
    <3> HIDE DEF e
    <3>3. D = [E EXCEPT ![dev] = e]
      BY Zenon DEF e
    <3>4. D = [d \in DOMAIN D |-> D[d]] /\ DOMAIN D = DOMAIN E /\ \A d \in DOMAIN E : D[d] = IF d = dev THEN e ELSE E[d]
      BY <3>3, Zenon
    <3> HIDE DEF D
    <3> QED
      BY <3>1, <3>2, <3>4, Zenon
  <2> HIDE DEF D
  <2>5. /\ SameBut(s, t, {"devices"}) /\ t.devices = D
        /\ Contents(t) = [Contents(s) EXCEPT !.devices = D]
    BY WithDevices, Zenon
  <2> HIDE DEF t
  <2>6. Undo(t, u) = s
    <3>1. Undo(t, u) = [t EXCEPT !.devices = [t.devices EXCEPT ![u.dev] = u.old]]
      BY DEF Undo
    <3> DEFINE w == Undo(t, u)
    <3>2. w = [t EXCEPT !.devices = s.devices]
      BY <2>3, <2>5, <3>1, Zenon
    <3>3. w = s
      BY ONLY <1>0, <2>5, <3>2, SMT DEF HasFields, SameBut
    <3> QED
      BY <3>3, Zenon
  <2>7. IsStore(t)
    <3>1. DevicesKept(t)
      BY <2>4, <2>5, Zenon DEF DevicesKept
    <3> QED
      BY <2>5, <3>1, PartsKept DEF IsStore
  <2> QED
    BY <2>1, <2>2, <2>5, <2>6, <2>7 DEF OpDone, Restores
<1> QED
  BY <1>2, <1>3, <1>4

LEMMA Longer ==
    ASSUME NEW q, q \in Seq(ToSet(q)), NEW x
    PROVE  /\ Append(q, x) \in Seq(ToSet(Append(q, x))) /\ ToSet(Append(q, x)) = ToSet(q) \cup {x}
           /\ Len(q) \in Nat /\ Len(Append(q, x)) = Len(q) + 1 /\ Front(Append(q, x)) = q
           /\ DOMAIN q = 1..Len(q) /\ DOMAIN Append(q, x) = 1..(Len(q) + 1)
           /\ \A i \in 1..Len(q) : Append(q, x)[i] = q[i]
           /\ Append(q, x)[Len(q) + 1] = x
<1> DEFINE W == ToSet(q) \cup {x}
           p == Append(q, x)
<1>1. q \in Seq(W) /\ x \in W
  OBVIOUS
<1>2. p \in Seq(W) /\ ToSet(p) = ToSet(q) \cup {x}
  BY <1>1, AppendRange
<1>3. p \in Seq(ToSet(p))
  BY <1>2, InOwnRange
<1>4. /\ Len(q) \in Nat /\ Len(p) = Len(q) + 1 /\ DOMAIN q = 1..Len(q) /\ DOMAIN p = 1..(Len(q) + 1)
      /\ (\A i \in 1..Len(q) : p[i] = q[i]) /\ p[Len(q) + 1] = x
  BY <1>1
<1>5. Front(p) = q
  BY <1>1, <1>4 DEF Front
<1> QED
  BY <1>2, <1>3, <1>4, <1>5, Zenon

LEMMA RowAdded ==
    ASSUME NEW S, NEW q, Keeps(S, q), NEW row, \A r \in S : r.id # row.id
    PROVE  /\ Keeps(S \cup {row}, Append(q, row.id))
           /\ { r \in S \cup {row} : r.id # row.id } = S /\ Front(Append(q, row.id)) = q
<1> DEFINE id == row.id
           p == Append(q, id)
<1>1. /\ p \in Seq(ToSet(p)) /\ ToSet(p) = ToSet(q) \cup {id}
      /\ Len(p) = Len(q) + 1 /\ Front(p) = q
  <2>1. q \in Seq(ToSet(q))
    BY Zenon DEF Keeps
  <2> HIDE DEF id
  <2> QED
    BY <2>1, Longer
<1>2. row \notin S
  BY Zenon
<1>3. IsFiniteSet(S \cup {row}) /\ Cardinality(S \cup {row}) = Cardinality(S) + 1
  <2>1. IsFiniteSet(S)
    BY Zenon DEF Keeps
  <2> QED
    BY <1>2, <2>1, FS_AddElement, Zenon
<1>4. ToSet(p) = { r.id : r \in S \cup {row} }
  BY <1>1, Zenon DEF Keeps
<1>5. \A a, b \in S \cup {row} : a.id = b.id => a = b
  BY Zenon DEF Keeps
<1>6. Len(p) = Cardinality(S \cup {row})
  BY <1>1, <1>3, Zenon DEF Keeps
<1>7. { r \in S \cup {row} : r.id # row.id } = S
  BY Zenon
<1> QED
  BY <1>1, <1>3, <1>4, <1>5, <1>6, <1>7, Zenon DEF Keeps

\* The tables of t are those of s, except perhaps x.
OnlyTable(s, t, x) ==
    (\A y \in Tables3 \ {x} : t[y] = s[y]) /\ Contents(t) = [Contents(s) EXCEPT ![x] = t[x]]

LEMMA WithTable ==
    ASSUME NEW s, IsStore(s), NEW x \in Tables3, NEW t, SameBut(s, t, {x, "order"})
    PROVE  OnlyTable(s, t, x)
<1>0. HasFields(s) /\ x \in Names /\ "order" \in Names /\ x # "order"
  BY DEF IsStore, Names, Tables3
<1>1. SameBut(s, t, {x, "order"})
  OBVIOUS
<1>2. \A y \in Tables3 \ {x} : t[y] = s[y]
  BY ONLY <1>0, <1>1, SMT DEF SameBut, Tables3, Names
<1> DEFINE F == {x, "order"}
<1>f. /\ "outbox" \notin F /\ "states" \notin F /\ "alerts" \notin F /\ "devices" \notin F /\ "autoRes" \notin F
      /\ F \cap {"autoReq", "autoClaim"} = {} /\ SameBut(s, t, F)
  BY <1>1 DEF Tables3
<1> HIDE DEF F
<1>3. OutboxRows(t) = OutboxRows(s) /\ RequestRows(t) = RequestRows(s)
  BY ONLY <1>f, RowsKept, SMT
<1>4. t.states = s.states /\ t.alerts = s.alerts /\ t.devices = s.devices /\ t.autoRes = s.autoRes
  BY ONLY <1>f, FieldsKept, SMT
<1>5. ASSUME NEW y \in Tables3 PROVE Contents(t)[y] = [Contents(s) EXCEPT ![x] = t[x]][y]
  BY ONLY <1>1, <1>2, <1>5, SMT DEF Contents, Tables3
<1> QED
  BY ONLY <1>1, <1>2, <1>3, <1>4, <1>5, x \in Tables3, SMT DEF Contents, Tables3, OnlyTable

LEMMA InsertDone ==
    ASSUME NEW s, IsStore(s), NEW x \in Tables3, NEW row, x = "observations" => row.at \in Int
    PROVE  OpDone(s, MemInsert(s, x, row), Inserted(Contents(s), x, row))
<1> DEFINE db == Contents(s)
<1>0. HasFields(s) /\ TablesKept(s) /\ x \in Names /\ "order" \in Names /\ x # "order"
  BY DEF IsStore, Names, Tables3
<1>1. db[x] = s[x]
  BY DEF Contents, Tables3
<1>2. CASE \E r \in s[x] : r.id = row.id
  <2>1. MemInsert(s, x, row) = NoChange(s)
    BY <1>2, Zenon DEF MemInsert
  <2>2. Inserted(db, x, row) = db
    BY <1>1, <1>2, Zenon DEF Inserted
  <2> QED
    BY <2>1, <2>2, NothingToTakeBack
<1>3. CASE ~\E r \in s[x] : r.id = row.id
  <2> DEFINE R == s[x] \cup {row}
             O == [s.order EXCEPT ![x] = Append(s.order[x], row.id)]
             t == [s EXCEPT ![x] = R, !.order = O]
             u == [what |-> "insert", table |-> x, id |-> row.id]
  <2>1. MemInsert(s, x, row) = [s |-> t, undo |-> <<u>>]
    BY <1>0, <1>3, Zenon DEF MemInsert, Undoable
  <2>2. Inserted(db, x, row) = [db EXCEPT ![x] = R]
    BY <1>1, <1>3, Zenon DEF Inserted
  <2>3. /\ Keeps(R, Append(s.order[x], row.id)) /\ { r \in R : r.id # row.id } = s[x]
        /\ Front(Append(s.order[x], row.id)) = s.order[x]
    <3>1. Keeps(s[x], s.order[x])
      BY <1>0, Zenon DEF TablesKept
    <3> QED
      BY <1>3, <3>1, RowAdded, Zenon
  <2>4. /\ O = [y \in Tables3 |-> O[y]] /\ O[x] = Append(s.order[x], row.id)
        /\ \A y \in Tables3 \ {x} : O[y] = s.order[y]
    BY <1>0 DEF TablesKept
  <2>5. /\ SameBut(s, t, {x, "order"}) /\ t[x] = R /\ t.order = O /\ \A y \in Tables3 \ {x} : t[y] = s[y]
        /\ Contents(t) = [db EXCEPT ![x] = R]
    <3> HIDE DEF R, O
    <3> DEFINE v == [s EXCEPT ![x] = R]
    <3>1. SameBut(s, v, {x}) /\ v[x] = R
      BY <1>0 DEF HasFields, SameBut
    <3>2. t = [v EXCEPT !.order = O]
      BY Zenon
    <3> HIDE DEF v, t
    <3>3. SameBut(s, t, {x, "order"}) /\ t[x] = R /\ t.order = O
      BY ONLY <1>0, <3>1, <3>2, SMT DEF HasFields, SameBut
    <3>4. SameBut(s, t, {x, "order"})
      BY <3>3, Zenon
    <3>5. t[x] = R /\ t.order = O
      BY <3>3, Zenon
    <3>6. OnlyTable(s, t, x)
      BY ONLY IsStore(s), x \in Tables3, <3>4, WithTable, Zenon
    <3> QED
      BY <3>4, <3>5, <3>6, Zenon DEF OnlyTable
  <2>6. \A r \in t.observations : r.at \in Int
    <3>1. CASE x = "observations"
      BY <1>0, <2>5, <3>1, Zenon DEF TablesKept
    <3>2. CASE x # "observations"
      <4>1. t.observations = s.observations
        BY <2>5, <3>2 DEF Tables3
      <4> QED
        BY <1>0, <4>1, Zenon DEF TablesKept
    <3> QED
      BY <3>1, <3>2
  <2>o. [O EXCEPT ![x] = s.order[x]] = s.order
    BY <1>0 DEF TablesKept
  <2> HIDE DEF t, R, O
  <2>7. TablesKept(t)
    <3>1. \A y \in Tables3 : Keeps(t[y], O[y])
      BY <1>0, <2>3, <2>4, <2>5, Zenon DEF TablesKept
    <3> QED
      BY <2>4, <2>5, <2>6, <3>1, Zenon DEF TablesKept
  <2>8. Undo(t, u) = s
    <3> DEFINE w == Undo(t, u)
    <3>1. w = [t EXCEPT ![x] = { r \in t[x] : r.id # row.id }, !.order = [t.order EXCEPT ![x] = Front(t.order[x])]]
      BY <1>0, Zenon DEF Undo
    <3>2. w = [t EXCEPT ![x] = s[x], !.order = s.order]
      BY <2>3, <2>4, <2>5, <2>o, <3>1, Zenon
    <3> DEFINE v == [t EXCEPT ![x] = s[x]]
    <3>3. SameBut(s, v, {"order"})
      BY <1>0, <2>5 DEF HasFields, SameBut
    <3>4. w = [v EXCEPT !.order = s.order]
      BY <3>2, Zenon
    <3> HIDE DEF v, w
    <3>5. w = s
      BY ONLY <1>0, <3>3, <3>4, SMT DEF HasFields, SameBut
    <3> QED
      BY <3>5, Zenon DEF w
  <2>9. IsStore(t)
    <3> DEFINE F == {x, "order"}
    <3>1. /\ "states" \notin F /\ "devices" \notin F /\ "alerts" \notin F /\ F \cap {"outbox", "next"} = {}
          /\ F \cap {"autoReq", "autoOrder", "autoClaim"} = {} /\ SameBut(s, t, F)
      BY <2>5 DEF Tables3
    <3> HIDE DEF F
    <3>2. /\ HasFields(t) /\ t.states = [k \in DOMAIN t.states |-> t.states[k]]
          /\ DevicesKept(t) /\ AlertsKept(t) /\ OutboxKept(t) /\ RequestsKept(t)
      BY ONLY IsStore(s), <3>1, PartsKept, SMT
    <3> QED
      BY <2>7, <3>2, Zenon DEF IsStore
  <2> QED
    BY <2>1, <2>2, <2>5, <2>8, <2>9 DEF OpDone, Restores
<1> QED
  BY <1>2, <1>3

LEMMA WithStates ==
    ASSUME NEW s, IsStore(s), NEW D, NEW t, t = [s EXCEPT !.states = D]
    PROVE  /\ SameBut(s, t, {"states"}) /\ t.states = D
           /\ Contents(t) = [Contents(s) EXCEPT !.states = D]
<1>0. HasFields(s) /\ "states" \in Names
  BY Zenon DEF IsStore, Names
<1>1. SameBut(s, t, {"states"}) /\ t.states = D
  BY <1>0 DEF HasFields, SameBut
<1>2. OutboxRows(t) = OutboxRows(s) /\ RequestRows(t) = RequestRows(s)
  BY <1>1, RowsKept
<1>3. /\ t.observations = s.observations /\ t.transitions = s.transitions /\ t.events = s.events
      /\ t.devices = s.devices /\ t.alerts = s.alerts /\ t.autoRes = s.autoRes
  BY ONLY <1>1, FieldsKept, SMT
<1> QED
  BY ONLY <1>1, <1>2, <1>3, SMT DEF Contents

LEMMA StateDone ==
    ASSUME NEW s, IsStore(s), NEW o
    PROVE  OpDone(s, MemPutState(s, o), PutState(Contents(s), o))
<1> DEFINE D == With(s.states, o.key, o.value)
           t == [s EXCEPT !.states = D]
           u == [what |-> "state", key |-> o.key, old |-> s.states]
           db == Contents(s)
<1>0. HasFields(s) /\ s.states = [k \in DOMAIN s.states |-> s.states[k]]
  BY DEF IsStore
<1>1. MemPutState(s, o) = [s |-> t, undo |-> <<u>>]
  BY Zenon DEF MemPutState, Undoable
<1>2. db.states = s.states
  BY DEF Contents
<1>3. PutState(db, o) = [db EXCEPT !.states = D]
  BY <1>2, Zenon DEF PutState
<1>4. /\ D = [k \in DOMAIN D |-> D[k]] /\ DOMAIN D = DOMAIN s.states \cup {o.key}
      /\ \A k \in DOMAIN s.states : k # o.key => D[k] = s.states[k]
  BY Zenon DEF With
<1>5. (IF u.key \in DOMAIN u.old THEN With(D, u.key, u.old[u.key]) ELSE [k \in DOMAIN D \ {u.key} |-> D[k]]) = s.states
  <2>1. u.key = o.key /\ u.old = s.states
    OBVIOUS
  <2> HIDE DEF D
  <2>2. CASE o.key \in DOMAIN s.states
    BY <1>0, <1>4, <2>1, <2>2 DEF With
  <2>3. CASE o.key \notin DOMAIN s.states
    <3>1. DOMAIN D \ {o.key} = DOMAIN s.states
      BY <1>4, <2>3, Zenon
    <3>2. \A k \in DOMAIN s.states : D[k] = s.states[k]
      BY <1>4, <2>3, Zenon
    <3>3. [k \in DOMAIN D \ {o.key} |-> D[k]] = s.states
      BY <1>0, <3>1, <3>2
    <3> QED
      BY <2>1, <2>3, <3>3, Zenon
  <2> QED
    BY <2>2, <2>3
<1> HIDE DEF D
<1>6. /\ SameBut(s, t, {"states"}) /\ t.states = D
      /\ Contents(t) = [Contents(s) EXCEPT !.states = D]
  BY WithStates, Zenon
<1> HIDE DEF t
<1>7. Undo(t, u) = s
  <2> DEFINE w == Undo(t, u)
  <2>1. w = [t EXCEPT !.states = IF u.key \in DOMAIN u.old THEN With(t.states, u.key, u.old[u.key])
                                 ELSE [k \in DOMAIN t.states \ {u.key} |-> t.states[k]]]
    BY Zenon DEF Undo
  <2> HIDE DEF u
  <2>2. w = [t EXCEPT !.states = s.states]
    BY <1>5, <1>6, <2>1, Zenon
  <2> HIDE DEF w
  <2>3. w = s
    BY ONLY <1>0, <1>6, <2>2, SMT DEF HasFields, SameBut
  <2> QED
    BY <2>3, Zenon DEF w
<1>8. IsStore(t)
  <2>1. t.states = [k \in DOMAIN t.states |-> t.states[k]]
    BY <1>4, <1>6, Zenon
  <2> QED
    BY <1>6, <2>1, PartsKept DEF IsStore
<1>9. PutState(db, o) = Contents(t)
  BY <1>3, <1>6, Zenon
<1> QED
  <2> HIDE DEF u
  <2>1. OpDone(s, MemPutState(s, o), Contents(t))
    BY ONLY <1>1, <1>7, <1>8, UndoableDone, Zenon
  <2> QED
    BY <1>9, <2>1, Zenon

LEMMA WithAlerts ==
    ASSUME NEW s, IsStore(s), NEW D, NEW t, t = [s EXCEPT !.alerts = D]
    PROVE  /\ SameBut(s, t, {"alerts"}) /\ t.alerts = D
           /\ Contents(t) = [Contents(s) EXCEPT !.alerts = ToSet(D)]
<1>0. HasFields(s) /\ "alerts" \in Names
  BY Zenon DEF IsStore, Names
<1>1. SameBut(s, t, {"alerts"}) /\ t.alerts = D
  BY <1>0 DEF HasFields, SameBut
<1>2. OutboxRows(t) = OutboxRows(s) /\ RequestRows(t) = RequestRows(s)
  BY <1>1, RowsKept
<1>3. /\ t.observations = s.observations /\ t.transitions = s.transitions /\ t.events = s.events
      /\ t.devices = s.devices /\ t.states = s.states /\ t.autoRes = s.autoRes
  BY ONLY <1>1, FieldsKept, SMT
<1> QED
  BY ONLY <1>1, <1>2, <1>3, SMT DEF Contents

LEMMA OpenDone ==
    ASSUME NEW s, IsStore(s), NEW o, \A a \in Contents(s).alerts : a.event # o.event
    PROVE  OpDone(s, MemOpenAlert(s, o), OpenAlert(Contents(s), o))
<1> DEFINE q == s.alerts
           a == [event |-> o.event, key |-> o.key, status |-> "firing", at |-> Never]
           p == Append(q, a)
           t == [s EXCEPT !.alerts = p]
           u == [what |-> "open"]
           db == Contents(s)
<1>0. HasFields(s) /\ AlertsKept(s)
  BY DEF IsStore
<1>1. db.alerts = ToSet(q)
  BY DEF Contents
<1>2. Firing(db, o.key) # {} <=> \E i \in DOMAIN q : q[i].key = o.key /\ q[i].status = "firing"
  BY <1>1, Zenon DEF Firing, ToSet
<1>3. CASE Firing(db, o.key) # {}
  <2>1. MemOpenAlert(s, o) = NoChange(s)
    BY <1>2, <1>3, Zenon DEF MemOpenAlert
  <2>2. OpenAlert(db, o) = db
    BY <1>3, Zenon DEF OpenAlert
  <2> QED
    BY <2>1, <2>2, NothingToTakeBack, Zenon
<1>4. CASE ~(Firing(db, o.key) # {})
  <2>1. MemOpenAlert(s, o) = [s |-> t, undo |-> <<u>>]
    BY <1>2, <1>4, Zenon DEF MemOpenAlert, Undoable
  <2>2. OpenAlert(db, o) = [db EXCEPT !.alerts = ToSet(q) \cup {a}]
    BY <1>1, <1>4, Zenon DEF OpenAlert
  <2>a. a.status = "firing" /\ a.key = o.key /\ IsAlert(a)
    BY DEF IsAlert
  <2> HIDE DEF a
  <2>3. /\ p \in Seq(ToSet(p)) /\ ToSet(p) = ToSet(q) \cup {a}
        /\ Len(q) \in Nat /\ Front(p) = q
        /\ DOMAIN q = 1..Len(q) /\ DOMAIN p = 1..(Len(q) + 1)
        /\ \A i \in 1..Len(q) : p[i] = q[i]
        /\ p[Len(q) + 1] = a
    <3>1. q \in Seq(ToSet(q))
      BY <1>0, Zenon DEF AlertsKept
    <3> HIDE DEF q
    <3> QED
      BY <3>1, Longer
  <2>n. \A i \in 1..Len(q) : ~(q[i].status = "firing" /\ q[i].key = a.key)
    BY <1>2, <1>4, <2>a, <2>3, Zenon
  <2>i. \A i \in DOMAIN p : (i \in DOMAIN q /\ p[i] = q[i]) \/ (i = Len(q) + 1 /\ p[i] = a)
    <3> HIDE DEF q, p
    <3>1. \A i \in 1..(Len(q) + 1) : i \in 1..Len(q) \/ i = Len(q) + 1
      BY <2>3
    <3> QED
      BY <2>3, <3>1, Zenon
  <2> HIDE DEF p
  <2>4. /\ SameBut(s, t, {"alerts"}) /\ t.alerts = p
        /\ Contents(t) = [Contents(s) EXCEPT !.alerts = ToSet(p)]
    BY WithAlerts, Zenon
  <2> HIDE DEF t
  <2>5. Undo(t, u) = s
    <3> DEFINE w == Undo(t, u)
    <3>1. w = [t EXCEPT !.alerts = Front(t.alerts)]
      BY Zenon DEF Undo
    <3>2. w = [t EXCEPT !.alerts = s.alerts]
      BY <2>3, <2>4, <3>1, Zenon
    <3> HIDE DEF w
    <3>3. w = s
      BY ONLY <1>0, <2>4, <3>2, SMT DEF HasFields, SameBut
    <3> QED
      BY <3>3, Zenon DEF w
  <2>6. AlertsKept(t)
    <3>1. \A i \in DOMAIN p : IsAlert(p[i])
      BY <1>0, <2>a, <2>i, Zenon DEF AlertsKept
    <3>2. ASSUME NEW i \in DOMAIN p, NEW j \in DOMAIN p,
                 p[i].status = "firing" /\ p[j].status = "firing" /\ p[i].key = p[j].key
          PROVE  i = j
      <4>1. CASE i \in DOMAIN q /\ p[i] = q[i] /\ j \in DOMAIN q /\ p[j] = q[j]
        BY <1>0, <3>2, <4>1, Zenon DEF AlertsKept
      <4>2. CASE i \in DOMAIN q /\ p[i] = q[i] /\ p[j] = a
        BY <2>3, <2>n, <3>2, <4>2, Zenon
      <4>3. CASE j \in DOMAIN q /\ p[j] = q[j] /\ p[i] = a
        BY <2>3, <2>n, <3>2, <4>3, Zenon
      <4> QED
        BY <2>i, <4>1, <4>2, <4>3, Zenon
    <3> QED
      BY <2>3, <2>4, <3>1, <3>2, Zenon DEF AlertsKept
  <2>7. IsStore(t)
    BY <2>4, <2>6, PartsKept DEF IsStore
  <2>8. OpenAlert(db, o) = Contents(t)
    BY <2>2, <2>3, <2>4, Zenon
  <2> QED
    <3> HIDE DEF u
    <3>1. OpDone(s, MemOpenAlert(s, o), Contents(t))
      BY ONLY <2>1, <2>5, <2>7, UndoableDone, Zenon
    <3> QED
      BY <2>8, <3>1, Zenon
<1> QED
  BY <1>3, <1>4

LEMMA AlertResolved ==
    ASSUME NEW a, IsAlert(a), NEW v
    PROVE  [a EXCEPT !.status = "resolved", !.at = v] = [event |-> a.event, key |-> a.key, status |-> "resolved", at |-> v]
<1>1. PICK e, k, st, at : a = [event |-> e, key |-> k, status |-> st, at |-> at]
  BY Zenon DEF IsAlert
<1>2. a.event = e /\ a.key = k
  BY <1>1
<1> DEFINE c == [event |-> e, key |-> k, status |-> "resolved", at |-> at]
<1>3. [a EXCEPT !.status = "resolved"] = c
  BY ONLY <1>1, SMT
<1>4. [c EXCEPT !.at = v] = [event |-> e, key |-> k, status |-> "resolved", at |-> v]
  BY ONLY SMT
<1>5. [a EXCEPT !.status = "resolved", !.at = v] = [c EXCEPT !.at = v]
  BY ONLY <1>3, Zenon
<1> QED
  BY ONLY <1>2, <1>4, <1>5, Zenon

LEMMA ResolveDone ==
    ASSUME NEW s, IsStore(s), NEW o
    PROVE  OpDone(s, MemResolveAlert(s, o), ResolveAlert(Contents(s), o))
<1> DEFINE q == s.alerts
           I == { i \in 1..Len(q) : q[i].key = o.key /\ q[i].status = "firing" }
           db == Contents(s)
           f == Firing(db, o.key)
           n == SelectInSeq(q, LAMBDA a : a.key = o.key /\ a.status = "firing")
<1>0. HasFields(s) /\ AlertsKept(s)
  BY DEF IsStore
<1>1. db.alerts = ToSet(q)
  BY DEF Contents
<1>q. Len(q) \in Nat /\ DOMAIN q = 1..Len(q) /\ q = [i \in 1..Len(q) |-> q[i]]
  <2>1. q \in Seq(ToSet(q))
    BY <1>0, Zenon DEF AlertsKept
  <2> HIDE DEF q
  <2> QED
    BY <2>1
<1>2. n = IF I # {} THEN Min(I) ELSE 0
  BY Zenon DEF SelectInSeq
<1>3. \A a : a \in f <=> \E i \in I : a = q[i]
  BY <1>1, <1>q, Zenon DEF Firing, ToSet
<1>4. CASE I = {}
  <2>1. MemResolveAlert(s, o) = NoChange(s)
    BY <1>2, <1>4, Zenon DEF MemResolveAlert
  <2>2. f = {}
    BY <1>3, <1>4, Zenon
  <2>3. (ToSet(q) \ f) \cup { [a EXCEPT !.status = "resolved", !.at = o.at] : a \in f } = ToSet(q)
    BY <2>2, Zenon
  <2>4. ResolveAlert(db, o) = [db EXCEPT !.alerts = ToSet(q)]
    BY <1>1, <2>3, Zenon DEF ResolveAlert
  <2>5. [db EXCEPT !.alerts = ToSet(q)] = db
    BY DEF Contents
  <2> QED
    BY <2>1, <2>4, <2>5, NothingToTakeBack, Zenon
<1>5. CASE I # {}
  <2> DEFINE a == q[n]
             b == [a EXCEPT !.status = "resolved", !.at = o.at]
             p == [q EXCEPT ![n] = b]
             t == [s EXCEPT !.alerts = p]
             u == [what |-> "resolve", index |-> n, old |-> a]
  <2>1. n \in I /\ n \in DOMAIN q /\ n # 0
    <3>1. I \subseteq Nat
      BY <1>q
    <3>2. n \in I
      BY <1>2, <1>5, <3>1, MinIn, Zenon
    <3> HIDE DEF n
    <3> QED
      BY <1>q, <3>2
  <2> HIDE DEF n
  <2>2. \A i \in I : i = n
    BY <1>0, <1>q, <2>1, Zenon DEF AlertsKept
  <2>3. MemResolveAlert(s, o) = [s |-> t, undo |-> <<u>>]
    <3>1. MemResolveAlert(s, o) =
              [s |-> [s EXCEPT !.alerts[n].status = "resolved", !.alerts[n].at = o.at], undo |-> <<u>>]
      BY <2>1, Zenon DEF MemResolveAlert, Undoable, n
    <3>2. [s EXCEPT !.alerts[n].status = "resolved", !.alerts[n].at = o.at] = t
      <4> DEFINE c == [a EXCEPT !.status = "resolved"]
                 r == [q EXCEPT ![n] = c]
                 v == [s EXCEPT !.alerts = r]
      <4>1. [s EXCEPT !.alerts[n].status = "resolved", !.alerts[n].at = o.at]
               = [v EXCEPT !.alerts = [v.alerts EXCEPT ![n] = [v.alerts[n] EXCEPT !.at = o.at]]]
        BY Zenon
      <4>2. v.alerts = r
        BY <1>0 DEF HasFields, Names
      <4>3. r[n] = c /\ [c EXCEPT !.at = o.at] = b /\ [r EXCEPT ![n] = b] = p
        <5>1. r[n] = c
          BY <2>1
        <5>2. [c EXCEPT !.at = o.at] = b
          BY Zenon
        <5> HIDE DEF b, c
        <5>3. [r EXCEPT ![n] = b] = p
          BY <1>q, <2>1
        <5> QED
          BY <5>1, <5>2, <5>3
      <4>4. [v EXCEPT !.alerts = p] = t
        <5> HIDE DEF r, p
        <5> QED
          BY <1>0 DEF HasFields
      <4> QED
        BY <4>1, <4>2, <4>3, <4>4, Zenon
    <3> QED
      BY <3>1, <3>2, Zenon
  <2>4. b = [event |-> a.event, key |-> a.key, status |-> "resolved", at |-> o.at]
    <3>1. IsAlert(a)
      BY <1>0, <2>1, Zenon DEF AlertsKept
    <3> HIDE DEF a
    <3> QED
      BY <3>1, AlertResolved, Zenon
  <2>5. IsAlert(b) /\ b.status = "resolved"
    BY <2>4 DEF IsAlert
  <2>6. f = {a}
    BY <1>3, <2>1, <2>2, Zenon
  <2>7. ResolveAlert(db, o) = [db EXCEPT !.alerts = (ToSet(q) \ {a}) \cup {b}]
    <3>1. { [x EXCEPT !.status = "resolved", !.at = o.at] : x \in f } = {b}
      BY <2>6, Zenon
    <3> QED
      BY <1>1, <2>6, <3>1, Zenon DEF ResolveAlert
  <2>8. \A j \in DOMAIN q : j # n => q[j] # a
    BY <1>q, <2>1, <2>2, Zenon
  <2> HIDE DEF b
  <2>9. /\ DOMAIN p = DOMAIN q /\ p[n] = b /\ \A j \in DOMAIN q : j # n => p[j] = q[j]
        /\ [p EXCEPT ![n] = a] = q
    BY <1>q, <2>1
  <2> HIDE DEF p
  <2>10. ToSet(p) = (ToSet(q) \ {a}) \cup {b}
    <3>1. \A j \in DOMAIN q : p[j] \in (ToSet(q) \ {a}) \cup {b}
      BY <2>8, <2>9, Zenon DEF ToSet
    <3>2. \A e \in ToSet(q) : e # a => \E j \in DOMAIN q : p[j] = e
      BY <2>9, Zenon DEF ToSet
    <3>3. b \in ToSet(p)
      BY <2>1, <2>9, Zenon DEF ToSet
    <3> HIDE DEF a, q
    <3>4. ASSUME NEW e \in ToSet(p) PROVE e \in (ToSet(q) \ {a}) \cup {b}
      BY <2>9, <3>1, <3>4, Zenon DEF ToSet
    <3>5. ASSUME NEW e \in (ToSet(q) \ {a}) \cup {b} PROVE e \in ToSet(p)
      <4>1. CASE e = b
        BY <3>3, <4>1
      <4>2. CASE e \in ToSet(q) /\ e # a
        BY <2>9, <3>2, <4>2, Zenon DEF ToSet
      <4> QED
        BY <3>5, <4>1, <4>2, Zenon
    <3> QED
      BY <3>4, <3>5, Zenon
  <2>11. p \in Seq(ToSet(p))
    <3>1. \A j \in DOMAIN p : p[j] \in ToSet(p)
      BY Zenon DEF ToSet
    <3>2. p = [j \in 1..Len(q) |-> p[j]]
      BY <1>q, <2>9 DEF p
    <3> DEFINE W == ToSet(p)
               m == Len(q)
    <3>3. m \in Nat /\ p = [j \in 1..m |-> p[j]] /\ \A j \in 1..m : p[j] \in W
      BY <1>q, <2>9, <3>1, <3>2, Zenon
    <3> HIDE DEF W, m
    <3>4. p \in Seq(W)
      BY ONLY <3>3, SMT
    <3> QED
      BY <3>4, Zenon DEF W
  <2>12. /\ SameBut(s, t, {"alerts"}) /\ t.alerts = p
         /\ Contents(t) = [Contents(s) EXCEPT !.alerts = ToSet(p)]
    BY WithAlerts, Zenon
  <2> HIDE DEF t
  <2>13. Undo(t, u) = s
    <3> DEFINE w == Undo(t, u)
    <3>1. w = [t EXCEPT !.alerts = [t.alerts EXCEPT ![n] = a]]
      BY Zenon DEF Undo
    <3>2. w = [t EXCEPT !.alerts = s.alerts]
      BY <2>9, <2>12, <3>1, Zenon
    <3> HIDE DEF w
    <3>3. w = s
      BY ONLY <1>0, <2>12, <3>2, SMT DEF HasFields, SameBut
    <3> QED
      BY <3>3, Zenon DEF w
  <2>14. AlertsKept(t)
    <3>1. \A i \in DOMAIN p : IsAlert(p[i])
      BY <1>0, <2>5, <2>9, Zenon DEF AlertsKept
    <3>2. \A i, j \in DOMAIN p : p[i].status = "firing" /\ p[j].status = "firing" /\ p[i].key = p[j].key => i = j
      BY <1>0, <2>5, <2>9, Zenon DEF AlertsKept
    <3> QED
      BY <2>11, <2>12, <3>1, <3>2, Zenon DEF AlertsKept
  <2>15. IsStore(t)
    BY <2>12, <2>14, PartsKept DEF IsStore
  <2>16. ResolveAlert(db, o) = Contents(t)
    BY <2>7, <2>10, <2>12, Zenon
  <2> QED
    <3> HIDE DEF u
    <3>1. OpDone(s, MemResolveAlert(s, o), Contents(t))
      BY ONLY <2>3, <2>13, <2>15, UndoableDone, Zenon
    <3> QED
      BY <2>16, <3>1, Zenon
<1> QED
  BY <1>4, <1>5

LEMMA WithMessage ==
    ASSUME NEW s, IsStore(s), NEW msg
    PROVE  LET t == Numbered(s, msg)
           IN  /\ SameBut(s, t, {"next", "outbox"}) /\ t.next = s.next + 1 /\ Front(t.outbox) = s.outbox
               /\ s.next \in Nat /\ IsStore(t) /\ Contents(t) = Enqueue(Contents(s), msg)
<1> DEFINE q == s.outbox
           n == s.next
           r == [id |-> n + 1, msg |-> msg, published |-> FALSE]
           p == Append(q, r)
           t == Numbered(s, msg)
           F == {"next", "outbox"}
           db == Contents(s)
<1>0. HasFields(s) /\ OutboxKept(s)
  BY DEF IsStore
<1>1. SameBut(s, t, F) /\ t.next = n + 1 /\ t.outbox = p
  <2> HIDE DEF p
  <2> DEFINE v == [s EXCEPT !.next = n + 1]
  <2>1. SameBut(s, v, {"next"}) /\ v.next = n + 1
    BY <1>0 DEF HasFields, SameBut, Names
  <2>2. t = [v EXCEPT !.outbox = p]
    <3>1. v.outbox = s.outbox
      BY <2>1 DEF SameBut, Names
    <3> QED
      BY <3>1, Zenon DEF Numbered, p
  <2> HIDE DEF v, t
  <2> QED
    BY ONLY <2>1, <2>2, SMT DEF HasFields, SameBut, Names
<1>2. q \in Seq(ToSet(q)) /\ n = Len(q)
  BY <1>0, Zenon DEF OutboxKept
<1>r. r.id = n + 1 /\ r.msg = msg /\ r.published = FALSE /\ r = [id |-> n + 1, msg |-> r.msg, published |-> r.published]
  OBVIOUS
<1>3. /\ p \in Seq(ToSet(p)) /\ Len(q) \in Nat /\ Len(p) = Len(q) + 1 /\ Front(p) = q
      /\ DOMAIN q = 1..Len(q) /\ DOMAIN p = 1..(Len(q) + 1)
      /\ \A i \in 1..Len(q) : p[i] = q[i]
      /\ p[Len(q) + 1] = r
  <2> HIDE DEF r, q
  <2> QED
    BY <1>2, Longer
<1> HIDE DEF p, q, r, n, t
<1>4. n \in Nat /\ \A i \in 1..(n + 1) : i \in 1..n \/ i = n + 1
  BY <1>2, <1>3
<1>5. OutboxKept(t)
  <2>1. t.next = Len(t.outbox)
    BY <1>1, <1>2, <1>3, Zenon
  <2>2. \A i \in DOMAIN p : p[i] = [id |-> i, msg |-> p[i].msg, published |-> p[i].published]
    <3>1. \A i \in 1..n : q[i] = [id |-> i, msg |-> q[i].msg, published |-> q[i].published]
      BY <1>0, <1>2, <1>3, Zenon DEF OutboxKept, q
    <3> QED
      BY <1>2, <1>3, <1>4, <1>r, <3>1, Zenon
  <2> QED
    BY <1>1, <1>3, <2>1, <2>2, Zenon DEF OutboxKept
<1>6. /\ "outbox" \in F /\ F \cap {"observations", "transitions", "events", "order"} = {}
      /\ "states" \notin F /\ "devices" \notin F /\ "alerts" \notin F /\ "autoRes" \notin F /\ "observations" \notin F
      /\ "transitions" \notin F /\ "events" \notin F
      /\ F \cap {"autoReq", "autoOrder", "autoClaim"} = {} /\ F \cap {"autoReq", "autoClaim"} = {}
  OBVIOUS
<1> HIDE DEF F
<1>7. IsStore(t)
  <2>1. /\ HasFields(t) /\ t.states = [k \in DOMAIN t.states |-> t.states[k]]
        /\ TablesKept(t) /\ DevicesKept(t) /\ AlertsKept(t) /\ RequestsKept(t)
    BY ONLY IsStore(s), <1>1, <1>6, PartsKept, SMT
  <2> QED
    BY <1>5, <2>1, Zenon DEF IsStore
<1>8. OutboxRows(t) = Append(OutboxRows(s), Queued(msg))
  <2> DEFINE R == OutboxRows(s)
             R2 == OutboxRows(t)
             m == Queued(msg)
  <2>1. /\ R = [i \in 1..n |-> [msg |-> q[i].msg, published |-> q[i].published]]
        /\ R2 = [i \in 1..(n + 1) |-> [msg |-> p[i].msg, published |-> p[i].published]]
    BY <1>1, <1>2, <1>3, Zenon DEF OutboxRows, q
  <2>2. m = [msg |-> p[n + 1].msg, published |-> p[n + 1].published]
    BY <1>2, <1>3, <1>r, Zenon DEF Queued
  <2>3. /\ R = [i \in 1..n |-> R[i]] /\ \A i \in 1..n : R2[i] = R[i]
        /\ R2 = [i \in 1..(n + 1) |-> R2[i]] /\ R2[n + 1] = m
    <3>1. n + 1 \in 1..(n + 1) /\ \A i \in 1..n : i \in 1..(n + 1)
      BY <1>4
    <3>2. R = [i \in 1..n |-> R[i]] /\ R2 = [i \in 1..(n + 1) |-> R2[i]]
      BY <2>1, Zenon
    <3>3. R2[n + 1] = m
      <4> HIDE DEF m
      <4> QED
        BY <2>1, <2>2, <3>1, Zenon
    <3>4. ASSUME NEW i \in 1..n PROVE R2[i] = R[i]
      <4>1. p[i] = q[i]
        BY <1>2, <1>3, <3>4, Zenon
      <4>2. R[i] = [msg |-> q[i].msg, published |-> q[i].published]
        BY ONLY <2>1, <3>4, Zenon
      <4>3. R2[i] = [msg |-> p[i].msg, published |-> p[i].published]
        BY ONLY <2>1, <3>1, <3>4, Zenon
      <4> QED
        BY <4>1, <4>2, <4>3, Zenon
    <3> QED
      BY <3>2, <3>3, <3>4, Zenon
  <2> HIDE DEF R, R2, m
  <2> DEFINE W == { R[i] : i \in 1..n } \cup {m}
  <2>4. R \in Seq(W) /\ Len(R) = n
    <3>1. \A i \in 1..n : R[i] \in W
      BY Zenon
    <3> HIDE DEF W
    <3> QED
      BY <1>4, <2>3, <3>1
  <2>5. R2 = Append(R, m)
    <3> DEFINE A == Append(R, m)
    <3>1. /\ A = [i \in 1..(n + 1) |-> A[i]] /\ A[n + 1] = m /\ \A i \in 1..n : A[i] = R[i]
      <4>1. m \in W
        BY Zenon
      <4> HIDE DEF W
      <4> QED
        <5>1. A \in Seq(W) /\ Len(A) = n + 1 /\ A[n + 1] = m /\ \A i \in 1..n : A[i] = R[i]
          BY ONLY <1>4, <2>4, <4>1, SMT
        <5> HIDE DEF A
        <5>2. A = [i \in 1..Len(A) |-> A[i]]
          BY <5>1
        <5> QED
          BY <5>1, <5>2, Zenon
    <3> HIDE DEF A
    <3>2. \A i \in 1..(n + 1) : A[i] = R2[i]
      BY <1>4, <2>3, <3>1, Zenon
    <3>3. A = R2
      BY <2>3, <3>1, <3>2, Zenon
    <3> QED
      BY <3>3, Zenon DEF A
  <2> QED
    BY <2>5, Zenon DEF R, R2, m
<1>9. Contents(t) = Enqueue(db, msg)
  <2>1. RequestRows(t) = RequestRows(s)
    BY ONLY <1>1, <1>6, RowsKept, SMT
  <2>2. /\ t.observations = s.observations /\ t.transitions = s.transitions /\ t.events = s.events
        /\ t.devices = s.devices /\ t.states = s.states /\ t.alerts = s.alerts /\ t.autoRes = s.autoRes
    BY ONLY <1>1, <1>6, FieldsKept, SMT
  <2>3. db.outbox = OutboxRows(s)
    BY DEF Contents
  <2>4. Enqueue(db, msg) = [db EXCEPT !.outbox = OutboxRows(t)]
    BY <1>8, <2>3, Zenon DEF Enqueue
  <2>5. Contents(t) = [db EXCEPT !.outbox = OutboxRows(t)]
    BY ONLY <2>1, <2>2, SMT DEF Contents, db
  <2> QED
    BY <2>4, <2>5, Zenon
<1> QED
  BY <1>1, <1>3, <1>4, <1>7, <1>9, Zenon DEF t, n, q, F

LEMMA EnqueueDone ==
    ASSUME NEW s, IsStore(s), NEW msg
    PROVE  OpDone(s, MemEnqueue(s, msg), Enqueue(Contents(s), msg))
<1> DEFINE t == Numbered(s, msg)
           u == [what |-> "enqueue"]
<1>0. HasFields(s)
  BY DEF IsStore
<1>1. MemEnqueue(s, msg) = [s |-> t, undo |-> <<u>>]
  BY Zenon DEF MemEnqueue, Undoable
<1>2. /\ SameBut(s, t, {"next", "outbox"}) /\ t.next = s.next + 1 /\ Front(t.outbox) = s.outbox
      /\ s.next \in Nat /\ IsStore(t) /\ Contents(t) = Enqueue(Contents(s), msg)
  BY WithMessage, Zenon
<1> HIDE DEF t
<1>3. Undo(t, u) = s
  <2> DEFINE w == Undo(t, u)
  <2>1. w = [t EXCEPT !.outbox = Front(t.outbox), !.next = t.next - 1]
    BY Zenon DEF Undo
  <2>n. t.next - 1 = s.next
    BY <1>2
  <2>2. w = [t EXCEPT !.outbox = s.outbox, !.next = s.next]
    BY <1>2, <2>1, <2>n, Zenon
  <2> DEFINE v == [t EXCEPT !.outbox = s.outbox]
  <2>3. SameBut(s, v, {"next"})
    BY <1>0, <1>2 DEF HasFields, SameBut, Names
  <2>4. w = [v EXCEPT !.next = s.next]
    BY <2>2, Zenon
  <2> HIDE DEF v, w
  <2>5. w = s
    BY ONLY <1>0, <2>3, <2>4, SMT DEF HasFields, SameBut
  <2> QED
    BY <2>5, Zenon DEF w
<1> HIDE DEF u
<1>4. OpDone(s, MemEnqueue(s, msg), Contents(t))
  BY ONLY <1>1, <1>2, <1>3, UndoableDone, Zenon
<1> QED
  BY <1>2, <1>4, Zenon

LEMMA OpStep ==
    ASSUME NEW s, IsStore(s), NEW o, IsStoreOp(o),
           o.op = "OpenAlert" => \A a \in Contents(s).alerts : a.event # o.event
    PROVE  OpDone(s, MemApply(s, o), Apply(Contents(s), o))
<1> DEFINE db == Contents(s)
<1>t. "observations" \in Tables3 /\ "transitions" \in Tables3 /\ "events" \in Tables3
  BY DEF Tables3
<1>1. CASE o.op = "InsertObservation"
  <2>1. MemApply(s, o) = MemInsert(s, "observations", o.row) /\ Apply(db, o) = Inserted(db, "observations", o.row)
    BY <1>1, Zenon DEF MemApply, Apply
  <2>2. o.row.at \in Int
    BY <1>1, Zenon DEF IsStoreOp
  <2> QED
    BY <1>t, <2>1, <2>2, InsertDone, Zenon
<1>2. CASE o.op = "InsertTransition"
  <2>1. MemApply(s, o) = MemInsert(s, "transitions", o.row) /\ Apply(db, o) = Inserted(db, "transitions", o.row)
    BY <1>2, Zenon DEF MemApply, Apply
  <2> QED
    BY <1>t, <2>1, InsertDone, Zenon
<1>3. CASE o.op = "InsertEvent"
  <2>1. MemApply(s, o) = MemInsert(s, "events", o.row) /\ Apply(db, o) = Inserted(db, "events", o.row)
    BY <1>3, Zenon DEF MemApply, Apply
  <2> QED
    BY <1>t, <2>1, InsertDone, Zenon
<1>4. CASE o.op = "PutState"
  <2>1. MemApply(s, o) = MemPutState(s, o) /\ Apply(db, o) = PutState(db, o)
    BY <1>4, Zenon DEF MemApply, Apply
  <2> QED
    BY <2>1, StateDone, Zenon
<1>5. CASE o.op = "TouchDevice"
  <2>1. MemApply(s, o) = MemTouchDevice(s, o) /\ Apply(db, o) = TouchDevice(db, o) /\ o.at \in Int
    BY <1>5, Zenon DEF MemApply, Apply, IsStoreOp
  <2> QED
    BY <2>1, TouchDone, Zenon
<1>6. CASE o.op = "OpenAlert"
  <2>1. MemApply(s, o) = MemOpenAlert(s, o) /\ Apply(db, o) = OpenAlert(db, o)
    BY <1>6, Zenon DEF MemApply, Apply
  <2> QED
    BY <1>6, <2>1, OpenDone, Zenon
<1>7. CASE o.op = "ResolveAlert"
  <2>1. MemApply(s, o) = MemResolveAlert(s, o) /\ Apply(db, o) = ResolveAlert(db, o)
    BY <1>7, Zenon DEF MemApply, Apply
  <2> QED
    BY <2>1, ResolveDone, Zenon
<1>8. CASE o.op = "Enqueue"
  <2>1. MemApply(s, o) = MemEnqueue(s, o.msg) /\ Apply(db, o) = Enqueue(db, o.msg)
    BY <1>8, Zenon DEF MemApply, Apply
  <2> QED
    BY <2>1, EnqueueDone, Zenon
<1> QED
  BY <1>1, <1>2, <1>3, <1>4, <1>5, <1>6, <1>7, <1>8, Zenon DEF IsStoreOp

-----------------------------------------------------------------------------
(* Requests.                                                               *)

Req(status, created, notBefore, by, claimed) ==
    [status |-> status, created |-> created, notBefore |-> notBefore, by |-> by, claimed |-> claimed]

IsFun(f) == f = [i \in DOMAIN f |-> f[i]]

\* Updates, by name.
PutStatus(r, x)     == [r EXCEPT !.status = x]
PutBy(r, x)         == [r EXCEPT !.by = x]
PutClaimed(r, x)    == [r EXCEPT !.claimed = x]
PutEntry(R, id, r)  == [R EXCEPT ![id] = r]
PutRequests(db, Q)  == [db EXCEPT !.requests = Q]
PutBoth(db, Q, A)   == [db EXCEPT !.requests = Q, !.results = A]

\* A request with another status and approver.
Turned(r, status, by, claimed) == Req(status, r.created, r.notBefore, by, claimed)
ClaimOf(s, id) == IF id \in DOMAIN s.autoClaim THEN s.autoClaim[id] ELSE Never

LEMMA RowIs ==
    ASSUME NEW s, RequestsKept(s), NEW id \in DOMAIN s.autoReq
    PROVE  LET r == s.autoReq[id]
           IN  /\ r = Req(r.status, r.created, r.notBefore, r.by, Never)
               /\ RequestRow(s, id) = Turned(r, r.status, r.by, ClaimOf(s, id))
<1> DEFINE r == s.autoReq[id]
<1>1. r = Req(r.status, r.created, r.notBefore, r.by, r.claimed) /\ r.claimed = Never
  BY Zenon DEF RequestsKept, Req
<1>2. RequestRow(s, id) = [r EXCEPT !.claimed = ClaimOf(s, id)]
  <2>1. (IF id \in DOMAIN s.autoClaim THEN s.autoClaim[id] ELSE r.claimed) = ClaimOf(s, id)
    BY <1>1, Zenon DEF ClaimOf
  <2> QED
    BY <2>1, Zenon DEF RequestRow
<1> HIDE DEF r
<1>3. PICK a, b, c, d : r = Req(a, b, c, d, Never)
  BY <1>1, Zenon
<1>4. a = r.status /\ b = r.created /\ c = r.notBefore /\ d = r.by
  BY ONLY <1>3, SMT DEF Req
<1>5. [r EXCEPT !.claimed = ClaimOf(s, id)] = Req(a, b, c, d, ClaimOf(s, id))
  <2> DEFINE e == ClaimOf(s, id)
  <2> HIDE DEF e
  <2>1. [r EXCEPT !.claimed = e] = Req(a, b, c, d, e)
    BY ONLY <1>3, SMT DEF Req
  <2> QED
    BY <2>1, Zenon DEF e
<1> QED
  BY <1>1, <1>2, <1>4, <1>5, Zenon DEF Turned, r

LEMMA RequestTurned ==
    ASSUME NEW r, NEW a, NEW b, NEW c
    PROVE  /\ Turned(r, a, b, c).status = a /\ Turned(r, a, b, c).by = b /\ Turned(r, a, b, c).claimed = c
           /\ Turned(r, a, b, c).created = r.created /\ Turned(r, a, b, c).notBefore = r.notBefore
  BY DEF Turned, Req

LEMMA TurnedUpdates ==
    ASSUME NEW r, NEW a, NEW b, NEW c, NEW x
    PROVE  /\ PutStatus(Turned(r, a, b, c), x) = Turned(r, x, b, c)
           /\ PutBy(Turned(r, a, b, c), x) = Turned(r, a, x, c)
           /\ PutClaimed(Turned(r, a, b, c), x) = Turned(r, a, b, x)
  BY DEF Turned, Req, PutStatus, PutBy, PutClaimed

LEMMA WithRequests ==
    ASSUME NEW s, IsStore(s), NEW t, SameBut(s, t, {"autoReq", "autoOrder", "autoRes", "autoClaim"}), RequestsKept(t)
    PROVE  IsStore(t) /\ Contents(t) = PutBoth(Contents(s), RequestRows(t), t.autoRes)
<1> DEFINE F == {"autoReq", "autoOrder", "autoRes", "autoClaim"}
<1>1. SameBut(s, t, F) /\ RequestsKept(t)
  OBVIOUS
<1>6. /\ F \cap {"observations", "transitions", "events", "order"} = {} /\ F \cap {"outbox", "next"} = {}
      /\ "states" \notin F /\ "devices" \notin F /\ "alerts" \notin F /\ "observations" \notin F
      /\ "transitions" \notin F /\ "events" \notin F /\ "outbox" \notin F
  OBVIOUS
<1> HIDE DEF F
<1>7. IsStore(t)
  <2>1. /\ HasFields(t) /\ t.states = [k \in DOMAIN t.states |-> t.states[k]]
        /\ TablesKept(t) /\ DevicesKept(t) /\ AlertsKept(t) /\ OutboxKept(t)
    BY ONLY IsStore(s), <1>1, <1>6, PartsKept, SMT
  <2> QED
    BY <1>1, <2>1, Zenon DEF IsStore
<1>8. OutboxRows(t) = OutboxRows(s)
  BY ONLY <1>1, <1>6, RowsKept, SMT
<1>9. /\ t.observations = s.observations /\ t.transitions = s.transitions /\ t.events = s.events
      /\ t.devices = s.devices /\ t.states = s.states /\ t.alerts = s.alerts
  BY ONLY <1>1, <1>6, FieldsKept, SMT
<1> DEFINE R == RequestRows(t)
           A == t.autoRes
<1>10. [Contents(s) EXCEPT !.requests = R, !.results = A] =
          [ observations |-> s.observations, transitions |-> s.transitions, events |-> s.events, states |-> s.states,
            alerts |-> ToSet(s.alerts), devices |-> s.devices, outbox |-> OutboxRows(s), requests |-> R, results |-> A ]
  <2> HIDE DEF R, A
  <2> DEFINE e == [Contents(s) EXCEPT !.requests = R]
  <2>1. e = [ observations |-> s.observations, transitions |-> s.transitions, events |-> s.events, states |-> s.states,
              alerts |-> ToSet(s.alerts), devices |-> s.devices, outbox |-> OutboxRows(s), requests |-> R, results |-> s.autoRes ]
    BY DEF Contents
  <2>2. [Contents(s) EXCEPT !.requests = R, !.results = A] = [e EXCEPT !.results = A]
    BY Zenon
  <2> HIDE DEF e
  <2>3. [e EXCEPT !.results = A] =
          [ observations |-> s.observations, transitions |-> s.transitions, events |-> s.events, states |-> s.states,
            alerts |-> ToSet(s.alerts), devices |-> s.devices, outbox |-> OutboxRows(s), requests |-> R, results |-> A ]
    BY <2>1
  <2> QED
    BY <2>2, <2>3, Zenon
<1>11. Contents(t) =
          [ observations |-> s.observations, transitions |-> s.transitions, events |-> s.events, states |-> s.states,
            alerts |-> ToSet(s.alerts), devices |-> s.devices, outbox |-> OutboxRows(s), requests |-> R, results |-> A ]
  BY <1>8, <1>9, Zenon DEF Contents
<1> QED
  BY <1>7, <1>10, <1>11, Zenon DEF PutBoth

LEMMA RequestSet ==
    ASSUME NEW s, IsStore(s), NEW id \in DOMAIN s.autoReq, NEW st, NEW by, NEW t,
           SameBut(s, t, {"autoReq", "autoOrder", "autoRes", "autoClaim"}),
           t.autoReq = PutEntry(s.autoReq, id, Turned(s.autoReq[id], st, by, Never)),
           t.autoOrder = s.autoOrder,
           t.autoClaim = s.autoClaim \/ \E now \in Int : t.autoClaim = With(s.autoClaim, id, now),
           st = "executing" => id \in DOMAIN t.autoClaim
    PROVE  /\ RequestsKept(t)
           /\ RequestRows(t) = PutEntry(RequestRows(s), id, Turned(s.autoReq[id], st, by, ClaimOf(t, id)))
<1> DEFINE R == s.autoReq
           r == R[id]
           x == Turned(r, st, by, Never)
           C == s.autoClaim
           D == t.autoClaim
<1>0. RequestsKept(s)
  BY DEF IsStore
<1>1. R = [i \in DOMAIN R |-> R[i]] /\ C = [i \in DOMAIN C |-> C[i]] /\ DOMAIN C \subseteq DOMAIN R
  BY <1>0, Zenon DEF RequestsKept
<1>2. x = Req(x.status, x.created, x.notBefore, x.by, x.claimed) /\ x.claimed = Never /\ x.status = st
  <2>1. x.status = st /\ x.by = by /\ x.claimed = Never /\ x.created = r.created /\ x.notBefore = r.notBefore
    <3> HIDE DEF r
    <3> QED
      BY RequestTurned
  <2> QED
    BY <2>1, Zenon DEF Turned
<1>3. t.autoReq = [i \in DOMAIN R |-> IF i = id THEN x ELSE R[i]]
  <2> HIDE DEF x
  <2>1. t.autoReq = [R EXCEPT ![id] = x]
    BY Zenon DEF x, PutEntry
  <2> HIDE DEF R
  <2> QED
    BY <1>1, <2>1
<1>4. /\ D = [i \in DOMAIN D |-> D[i]] /\ DOMAIN D \subseteq DOMAIN R /\ DOMAIN C \subseteq DOMAIN D
      /\ \A i \in DOMAIN D : D[i] \in Int
      /\ \A i \in DOMAIN R \ {id} : (i \in DOMAIN D <=> i \in DOMAIN C) /\ (i \in DOMAIN C => D[i] = C[i])
  <2>1. CASE D = C
    BY <1>0, <1>1, <2>1, Zenon DEF RequestsKept
  <2>2. CASE \E now \in Int : D = With(C, id, now)
    <3>1. PICK now \in Int : D = With(C, id, now)
      BY <2>2, Zenon
    <3>2. DOMAIN D = DOMAIN C \cup {id} /\ D = [i \in DOMAIN D |-> D[i]]
      BY <3>1, Zenon DEF With
    <3>3. D[id] = now /\ \A i \in DOMAIN C : i # id => D[i] = C[i]
      BY <3>1, Zenon DEF With
    <3>4. \A i \in DOMAIN C : C[i] \in Int
      BY <1>0, Zenon DEF RequestsKept
    <3> HIDE DEF C, D, R
    <3>5. \A i \in DOMAIN D : D[i] \in Int
      BY <3>2, <3>3, <3>4, Zenon
    <3>6. DOMAIN D \subseteq DOMAIN R
      BY <1>1, <3>2, Zenon DEF R
    <3> QED
      BY <3>2, <3>3, <3>5, <3>6, Zenon
  <2> QED
    BY <2>1, <2>2, Zenon
<1> HIDE DEF x
<1>5. DOMAIN t.autoReq = DOMAIN R /\ t.autoReq[id] = x /\ \A i \in DOMAIN R \ {id} : t.autoReq[i] = R[i]
  BY <1>3, Zenon
<1>6. ASSUME NEW i \in DOMAIN R
      PROVE  /\ t.autoReq[i] = Req(t.autoReq[i].status, t.autoReq[i].created, t.autoReq[i].notBefore, t.autoReq[i].by,
                                   t.autoReq[i].claimed)
             /\ t.autoReq[i].claimed = Never
             /\ t.autoReq[i].status = "executing" => i \in DOMAIN D
  <2>1. CASE i = id
    BY <1>2, <1>5, <2>1, Zenon
  <2>2. CASE i # id
    <3>1. t.autoReq[i] = R[i]
      BY <1>5, <2>2, Zenon
    <3>2. R[i].status = "executing" => i \in DOMAIN C
      BY <1>0, Zenon DEF RequestsKept
    <3>3. R[i] = Req(R[i].status, R[i].created, R[i].notBefore, R[i].by, R[i].claimed) /\ R[i].claimed = Never
      BY <1>0, Zenon DEF RequestsKept, Req
    <3> QED
      BY <1>4, <3>1, <3>2, <3>3, Zenon
  <2> QED
    BY <2>1, <2>2
<1>7. RequestsKept(t)
  <2>1. t.autoOrder \in Seq(ToSet(t.autoOrder)) /\ ToSet(t.autoOrder) = DOMAIN t.autoReq
    BY <1>0, <1>5, Zenon DEF RequestsKept
  <2>2. t.autoReq = [i \in DOMAIN t.autoReq |-> t.autoReq[i]]
    BY <1>3, Zenon
  <2>3. x.created = r.created
    <3> HIDE DEF r
    <3> QED
      BY RequestTurned DEF x
  <2>4. \A i \in DOMAIN t.autoReq : i \in Nat /\ t.autoReq[i].created \in Int
    <3>1. \A i \in DOMAIN R : i \in Nat /\ R[i].created \in Int
      BY <1>0, Zenon DEF RequestsKept
    <3>2. \A i \in DOMAIN R : t.autoReq[i].created = R[i].created
      BY <1>5, <2>3, Zenon
    <3> QED
      BY <1>5, <3>1, <3>2, Zenon
  <2>5. \A i, j \in DOMAIN t.autoOrder : t.autoOrder[i] = t.autoOrder[j] => i = j
    BY <1>0, Zenon DEF RequestsKept
  <2> QED
    BY <1>4, <1>5, <1>6, <2>1, <2>2, <2>4, <2>5, Zenon DEF RequestsKept, Req
<1>8. RequestRow(t, id) = Turned(r, st, by, ClaimOf(t, id))
  <2>1. RequestRow(t, id) = Turned(x, x.status, x.by, ClaimOf(t, id))
    BY <1>5, <1>7, RowIs, Zenon
  <2>2. x.status = st /\ x.by = by /\ x.created = r.created /\ x.notBefore = r.notBefore
    <3> HIDE DEF r
    <3> QED
      BY RequestTurned DEF x
  <2> QED
    BY <2>1, <2>2, Zenon DEF Turned
<1>9. ASSUME NEW i \in DOMAIN R, i # id PROVE RequestRow(t, i) = RequestRow(s, i)
  <2>1. ClaimOf(t, i) = ClaimOf(s, i)
    BY <1>4, <1>9, Zenon DEF ClaimOf
  <2>2. t.autoReq[i] = R[i]
    BY <1>5, <1>9, Zenon
  <2>3. RequestRow(s, i) = Turned(R[i], R[i].status, R[i].by, ClaimOf(s, i))
    BY <1>0, RowIs, Zenon
  <2>4. RequestRow(t, i) = Turned(R[i], R[i].status, R[i].by, ClaimOf(t, i))
    BY <1>5, <1>7, <2>2, RowIs, Zenon
  <2> QED
    BY <2>1, <2>3, <2>4, Zenon
<1>10. RequestRows(t) = PutEntry(RequestRows(s), id, Turned(r, st, by, ClaimOf(t, id)))
  <2> DEFINE y == Turned(r, st, by, ClaimOf(t, id))
             Q == RequestRows(s)
  <2>1. RequestRows(t) = [i \in DOMAIN R |-> IF i = id THEN y ELSE RequestRow(s, i)]
    <3>1. \A i \in DOMAIN R : RequestRow(t, i) = IF i = id THEN y ELSE RequestRow(s, i)
      BY <1>8, <1>9, Zenon
    <3>2. RequestRows(t) = [i \in DOMAIN R |-> RequestRow(t, i)]
      BY <1>5, Zenon DEF RequestRows
    <3> HIDE DEF y
    <3> QED
      BY ONLY <3>1, <3>2, Zenon
  <2>2. Q = [i \in DOMAIN R |-> RequestRow(s, i)]
    BY Zenon DEF RequestRows
  <2> HIDE DEF y, Q, R
  <2>3. [Q EXCEPT ![id] = y] = [i \in DOMAIN R |-> IF i = id THEN y ELSE RequestRow(s, i)]
    BY <2>2
  <2> QED
    BY <2>1, <2>3, Zenon DEF y, Q, PutEntry
<1> QED
  BY <1>7, <1>10, Zenon

\* A call is made: the store is one, with the rows of db.
CallMatches(t, db) == IsStore(t) /\ Contents(t) = db

LEMMA RequestTable ==
    ASSUME NEW s, NEW Q1, NEW Q2
    PROVE  /\ PutRequests(Contents(s), Q1).requests = Q1
           /\ PutRequests(PutRequests(Contents(s), Q1), Q2) = PutRequests(Contents(s), Q2)
  BY DEF Contents, PutRequests

LEMMA ResultsSame ==
    ASSUME NEW s, NEW Q
    PROVE  PutBoth(Contents(s), Q, s.autoRes) = PutRequests(Contents(s), Q)
<1> DEFINE d == PutRequests(Contents(s), Q)
<1>1. PutBoth(Contents(s), Q, s.autoRes) = [d EXCEPT !.results = s.autoRes]
  BY Zenon DEF PutBoth, PutRequests
<1>2. d = [ observations |-> s.observations, transitions |-> s.transitions, events |-> s.events, states |-> s.states,
            alerts |-> ToSet(s.alerts), devices |-> s.devices, outbox |-> OutboxRows(s), requests |-> Q, results |-> s.autoRes ]
  BY DEF Contents, PutRequests
<1> HIDE DEF d
<1>3. [d EXCEPT !.results = s.autoRes] = d
  BY <1>2
<1> QED
  BY <1>1, <1>3, Zenon DEF d

LEMMA EntrySet ==
    ASSUME NEW R, IsFun(R), NEW id \in DOMAIN R, NEW a, NEW b
    PROVE  PutEntry(R, id, a)[id] = a /\ PutEntry(PutEntry(R, id, a), id, b) = PutEntry(R, id, b)
  BY DEF PutEntry, IsFun

LEMMA RowFacts ==
    ASSUME NEW s, IsStore(s)
    PROVE  /\ HasFields(s) /\ RequestsKept(s)
           /\ Contents(s).requests = RequestRows(s) /\ DOMAIN RequestRows(s) = DOMAIN s.autoReq
           /\ IsFun(s.autoReq) /\ IsFun(RequestRows(s))
<1>1. HasFields(s) /\ RequestsKept(s)
  BY DEF IsStore
<1>2. Contents(s).requests = RequestRows(s)
  BY DEF Contents
<1>3. /\ RequestRows(s) = [i \in DOMAIN RequestRows(s) |-> RequestRows(s)[i]] /\ DOMAIN RequestRows(s) = DOMAIN s.autoReq
  BY Zenon DEF RequestRows
<1>4. s.autoReq = [i \in DOMAIN s.autoReq |-> s.autoReq[i]]
  BY <1>1, Zenon DEF RequestsKept
<1> QED
  BY <1>1, <1>2, <1>3, <1>4, Zenon DEF IsFun

\* A request and its row.
RowOf(r, w, claim) ==
    /\ r = Turned(r, r.status, r.by, Never) /\ w = Turned(r, r.status, r.by, claim)
    /\ w.status = r.status /\ w.claimed = claim

LEMMA RowFor ==
    ASSUME NEW s, IsStore(s), NEW id \in DOMAIN s.autoReq
    PROVE  RowOf(s.autoReq[id], RequestRows(s)[id], ClaimOf(s, id))
<1> DEFINE r == s.autoReq[id]
           w == RequestRows(s)[id]
<1>1. RequestsKept(s)
  BY DEF IsStore
<1>3. w = RequestRow(s, id)
  BY Zenon DEF RequestRows
<1>5. /\ r = Turned(r, r.status, r.by, Never)
      /\ w = Turned(r, r.status, r.by, ClaimOf(s, id))
  BY <1>1, <1>3, RowIs, Zenon DEF Turned
<1>6. w.status = r.status /\ w.claimed = ClaimOf(s, id)
  <2> HIDE DEF w, r
  <2> QED
    BY <1>5, RequestTurned
<1> QED
  BY <1>5, <1>6, Zenon DEF RowOf

\* Updates of a request and of its row.
LEMMA RowTurned ==
    ASSUME NEW r, NEW w, NEW claim, RowOf(r, w, claim), NEW x, NEW y
    PROVE  /\ PutStatus(r, x) = Turned(r, x, r.by, Never) /\ PutStatus(w, x) = Turned(r, x, r.by, claim)
           /\ PutBy(PutStatus(r, x), y) = Turned(r, x, y, Never) /\ PutBy(PutStatus(w, x), y) = Turned(r, x, y, claim)
           /\ PutClaimed(PutStatus(w, x), y) = Turned(r, x, r.by, y)
<1>1. \A a, b, c, z : /\ PutStatus(Turned(r, a, b, c), z) = Turned(r, z, b, c)
                      /\ PutBy(Turned(r, a, b, c), z) = Turned(r, a, z, c)
                      /\ PutClaimed(Turned(r, a, b, c), z) = Turned(r, a, b, z)
  BY TurnedUpdates
<1> DEFINE p == Turned(r, r.status, r.by, Never)
           q == Turned(r, r.status, r.by, claim)
<1>2. r = p /\ w = q
  BY Zenon DEF RowOf
<1>3. PutStatus(p, x) = Turned(r, x, r.by, Never) /\ PutStatus(q, x) = Turned(r, x, r.by, claim)
  BY ONLY <1>1, SMT
<1> HIDE DEF p, q
<1>4. PutStatus(r, x) = Turned(r, x, r.by, Never)
  <2>1. PutStatus(r, x) = PutStatus(p, x)
    BY ONLY <1>2, Zenon
  <2> QED
    BY ONLY <1>3, <2>1, Zenon
<1>5. PutStatus(w, x) = Turned(r, x, r.by, claim)
  BY ONLY <1>2, <1>3, Zenon
<1> QED
  BY ONLY <1>1, <1>4, <1>5, SMT

LEMMA ClaimDone ==
    ASSUME NEW s, IsStore(s), NEW o, o.now \in Int
    PROVE  CallMatches(MemClaim(s, o), ClaimAutomation(Contents(s), o))
<1> DEFINE db == Contents(s)
           id == o.id
           now == o.now
           R == s.autoReq
           r == R[id]
           Q == RequestRows(s)
<1>0. /\ HasFields(s) /\ RequestsKept(s) /\ db.requests = Q /\ DOMAIN Q = DOMAIN R
      /\ IsFun(R) /\ IsFun(Q)
  BY RowFacts, Zenon
<1>r. ASSUME id \in DOMAIN R PROVE RowOf(r, Q[id], ClaimOf(s, id))
  BY <1>r, RowFor, Zenon
<1>1. ASSUME id \in DOMAIN R PROVE Claimable(Q[id], now) <=> MemClaimable(s, id, now)
  <2>1. ASSUME r.status = "executing" PROVE Q[id].claimed < now - Lease <=> s.autoClaim[id] + Lease < now
    <3> DEFINE c == s.autoClaim[id]
    <3>1. Q[id].claimed = c /\ c \in Int
      BY <1>0, <1>r, <1>1, <2>1, Zenon DEF RequestsKept, ClaimOf, RowOf
    <3> HIDE DEF c
    <3>2. c < now - Lease <=> c + Lease < now
      BY <3>1, DatabaseAssumption
    <3> QED
      BY <3>1, <3>2, Zenon DEF c
  <2> QED
    BY <1>r, <1>1, <2>1, Zenon DEF Claimable, MemClaimable, RowOf
<1>2. CASE ~(id \in DOMAIN R /\ MemClaimable(s, id, now))
  BY <1>0, <1>1, <1>2, Zenon DEF MemClaim, ClaimAutomation, CallMatches
<1>3. CASE id \in DOMAIN R /\ MemClaimable(s, id, now)
  <2> DEFINE e == Turned(r, "executing", r.by, Never)
             R2 == PutEntry(R, id, e)
             C2 == With(s.autoClaim, id, now)
             v == [s EXCEPT !.autoReq = R2]
             t == MemClaim(s, o)
             x == Turned(r, "executing", r.by, now)
  <2>r. PutStatus(r, "executing") = e
    <3> HIDE DEF r
    <3> QED
      BY ONLY <1>r, <1>3, RowTurned, SMT
  <2> HIDE DEF e
  <2>1. t = [v EXCEPT !.autoClaim = C2]
    <3>1. t = [s EXCEPT !.autoReq[id].status = "executing", !.autoClaim = With(@, id, now)]
      BY <1>3, Zenon DEF MemClaim
    <3>2. v.autoClaim = s.autoClaim
      <4> HIDE DEF R2
      <4> QED
        BY <1>0 DEF HasFields, Names
    <3> QED
      BY <2>r, <3>1, <3>2, Zenon DEF PutEntry, PutStatus
  <2>2. /\ SameBut(s, t, {"autoReq", "autoOrder", "autoRes", "autoClaim"}) /\ t.autoReq = R2 /\ t.autoClaim = C2
        /\ t.autoOrder = s.autoOrder /\ t.autoRes = s.autoRes
    <3> HIDE DEF R2, C2
    <3>1. SameBut(s, v, {"autoReq"}) /\ v.autoReq = R2
      BY <1>0 DEF HasFields, SameBut, Names
    <3> HIDE DEF v, t
    <3> QED
      BY ONLY <1>0, <2>1, <3>1, SMT DEF HasFields, SameBut, Names
  <2>3. id \in DOMAIN C2 /\ C2[id] = now /\ ClaimOf(t, id) = now
    BY <2>2, Zenon DEF With, ClaimOf
  <2> HIDE DEF t, C2
  <2>4. RequestsKept(t) /\ RequestRows(t) = PutEntry(Q, id, x)
    <3>1. t.autoClaim = s.autoClaim \/ \E n \in Int : t.autoClaim = With(s.autoClaim, id, n)
      BY <2>2, Zenon DEF C2
    <3>2. t.autoReq = PutEntry(s.autoReq, id, Turned(s.autoReq[id], "executing", r.by, Never))
      BY <2>2, Zenon DEF e
    <3>3. RequestsKept(t) /\ RequestRows(t) = PutEntry(RequestRows(s), id, Turned(r, "executing", r.by, ClaimOf(t, id)))
      BY ONLY IsStore(s), <1>3, <2>2, <2>3, <3>1, <3>2, RequestSet, SMT
    <3> QED
      BY <2>3, <3>3, Zenon
  <2>5. IsStore(t) /\ Contents(t) = PutBoth(db, RequestRows(t), s.autoRes)
    BY <2>2, <2>4, WithRequests, Zenon
  <2> HIDE DEF R2
  <2>6. ClaimAutomation(db, o) = PutRequests(db, PutEntry(Q, id, x))
    <3> DEFINE y == PutStatus(Q[id], "executing")
               Q1 == PutEntry(Q, id, y)
               d1 == PutRequests(db, Q1)
    <3>1. ClaimAutomation(db, o) = PutRequests(d1, PutEntry(d1.requests, id, PutClaimed(d1.requests[id], now)))
      <4>1. id \in DOMAIN db.requests /\ Claimable(db.requests[id], now)
        BY <1>0, <1>1, <1>3, Zenon
      <4>2. ClaimAutomation(db, o) = [db EXCEPT !.requests[id].status = "executing", !.requests[id].claimed = now]
        BY <4>1, Zenon DEF ClaimAutomation
      <4> HIDE DEF db, Q
      <4> QED
        BY <1>0, <4>2, Zenon DEF PutRequests, PutEntry, PutStatus, PutClaimed
    <3>2. y = Turned(r, "executing", r.by, ClaimOf(s, id))
      <4> HIDE DEF r, Q
      <4> QED
        BY ONLY <1>r, <1>3, RowTurned, SMT
    <3>3. PutClaimed(y, now) = x
      <4> HIDE DEF r, Q
      <4> QED
        BY ONLY <1>r, <1>3, RowTurned, SMT
    <3> HIDE DEF y, x
    <3>4. Q1[id] = y /\ PutEntry(Q1, id, x) = PutEntry(Q, id, x)
      <4> HIDE DEF Q
      <4> QED
        BY ONLY <1>0, <1>3, EntrySet, SMT
    <3> HIDE DEF Q1, Q
    <3>5. d1.requests = Q1 /\ PutRequests(d1, PutEntry(Q, id, x)) = PutRequests(db, PutEntry(Q, id, x))
      BY RequestTable, Zenon
    <3> HIDE DEF d1
    <3> QED
      BY <3>1, <3>3, <3>4, <3>5, Zenon
  <2>7. PutBoth(db, RequestRows(t), s.autoRes) = PutRequests(db, RequestRows(t))
    BY ResultsSame, Zenon
  <2> HIDE DEF x
  <2> QED
    BY <2>4, <2>5, <2>6, <2>7, Zenon DEF CallMatches, t
<1> QED
  BY <1>2, <1>3

\* An update that leaves the claims alone.
LEMMA RequestUpdated ==
    ASSUME NEW s, IsStore(s), NEW id \in DOMAIN s.autoReq, NEW st, NEW by, st # "executing" \/ st = s.autoReq[id].status, NEW t,
           SameBut(s, t, {"autoReq", "autoRes"}),
           t.autoReq = PutEntry(s.autoReq, id, Turned(s.autoReq[id], st, by, Never))
    PROVE  /\ IsStore(t)
           /\ Contents(t) = PutBoth(Contents(s), PutEntry(RequestRows(s), id, Turned(s.autoReq[id], st, by, ClaimOf(s, id))), t.autoRes)
<1>1. t.autoOrder = s.autoOrder /\ t.autoClaim = s.autoClaim
  BY FieldsKept
<1>2. SameBut(s, t, {"autoReq", "autoOrder", "autoRes", "autoClaim"})
  BY Zenon DEF SameBut
<1>3. st = "executing" => id \in DOMAIN t.autoClaim
  BY <1>1, Zenon DEF IsStore, RequestsKept
<1>4. ClaimOf(t, id) = ClaimOf(s, id)
  BY <1>1, Zenon DEF ClaimOf
<1>5. /\ t.autoReq = PutEntry(s.autoReq, id, Turned(s.autoReq[id], st, by, Never)) /\ IsStore(s) /\ id \in DOMAIN s.autoReq
  OBVIOUS
<1>6. RequestsKept(t) /\ RequestRows(t) = PutEntry(RequestRows(s), id, Turned(s.autoReq[id], st, by, ClaimOf(t, id)))
  BY ONLY <1>1, <1>2, <1>3, <1>5, RequestSet, SMT
<1>7. IsStore(t) /\ Contents(t) = PutBoth(Contents(s), RequestRows(t), t.autoRes)
  BY ONLY <1>2, <1>5, <1>6, WithRequests, SMT
<1> QED
  BY <1>4, <1>6, <1>7, Zenon

LEMMA SetStatusDone ==
    ASSUME NEW s, IsStore(s), NEW o, o.to # "executing"
    PROVE  CallMatches(MemSetStatus(s, o), SetAutomationStatus(Contents(s), o))
<1> DEFINE db == Contents(s)
           id == o.id
           R == s.autoReq
           r == R[id]
           Q == RequestRows(s)
           Good == id \in DOMAIN R /\ r.status \in o.from
<1>0. /\ HasFields(s) /\ RequestsKept(s) /\ db.requests = Q /\ DOMAIN Q = DOMAIN R
      /\ IsFun(R) /\ IsFun(Q)
  BY RowFacts, Zenon
<1>r. ASSUME id \in DOMAIN R PROVE RowOf(r, Q[id], ClaimOf(s, id))
  BY <1>r, RowFor, Zenon
<1>2. CASE ~Good
  <2>1. MemSetStatus(s, o) = s
    BY <1>2, Zenon DEF MemSetStatus
  <2>2. SetAutomationStatus(db, o) = db
    BY <1>0, <1>r, <1>2, Zenon DEF SetAutomationStatus, RowOf
  <2> QED
    BY <2>1, <2>2, Zenon DEF CallMatches
<1>3. CASE Good
  <2> DEFINE st == o.to
             e == Turned(r, st, r.by, Never)
             R2 == PutEntry(R, id, e)
             t == MemSetStatus(s, o)
             x == Turned(r, st, r.by, ClaimOf(s, id))
  <2>r. PutStatus(r, st) = e /\ PutStatus(Q[id], st) = x
    <3> HIDE DEF r, st, Q
    <3> QED
      BY ONLY <1>r, <1>3, RowTurned, SMT
  <2> HIDE DEF e, x
  <2>1. t = [s EXCEPT !.autoReq = R2]
    <3>1. t = [s EXCEPT !.autoReq[id].status = st]
      BY <1>3, Zenon DEF MemSetStatus
    <3> QED
      BY <2>r, <3>1, Zenon DEF PutEntry, PutStatus
  <2>2. SameBut(s, t, {"autoReq", "autoRes"}) /\ t.autoReq = R2 /\ t.autoRes = s.autoRes
    <3> HIDE DEF R2, t
    <3> QED
      BY ONLY <1>0, <2>1, SMT DEF HasFields, SameBut, Names
  <2>3. t.autoReq = PutEntry(s.autoReq, id, Turned(s.autoReq[id], st, r.by, Never)) /\ IsStore(s) /\ st # "executing"
    BY <2>2, Zenon DEF e
  <2> HIDE DEF t, st, R2
  <2>4. IsStore(t) /\ Contents(t) = PutBoth(db, PutEntry(Q, id, Turned(r, st, r.by, ClaimOf(s, id))), t.autoRes)
    BY ONLY <1>3, <2>2, <2>3, RequestUpdated, SMT
  <2>5. SetAutomationStatus(db, o) = PutRequests(db, PutEntry(Q, id, x))
    <3>1. id \in DOMAIN db.requests /\ db.requests[id].status \in o.from
      BY <1>0, <1>r, <1>3, Zenon DEF RowOf
    <3>2. SetAutomationStatus(db, o) = [db EXCEPT !.requests[id].status = st]
      BY <3>1, Zenon DEF SetAutomationStatus, st
    <3> HIDE DEF db, Q
    <3> QED
      BY <1>0, <2>r, <3>2, Zenon DEF PutRequests, PutEntry, PutStatus
  <2>6. PutBoth(db, PutEntry(Q, id, x), s.autoRes) = PutRequests(db, PutEntry(Q, id, x))
    BY ResultsSame, Zenon
  <2> QED
    BY <2>2, <2>4, <2>5, <2>6, Zenon DEF CallMatches, t, x
<1> QED
  BY <1>2, <1>3

LEMMA ApproveDone ==
    ASSUME NEW s, IsStore(s), NEW o
    PROVE  CallMatches(MemApprove(s, o), ApproveAutomation(Contents(s), o))
<1> DEFINE db == Contents(s)
           id == o.id
           R == s.autoReq
           r == R[id]
           Q == RequestRows(s)
           Good == id \in DOMAIN R /\ r.status = "awaiting_approval"
<1>0. /\ HasFields(s) /\ RequestsKept(s) /\ db.requests = Q /\ DOMAIN Q = DOMAIN R
      /\ IsFun(R) /\ IsFun(Q)
  BY RowFacts, Zenon
<1>r. ASSUME id \in DOMAIN R PROVE RowOf(r, Q[id], ClaimOf(s, id))
  BY <1>r, RowFor, Zenon
<1>2. CASE ~Good
  <2>1. MemApprove(s, o) = s
    BY <1>2, Zenon DEF MemApprove
  <2>2. ApproveAutomation(db, o) = db
    BY <1>0, <1>r, <1>2, Zenon DEF ApproveAutomation, RowOf
  <2> QED
    BY <2>1, <2>2, Zenon DEF CallMatches
<1>3. CASE Good
  <2> DEFINE st == "approved"
             by == o.by
             e == Turned(r, st, by, Never)
             r1 == PutStatus(r, st)
             R1 == PutEntry(R, id, r1)
             v == [s EXCEPT !.autoReq = R1]
             R2 == PutEntry(R, id, e)
             t == MemApprove(s, o)
             x == Turned(r, st, by, ClaimOf(s, id))
             q1 == PutStatus(Q[id], st)
             Q1 == PutEntry(Q, id, q1)
             d1 == PutRequests(db, Q1)
  <2>r. PutBy(r1, by) = e /\ PutBy(q1, by) = x
    <3> HIDE DEF r, Q, by
    <3> QED
      BY ONLY <1>r, <1>3, RowTurned, SMT
  <2> HIDE DEF e, x
  <2>1. t = [v EXCEPT !.autoReq = PutEntry(v.autoReq, id, PutBy(v.autoReq[id], by))]
    <3>1. t = [s EXCEPT !.autoReq[id].status = st, !.autoReq[id].by = by]
      BY <1>3, Zenon DEF MemApprove
    <3> QED
      BY <3>1, Zenon DEF PutEntry, PutStatus, PutBy
  <2>2. R1[id] = r1 /\ PutEntry(R1, id, e) = R2 /\ Q1[id] = q1 /\ PutEntry(Q1, id, x) = PutEntry(Q, id, x)
    <3> HIDE DEF R, Q, r1, q1
    <3> QED
      BY ONLY <1>0, <1>3, EntrySet, SMT
  <2> HIDE DEF R1, R2, q1, r1, Q1
  <2>3. SameBut(s, v, {"autoReq"}) /\ v.autoReq = R1
    BY <1>0 DEF HasFields, SameBut, Names
  <2>4. t = [v EXCEPT !.autoReq = R2]
    BY <2>r, <2>1, <2>2, <2>3, Zenon
  <2>5. SameBut(s, t, {"autoReq", "autoRes"}) /\ t.autoReq = R2 /\ t.autoRes = s.autoRes
    <3> HIDE DEF t, v
    <3> QED
      BY ONLY <1>0, <2>3, <2>4, SMT DEF HasFields, SameBut, Names
  <2>6. t.autoReq = PutEntry(s.autoReq, id, Turned(s.autoReq[id], st, by, Never)) /\ IsStore(s) /\ st # "executing"
    BY <2>5, Zenon DEF e, R2
  <2> HIDE DEF t, v, by
  <2>7. IsStore(t) /\ Contents(t) = PutBoth(db, PutEntry(Q, id, Turned(r, st, by, ClaimOf(s, id))), t.autoRes)
    BY ONLY <1>3, <2>5, <2>6, RequestUpdated, SMT
  <2>8. ApproveAutomation(db, o) = PutRequests(db, PutEntry(Q, id, x))
    <3>1. id \in DOMAIN db.requests /\ db.requests[id].status = "awaiting_approval"
      BY <1>0, <1>r, <1>3, Zenon DEF RowOf
    <3>2. ApproveAutomation(db, o) = [db EXCEPT !.requests[id].status = st, !.requests[id].by = by]
      BY <3>1, Zenon DEF ApproveAutomation, by
    <3>3. ApproveAutomation(db, o) = PutRequests(d1, PutEntry(d1.requests, id, PutBy(d1.requests[id], by)))
      <4> HIDE DEF db, Q
      <4> QED
        BY <1>0, <3>2, Zenon DEF PutRequests, PutEntry, PutStatus, PutBy, Q1, q1
    <3>4. d1.requests = Q1 /\ PutRequests(d1, PutEntry(Q, id, x)) = PutRequests(db, PutEntry(Q, id, x))
      BY RequestTable, Zenon
    <3> HIDE DEF d1
    <3> QED
      BY <2>r, <2>2, <3>3, <3>4, Zenon
  <2>9. PutBoth(db, PutEntry(Q, id, x), s.autoRes) = PutRequests(db, PutEntry(Q, id, x))
    BY ResultsSame, Zenon
  <2> QED
    BY <2>5, <2>7, <2>8, <2>9, Zenon DEF CallMatches, t, x
<1> QED
  BY <1>2, <1>3

LEMMA CompleteDone ==
    ASSUME NEW s, IsStore(s), NEW o, o.status # "executing"
    PROVE  CallMatches(MemComplete(s, o), Complete(Contents(s), o))
<1> DEFINE db == Contents(s)
           id == o.id
           R == s.autoReq
           r == R[id]
           Q == RequestRows(s)
           Good == id \in DOMAIN R /\ id \notin DOMAIN s.autoRes
<1>0. /\ HasFields(s) /\ RequestsKept(s) /\ db.requests = Q /\ DOMAIN Q = DOMAIN R
      /\ IsFun(R) /\ IsFun(Q)
  BY RowFacts, Zenon
<1>a. db.results = s.autoRes
  BY DEF Contents
<1>r. ASSUME id \in DOMAIN R PROVE RowOf(r, Q[id], ClaimOf(s, id))
  BY <1>r, RowFor, Zenon
<1>2. CASE ~Good
  <2>1. MemComplete(s, o) = s
    BY <1>2, Zenon DEF MemComplete
  <2>2. Complete(db, o) = db
    BY <1>0, <1>a, <1>2, Zenon DEF Complete
  <2> QED
    BY <2>1, <2>2, Zenon DEF CallMatches
<1>3. CASE Good
  <2> DEFINE st == o.status
             A2 == With(s.autoRes, id, [status |-> st, finished |-> o.now])
             e == Turned(r, st, r.by, Never)
             R2 == PutEntry(R, id, e)
             v == [s EXCEPT !.autoRes = A2]
             w == [v EXCEPT !.autoReq = R2]
             x == Turned(r, st, r.by, ClaimOf(s, id))
             Q2 == PutEntry(Q, id, x)
  <2>r. PutStatus(r, st) = e /\ PutStatus(Q[id], st) = x
    <3> HIDE DEF r, st, Q
    <3> QED
      BY ONLY <1>r, <1>3, RowTurned, SMT
  <2> HIDE DEF e, x
  <2>1. SameBut(s, v, {"autoRes"}) /\ v.autoRes = A2
    <3> HIDE DEF A2
    <3> QED
      BY <1>0 DEF HasFields, SameBut, Names
  <2>2. MemComplete(s, o) = Numbered(w, id)
    <3>1. MemComplete(s, o) = Numbered([s EXCEPT !.autoRes = With(@, id, [status |-> st, finished |-> o.now]),
                                                 !.autoReq[id].status = st], id)
      BY <1>3, Zenon DEF MemComplete
    <3>2. [s EXCEPT !.autoRes = With(@, id, [status |-> st, finished |-> o.now]), !.autoReq[id].status = st]
            = [v EXCEPT !.autoReq = PutEntry(v.autoReq, id, PutStatus(v.autoReq[id], st))]
      BY Zenon DEF PutEntry, PutStatus
    <3>3. v.autoReq = R
      <4> HIDE DEF v
      <4> QED
        BY ONLY <2>1, FieldsKept, SMT
    <3>4. [v EXCEPT !.autoReq = PutEntry(v.autoReq, id, PutStatus(v.autoReq[id], st))] = w
      <4> HIDE DEF v
      <4> QED
        BY <2>r, <3>3, Zenon
    <3> QED
      BY <3>1, <3>2, <3>4, Zenon
  <2> HIDE DEF v, A2
  <2>3. SameBut(s, w, {"autoReq", "autoRes"}) /\ w.autoReq = R2 /\ w.autoRes = A2
    <3>1. w = [v EXCEPT !.autoReq = R2]
      BY Zenon
    <3> HIDE DEF R2, w
    <3> QED
      BY ONLY <1>0, <2>1, <3>1, SMT DEF HasFields, SameBut, Names
  <2>4. w.autoReq = PutEntry(s.autoReq, id, Turned(s.autoReq[id], st, r.by, Never)) /\ IsStore(s) /\ st # "executing"
    BY <2>3, Zenon DEF e
  <2> HIDE DEF w, st, R2
  <2>5. IsStore(w) /\ Contents(w) = PutBoth(db, PutEntry(Q, id, Turned(r, st, r.by, ClaimOf(s, id))), w.autoRes)
    BY ONLY <1>3, <2>3, <2>4, RequestUpdated, SMT
  <2>6. Contents(w) = PutBoth(db, Q2, A2)
    BY <2>3, <2>5, Zenon DEF x
  <2>7. CallMatches(Numbered(w, id), Enqueue(Contents(w), id))
    BY <2>5, WithMessage, Zenon DEF CallMatches
  <2>8. Complete(db, o) = Enqueue(PutBoth(db, Q2, A2), id)
    <3> DEFINE d1 == [db EXCEPT !.results = A2]
               d2 == [db EXCEPT !.results = With(@, id, [status |-> st, finished |-> o.now]), !.requests[id].status = st]
    <3>1. id \in DOMAIN db.requests /\ id \notin DOMAIN db.results
      BY <1>0, <1>a, <1>3, Zenon
    <3>2. Complete(db, o) = Enqueue(d2, id)
      BY <3>1, Zenon DEF Complete, st
    <3>3. d2 = [d1 EXCEPT !.requests = PutEntry(d1.requests, id, PutStatus(d1.requests[id], st))]
      <4> HIDE DEF db
      <4> QED
        BY <1>a, Zenon DEF PutEntry, PutStatus, A2
    <3>4. d1.requests = Q
      BY <1>0 DEF Contents
    <3>5. d2 = [d1 EXCEPT !.requests = Q2]
      <4> HIDE DEF d1, d2
      <4> QED
        BY <2>r, <3>3, <3>4, Zenon
    <3>6. [d1 EXCEPT !.requests = Q2] = PutBoth(db, Q2, A2)
      <4> HIDE DEF Q2
      <4>1. d1 = [ observations |-> s.observations, transitions |-> s.transitions, events |-> s.events, states |-> s.states,
                   alerts |-> ToSet(s.alerts), devices |-> s.devices, outbox |-> OutboxRows(s), requests |-> Q, results |-> A2 ]
        BY DEF Contents
      <4> DEFINE d3 == [db EXCEPT !.requests = Q2]
      <4>2. d3 = [ observations |-> s.observations, transitions |-> s.transitions, events |-> s.events, states |-> s.states,
                   alerts |-> ToSet(s.alerts), devices |-> s.devices, outbox |-> OutboxRows(s), requests |-> Q2,
                   results |-> s.autoRes ]
        BY DEF Contents
      <4>3. PutBoth(db, Q2, A2) = [d3 EXCEPT !.results = A2]
        BY Zenon DEF PutBoth
      <4> HIDE DEF d1, d3
      <4>4. [d1 EXCEPT !.requests = Q2] = [d3 EXCEPT !.results = A2]
        BY <4>1, <4>2
      <4> QED
        BY <4>3, <4>4, Zenon
    <3> HIDE DEF d1, d2, Q2
    <3> QED
      BY <3>2, <3>5, <3>6, Zenon
  <2> QED
    BY <2>2, <2>6, <2>7, <2>8, Zenon
<1> QED
  BY <1>2, <1>3

LEMMA InsertRequestDone ==
    ASSUME NEW s, IsStore(s), NEW id \in Nat, NEW q, IsRequest(q), id \notin DOMAIN s.autoReq, NEW v,
           v = [s EXCEPT !.autoReq = With(s.autoReq, id, q), !.autoOrder = Append(s.autoOrder, id)]
    PROVE  IsStore(v) /\ Contents(v) = PutRequests(Contents(s), With(RequestRows(s), id, q))
<1> DEFINE R == s.autoReq
           R2 == With(R, id, q)
           p == s.autoOrder
           p2 == Append(p, id)
           Q == RequestRows(s)
           C == s.autoClaim
<1>0. /\ HasFields(s) /\ RequestsKept(s)
  BY RowFacts, Zenon
<1>1. /\ SameBut(s, v, {"autoReq", "autoOrder", "autoRes", "autoClaim"}) /\ v.autoReq = R2 /\ v.autoOrder = p2
      /\ v.autoRes = s.autoRes /\ v.autoClaim = C
  <2> HIDE DEF R2, p2
  <2> DEFINE u == [s EXCEPT !.autoReq = R2]
  <2>1. SameBut(s, u, {"autoReq"}) /\ u.autoReq = R2
    BY <1>0 DEF HasFields, SameBut, Names
  <2>2. v = [u EXCEPT !.autoOrder = p2]
    BY Zenon DEF R2, p2
  <2> HIDE DEF u
  <2> QED
    BY ONLY <1>0, <2>1, <2>2, SMT DEF HasFields, SameBut, Names
<1>2. p2 \in Seq(ToSet(p2)) /\ ToSet(p2) = DOMAIN R \cup {id}
  <2>1. p \in Seq(ToSet(p)) /\ ToSet(p) = DOMAIN R
    BY <1>0, Zenon DEF RequestsKept
  <2> HIDE DEF p
  <2>2. p2 \in Seq(ToSet(p2)) /\ ToSet(p2) = ToSet(p) \cup {id}
    BY ONLY <2>1, Longer, SMT
  <2> QED
    BY <2>1, <2>2, Zenon
<1>i. \A i, j \in DOMAIN p2 : p2[i] = p2[j] => i = j
  <2>1. p \in Seq(ToSet(p)) /\ id \notin ToSet(p) /\ \A i, j \in DOMAIN p : p[i] = p[j] => i = j
    BY <1>0, Zenon DEF RequestsKept
  <2> HIDE DEF p
  <2>2. /\ Len(p) \in Nat /\ DOMAIN p = 1..Len(p) /\ DOMAIN p2 = 1..(Len(p) + 1)
        /\ (\A i \in 1..Len(p) : p2[i] = p[i]) /\ p2[Len(p) + 1] = id
    BY ONLY <2>1, Longer, SMT
  <2>3. \A i \in 1..Len(p) : p[i] # id
    BY <2>1, <2>2, Zenon DEF ToSet
  <2>4. \A i \in DOMAIN p2 : i \in 1..Len(p) \/ i = Len(p) + 1
    BY <2>2
  <2> HIDE DEF p2
  <2> QED
    BY ONLY <2>1, <2>2, <2>3, <2>4, Zenon
<1>3. /\ R2 = [i \in DOMAIN R2 |-> R2[i]] /\ DOMAIN R2 = DOMAIN R \cup {id} /\ R2[id] = q
      /\ \A i \in DOMAIN R : R2[i] = R[i]
  BY Zenon DEF With
<1>4. id \notin DOMAIN C
  BY <1>0, Zenon DEF RequestsKept
<1> HIDE DEF R2, p2
<1>q. q = Req(q.status, q.created, q.notBefore, q.by, q.claimed) /\ q.claimed = Never /\ q.status # "executing"
  BY Zenon DEF IsRequest, Req
<1>n. q.created \in Int
  BY Zenon DEF IsRequest
<1>5. RequestsKept(v)
  <2>1. ASSUME NEW i \in DOMAIN R2
        PROVE  /\ R2[i] = Req(R2[i].status, R2[i].created, R2[i].notBefore, R2[i].by, R2[i].claimed)
               /\ R2[i].claimed = Never
               /\ R2[i].status = "executing" => i \in DOMAIN C
    <3>1. CASE i = id
      BY <1>3, <1>q, <3>1, Zenon
    <3>2. CASE i \in DOMAIN R
      <4>1. R2[i] = R[i]
        BY <1>3, <3>2, Zenon
      <4>2. R[i].status = "executing" => i \in DOMAIN C
        BY <1>0, <3>2, Zenon DEF RequestsKept
      <4>3. R[i] = Req(R[i].status, R[i].created, R[i].notBefore, R[i].by, R[i].claimed) /\ R[i].claimed = Never
        BY <1>0, <3>2, Zenon DEF RequestsKept, Req
      <4> QED
        BY <4>1, <4>2, <4>3, Zenon
    <3> QED
      BY <1>3, <3>1, <3>2, Zenon
  <2>2. /\ C = [i \in DOMAIN C |-> C[i]] /\ DOMAIN C \subseteq DOMAIN R2 /\ \A i \in DOMAIN C : C[i] \in Int
    BY <1>0, <1>3, Zenon DEF RequestsKept
  <2> HIDE DEF C
  <2>3. /\ v.autoReq = [i \in DOMAIN v.autoReq |-> v.autoReq[i]]
        /\ v.autoOrder \in Seq(ToSet(v.autoOrder)) /\ ToSet(v.autoOrder) = DOMAIN v.autoReq
    <3>1. v.autoReq = R2 /\ v.autoOrder = p2
      BY <1>1, Zenon
    <3>2. R2 = [i \in DOMAIN R2 |-> R2[i]] /\ p2 \in Seq(ToSet(p2)) /\ ToSet(p2) = DOMAIN R2
      BY <1>2, <1>3, Zenon
    <3> QED
      BY ONLY <3>1, <3>2, Zenon
  <2>4. /\ v.autoClaim = [i \in DOMAIN v.autoClaim |-> v.autoClaim[i]] /\ DOMAIN v.autoClaim \subseteq DOMAIN v.autoReq
        /\ \A i \in DOMAIN v.autoClaim : v.autoClaim[i] \in Int
    <3>1. v.autoClaim = C /\ v.autoReq = R2
      BY <1>1, Zenon
    <3> QED
      BY ONLY <2>2, <3>1, Zenon
  <2>5. ASSUME NEW i \in DOMAIN v.autoReq
        PROVE  LET r == v.autoReq[i]
               IN  /\ r = [status |-> r.status, created |-> r.created, notBefore |-> r.notBefore, by |-> r.by, claimed |-> r.claimed]
                   /\ r.claimed = Never
                   /\ r.status = "executing" => i \in DOMAIN v.autoClaim
    BY <1>1, <2>1, <2>5, Zenon DEF Req
  <2>6. \A i \in DOMAIN v.autoReq : i \in Nat /\ v.autoReq[i].created \in Int
    <3>1. \A i \in DOMAIN R : i \in Nat /\ R[i].created \in Int
      BY <1>0, Zenon DEF RequestsKept
    <3>2. \A i \in DOMAIN R2 : i \in Nat /\ R2[i].created \in Int
      BY <1>3, <1>n, <3>1, Zenon
    <3> QED
      BY <1>1, <3>2, Zenon
  <2>7. \A i, j \in DOMAIN v.autoOrder : v.autoOrder[i] = v.autoOrder[j] => i = j
    BY <1>1, <1>i, Zenon
  <2> QED
    BY <2>3, <2>4, <2>5, <2>6, <2>7, Zenon DEF RequestsKept
<1>6. RequestRows(v) = With(Q, id, q)
  <2>1. RequestRow(v, id) = q
    <3>1. RequestRow(v, id) = [q EXCEPT !.claimed = q.claimed]
      BY <1>1, <1>3, <1>4, Zenon DEF RequestRow
    <3>2. PICK a, b, c, d, e : q = Req(a, b, c, d, e)
      BY <1>q, Zenon
    <3>3. [q EXCEPT !.claimed = q.claimed] = q
      BY ONLY <3>2, SMT DEF Req
    <3> QED
      BY <3>1, <3>3, Zenon
  <2>2. ASSUME NEW i \in DOMAIN R PROVE RequestRow(v, i) = RequestRow(s, i)
    <3>1. v.autoReq[i] = s.autoReq[i] /\ v.autoClaim = s.autoClaim
      BY <1>1, <1>3, <2>2, Zenon
    <3> QED
      BY ONLY <3>1, Zenon DEF RequestRow
  <2>3. Q = [i \in DOMAIN R |-> RequestRow(s, i)] /\ DOMAIN Q = DOMAIN R
    BY Zenon DEF RequestRows
  <2>4. RequestRows(v) = [i \in DOMAIN R \cup {id} |-> RequestRow(v, i)]
    BY <1>1, <1>3, Zenon DEF RequestRows
  <2> HIDE DEF Q, R
  <2>5. ASSUME NEW i \in DOMAIN R \cup {id} PROVE RequestRow(v, i) = IF i = id THEN q ELSE Q[i]
    <3>1. CASE i = id
      BY <2>1, <3>1, Zenon
    <3>2. CASE i # id
      BY <2>2, <2>3, <2>5, <3>2, Zenon
    <3> QED
      BY <3>1, <3>2
  <2>6. With(Q, id, q) = [i \in DOMAIN R \cup {id} |-> IF i = id THEN q ELSE Q[i]]
    BY <2>3, Zenon DEF With
  <2> QED
    BY ONLY <2>4, <2>5, <2>6, Zenon
<1>7. IsStore(v) /\ Contents(v) = PutBoth(Contents(s), RequestRows(v), s.autoRes)
  BY <1>1, <1>5, WithRequests, Zenon
<1> QED
  BY <1>6, <1>7, ResultsSame, Zenon

LEMMA InsertedRequestDone ==
    ASSUME NEW s, IsStore(s), NEW o, o.op = "InsertAutomationRequest", IsRequest(o.request), o.id \in Nat
    PROVE  CallMatches(MemInsertRequest(s, o), Call(Contents(s), o))
<1> DEFINE db == Contents(s)
           id == o.id
           Q == RequestRows(s)
           v == [s EXCEPT !.autoReq = With(s.autoReq, id, o.request), !.autoOrder = Append(s.autoOrder, id)]
<1>1. db.requests = Q /\ DOMAIN Q = DOMAIN s.autoReq
  BY RowFacts, Zenon
<1>2. Call(db, o) = IF id \in DOMAIN db.requests THEN db ELSE Enqueue([db EXCEPT !.requests = With(@, id, o.request)], id)
  BY Zenon DEF Call
<1>3. CASE id \in DOMAIN s.autoReq
  <2>1. MemInsertRequest(s, o) = s /\ Call(db, o) = db
    BY <1>1, <1>2, <1>3, Zenon DEF MemInsertRequest
  <2> QED
    BY <2>1, Zenon DEF CallMatches
<1>4. CASE id \notin DOMAIN s.autoReq
  <2>1. MemInsertRequest(s, o) = Numbered(v, id)
    BY <1>4, Zenon DEF MemInsertRequest
  <2>2. Call(db, o) = Enqueue(PutRequests(db, With(Q, id, o.request)), id)
    <3> HIDE DEF db, Q
    <3> QED
      BY <1>1, <1>2, <1>4, Zenon DEF PutRequests
  <2>3. IsStore(v) /\ Contents(v) = PutRequests(db, With(Q, id, o.request))
    BY <1>4, InsertRequestDone, Zenon
  <2> HIDE DEF v
  <2>4. CallMatches(Numbered(v, id), Enqueue(Contents(v), id))
    BY <2>3, WithMessage, Zenon DEF CallMatches
  <2> QED
    BY <2>1, <2>2, <2>3, <2>4, Zenon
<1> QED
  BY <1>3, <1>4

-----------------------------------------------------------------------------
(* Devices.                                                                *)

PutDevices(s, D) == [s EXCEPT !.devices = D]

LEMMA DeviceSet ==
    ASSUME NEW s, IsStore(s), NEW D, IsFun(D),
           \A d \in DOMAIN D : D[d] = [seen |-> D[d].seen, attrs |-> D[d].attrs] /\ D[d].seen \in Int
    PROVE  CallMatches(PutDevices(s, D), PutDevices(Contents(s), D))
<1> DEFINE t == [s EXCEPT !.devices = D]
<1>1. /\ SameBut(s, t, {"devices"}) /\ t.devices = D
      /\ Contents(t) = [Contents(s) EXCEPT !.devices = D]
  BY ONLY IsStore(s), WithDevices, Zenon
<1> HIDE DEF t
<1>2. DevicesKept(t)
  BY <1>1, Zenon DEF DevicesKept, IsFun
<1>3. IsStore(t)
  BY ONLY IsStore(s), <1>1, <1>2, PartsKept, SMT DEF IsStore
<1> QED
  BY <1>1, <1>3, Zenon DEF CallMatches, t, PutDevices

LEMMA UpsertDone ==
    ASSUME NEW s, IsStore(s), NEW o
    PROVE  CallMatches(MemUpsertDevices(s, o), Upsert(Contents(s), o))
<1> DEFINE E == s.devices
           dev == o.dev
           at == IF dev \in DOMAIN E THEN E[dev].seen ELSE Never
           w == [seen |-> at, attrs |-> o.attrs]
           D == With(E, dev, w)
           db == Contents(s)
<1>0. DevicesKept(s)
  BY DEF IsStore
<1>1. db.devices = E
  BY DEF Contents
<1>2. MemUpsertDevices(s, o) = [s EXCEPT !.devices = D]
  BY Zenon DEF MemUpsertDevices
<1>3. Upsert(db, o) = [db EXCEPT !.devices = D]
  <2> HIDE DEF db
  <2> QED
    BY <1>1, Zenon DEF Upsert
<1>4. at \in Int
  <2>1. dev \in DOMAIN E => E[dev].seen \in Int
    BY <1>0, Zenon DEF DevicesKept
  <2>2. Never \in Int
    BY DEF Never
  <2> QED
    BY <2>1, <2>2, Zenon
<1>5. w.seen = at /\ w = [seen |-> w.seen, attrs |-> w.attrs]
  OBVIOUS
<1>6. /\ D = [d \in DOMAIN D |-> D[d]] /\ DOMAIN D = DOMAIN E \cup {dev} /\ D[dev] = w
      /\ \A d \in DOMAIN E : d # dev => D[d] = E[d]
  BY Zenon DEF With
<1> HIDE DEF D, w, at
<1>7. \A d \in DOMAIN D : D[d] = [seen |-> D[d].seen, attrs |-> D[d].attrs] /\ D[d].seen \in Int
  BY <1>0, <1>4, <1>5, <1>6, Zenon DEF DevicesKept
<1>8. CallMatches(PutDevices(s, D), PutDevices(Contents(s), D))
  BY <1>6, <1>7, DeviceSet, Zenon DEF IsFun
<1> QED
  BY <1>2, <1>3, <1>8, Zenon DEF PutDevices

LEMMA UpdateDone ==
    ASSUME NEW s, IsStore(s), NEW o, o.op = "UpdateDeviceAttributes"
    PROVE  CallMatches(MemUpdateAttributes(s, o), Call(Contents(s), o))
<1> DEFINE E == s.devices
           dev == o.dev
           w == [E[dev] EXCEPT !.attrs = With(E[dev].attrs, "attribute", o.value)]
           D == [E EXCEPT ![dev] = w]
           db == Contents(s)
<1>0. DevicesKept(s)
  BY DEF IsStore
<1>1. db.devices = E
  BY DEF Contents
<1>2. Call(db, o) = IF dev \notin DOMAIN db.devices THEN db
                    ELSE [db EXCEPT !.devices[dev].attrs = With(@, "attribute", o.value)]
  BY Zenon DEF Call
<1>3. CASE dev \notin DOMAIN E
  <2>1. MemUpdateAttributes(s, o) = s /\ Call(db, o) = db
    BY <1>1, <1>2, <1>3, Zenon DEF MemUpdateAttributes
  <2> QED
    BY <2>1, Zenon DEF CallMatches
<1>4. CASE dev \in DOMAIN E
  <2>1. MemUpdateAttributes(s, o) = [s EXCEPT !.devices = D]
    BY <1>4, Zenon DEF MemUpdateAttributes
  <2>2. Call(db, o) = [db EXCEPT !.devices = D]
    <3> HIDE DEF db
    <3> QED
      BY <1>1, <1>2, <1>4, Zenon
  <2>3. w = [seen |-> w.seen, attrs |-> w.attrs] /\ w.seen \in Int
    <3> DEFINE e == E[dev]
               y == With(e.attrs, "attribute", o.value)
    <3>1. e = [seen |-> e.seen, attrs |-> e.attrs] /\ e.seen \in Int
      BY <1>0, <1>4, Zenon DEF DevicesKept
    <3>2. PICK a, b : e = [seen |-> a, attrs |-> b] /\ a \in Int
      BY <3>1, Zenon
    <3> HIDE DEF e, y
    <3>3. [e EXCEPT !.attrs = y] = [seen |-> a, attrs |-> y]
      BY ONLY <3>2, SMT
    <3>4. w = [seen |-> a, attrs |-> y]
      BY <3>3, Zenon DEF e, y
    <3> HIDE DEF w
    <3> QED
      BY ONLY <3>2, <3>4, SMT
  <2> HIDE DEF w
  <2>4. /\ D = [d \in DOMAIN D |-> D[d]] /\ DOMAIN D = DOMAIN E /\ D[dev] = w
        /\ \A d \in DOMAIN E : d # dev => D[d] = E[d]
    BY <1>0, <1>4 DEF DevicesKept
  <2> HIDE DEF D
  <2>5. \A d \in DOMAIN D : D[d] = [seen |-> D[d].seen, attrs |-> D[d].attrs] /\ D[d].seen \in Int
    BY <1>0, <2>3, <2>4, Zenon DEF DevicesKept
  <2>6. CallMatches(PutDevices(s, D), PutDevices(Contents(s), D))
    BY <2>4, <2>5, DeviceSet, Zenon DEF IsFun
  <2> QED
    BY <2>1, <2>2, <2>6, Zenon DEF PutDevices
<1> QED
  BY <1>3, <1>4

-----------------------------------------------------------------------------
(* Draining the outbox.                                                    *)

\* at lists the positions I from the lowest.
LowestFirst(at, I) ==
    /\ \A k \in 1..Cardinality(I) : at[k] \in I /\ Cardinality({ j \in I : j < at[k] }) = k - 1
    /\ \A i \in I : \E k \in 1..Cardinality(I) : at[k] = i

LEMMA OrderedAt ==
    ASSUME NEW n \in Nat, NEW I, I \subseteq 1..n
    PROVE  /\ IsFiniteSet(I) /\ Cardinality(I) \in Nat
           /\ DOMAIN Ordered(I, <) = 1..Cardinality(I) /\ LowestFirst(Ordered(I, <), I)
<1> DEFINE m  == Cardinality(I)
           at == Ordered(I, <)
<1>0. IsFiniteSet(I) /\ m \in Nat /\ IsOrder(I, Below(I))
  BY PositionsOrder, Zenon
<1>1. \A k \in 1..m : \E x \in I : Cardinality(Below(I)[x]) = k - 1
  <2> DEFINE pred == Below(I)
  <2>1. IsOrder(I, pred)
    BY <1>0, Zenon
  <2> HIDE DEF pred
  <2>2. IsFiniteSet(I)
    BY <1>0, Zenon
  <2> HIDE DEF at
  <2>3. \A k \in 1..Cardinality(I) : \E x \in I : Cardinality(pred[x]) = k - 1
    BY ONLY <2>1, <2>2, RankIsPlace, SMT
  <2> QED
    BY <2>3, Zenon DEF pred
<1>2. \A x \in I : Below(I)[x] = { j \in I : j < x }
  BY Zenon DEF Below
<1>3. ASSUME NEW k \in 1..m PROVE at[k] \in I /\ Cardinality({ j \in I : j < at[k] }) = k - 1
  <2>1. at[k] = CHOOSE x \in I : Cardinality({ y \in I : y < x }) = k - 1
    BY Zenon DEF Ordered
  <2>2. \E x \in I : Cardinality({ y \in I : y < x }) = k - 1
    BY <1>1, <1>2, Zenon
  <2> QED
    BY <2>1, <2>2, Zenon
<1>4. DOMAIN at = 1..m
  BY Zenon DEF Ordered
<1> HIDE DEF at
<1>5. Lists(at, I, Below(I))
  BY <1>2, <1>3, <1>4, Zenon DEF Lists
<1>6. \A i \in I : \E k \in 1..m : at[k] = i
  <2> DEFINE pred == Below(I)
  <2>1. IsOrder(I, pred) /\ Lists(at, I, pred)
    BY <1>0, <1>5, Zenon
  <2> HIDE DEF pred
  <2> QED
    BY <1>0, <2>1, ListsAll
<1> QED
  BY <1>0, <1>3, <1>4, <1>6, Zenon DEF LowestFirst, at

Firsts(at, limit) == { at[k] : k \in { m \in DOMAIN at : m <= limit } }
FewBefore(I, limit) == { i \in I : Cardinality({ j \in I : j <= i }) <= limit }

\* The first rows up to a limit are those with few before them.
LEMMA FirstRows ==
    ASSUME NEW n \in Nat, NEW I, I \subseteq 1..n, NEW limit \in Nat
    PROVE  Firsts(Ordered(I, <), limit) = FewBefore(I, limit)
<1> DEFINE at == Ordered(I, <)
           c  == Cardinality(I)
<1>1. IsFiniteSet(I) /\ c \in Nat /\ DOMAIN at = 1..c /\ LowestFirst(at, I)
  BY OrderedAt, Zenon
<1> HIDE DEF at
<1>2. ASSUME NEW k \in 1..c PROVE Cardinality({ j \in I : j <= at[k] }) = k
  <2> DEFINE i == at[k]
             A == { j \in I : j < i }
             B == { j \in I : j <= i }
  <2>1. i \in I /\ Cardinality(A) = k - 1
    BY <1>1, Zenon DEF LowestFirst
  <2> HIDE DEF i
  <2>2. IsFiniteSet(A)
    <3>1. A \subseteq I
      BY Zenon
    <3> QED
      BY ONLY <1>1, <3>1, FS_Subset, Zenon
  <2>3. i \notin A
    BY <2>1
  <2>4. B = A \cup {i}
    <3>1. \A j \in I : j \in Nat
      OBVIOUS
    <3>2. \A j \in I : j <= i <=> j < i \/ j = i
      BY <2>1, <3>1
    <3> QED
      BY <2>1, <3>2, Zenon
  <2>5. Cardinality(A \cup {i}) = Cardinality(A) + 1
    <3> HIDE DEF A
    <3> QED
      BY ONLY <2>2, <2>3, FS_AddElement, Zenon
  <2>6. Cardinality(A) + 1 = k
    <3> HIDE DEF A
    <3> QED
      BY <2>1
  <2> QED
    BY <2>4, <2>5, <2>6, Zenon DEF i
<1>3. ASSUME NEW i \in I PROVE \E k \in 1..c : at[k] = i
  BY <1>1, Zenon DEF LowestFirst
<1>4. \A k \in 1..c : at[k] \in I
  BY <1>1, Zenon DEF LowestFirst
<1>5. \A k \in 1..c : k <= limit => at[k] \in FewBefore(I, limit)
  BY <1>2, <1>4, Zenon DEF FewBefore
<1>6. ASSUME NEW i \in I, Cardinality({ j \in I : j <= i }) <= limit
      PROVE  \E k \in 1..c : k <= limit /\ at[k] = i
  BY <1>2, <1>3, <1>6, Zenon
<1> QED
  <2>1. ASSUME NEW i \in Firsts(at, limit) PROVE i \in FewBefore(I, limit)
    BY <1>1, <1>5, <2>1, Zenon DEF Firsts
  <2>2. ASSUME NEW i \in FewBefore(I, limit) PROVE i \in Firsts(at, limit)
    BY <1>1, <1>6, <2>2, Zenon DEF Firsts, FewBefore
  <2> QED
    BY <2>1, <2>2, Zenon DEF at

LEMMA DrainDone ==
    ASSUME NEW s, IsStore(s), NEW o, o.limit \in Nat
    PROVE  CallMatches(MemDrain(s, o), Drain(Contents(s), o))
<1> DEFINE q == s.outbox
           P == OutboxRows(s)
           db == Contents(s)
           n == Len(q)
           I == { i \in DOMAIN q : ~q[i].published }
           at == Ordered(I, <)
           idx == { at[k] : k \in { m \in DOMAIN at : m <= o.limit } }
           q2 == [i \in DOMAIN q |-> IF i \in idx THEN [q[i] EXCEPT !.published = TRUE] ELSE q[i]]
           P2 == [i \in DOMAIN P |-> IF i \in idx THEN [P[i] EXCEPT !.published = TRUE] ELSE P[i]]
<1>0. HasFields(s) /\ OutboxKept(s)
  BY DEF IsStore
<1>q. n \in Nat /\ DOMAIN q = 1..n
  <2>1. q \in Seq(ToSet(q))
    BY <1>0, Zenon DEF OutboxKept
  <2> HIDE DEF q
  <2> QED
    BY <2>1
<1>1. db.outbox = P /\ DOMAIN P = DOMAIN q /\ \A i \in DOMAIN q : P[i] = [msg |-> q[i].msg, published |-> q[i].published]
  <2>1. db.outbox = P
    BY DEF Contents
  <2> QED
    BY <2>1, Zenon DEF OutboxRows
<1>i. { i \in DOMAIN P : ~P[i].published } = I
  <2>1. \A i \in DOMAIN q : P[i].published = q[i].published
    <3> HIDE DEF P, q
    <3> QED
      BY <1>1
  <2> QED
    BY <1>1, <2>1, Zenon
<1>2. { i \in I : Cardinality({ j \in I : j <= i }) <= o.limit } = idx
  <2>1. I \subseteq 1..n
    BY <1>q, Zenon
  <2> HIDE DEF I, n
  <2>2. Firsts(at, o.limit) = FewBefore(I, o.limit)
    BY <1>q, <2>1, FirstRows, Zenon
  <2> HIDE DEF at
  <2> QED
    BY <2>2, Zenon DEF Firsts, FewBefore
<1>3. CASE o.fails
  <2>1. MemDrain(s, o) = s /\ Drain(db, o) = db
    BY <1>3, Zenon DEF MemDrain, Drain
  <2> QED
    BY <2>1, Zenon DEF CallMatches
<1>4. CASE ~o.fails
  <2> DEFINE t == [s EXCEPT !.outbox = q2]
  <2>1. MemDrain(s, o) = t
    BY <1>4, Zenon DEF MemDrain
  <2>2. Drain(db, o) = [db EXCEPT !.outbox = P2]
    <3> HIDE DEF P, at, db, idx
    <3> DEFINE pending == { i \in DOMAIN db.outbox : ~db.outbox[i].published }
               batch == { i \in pending : Cardinality({ j \in pending : j <= i }) <= o.limit }
    <3>1. pending = I
      BY <1>1, <1>i, Zenon
    <3> HIDE DEF I, pending
    <3>2. batch = idx
      BY <1>2, <3>1, Zenon
    <3>3. Drain(db, o) = [db EXCEPT !.outbox = [i \in DOMAIN db.outbox |->
                             IF i \in batch THEN [db.outbox[i] EXCEPT !.published = TRUE] ELSE db.outbox[i]]]
      BY <1>4, Zenon DEF Drain, pending
    <3> HIDE DEF batch
    <3> QED
      BY <1>1, <3>2, <3>3, Zenon
  <2> HIDE DEF idx
  <2>3. ASSUME NEW i \in DOMAIN q
        PROVE  /\ q2[i] = [id |-> i, msg |-> q2[i].msg, published |-> q2[i].published]
               /\ P2[i] = [msg |-> q2[i].msg, published |-> q2[i].published]
    <3>0. q[i] = [id |-> i, msg |-> q[i].msg, published |-> q[i].published]
      BY <1>0, <2>3, Zenon DEF OutboxKept
    <3>1. PICK a, b : q[i] = [id |-> i, msg |-> a, published |-> b]
      BY <3>0, Zenon
    <3> DEFINE e == q[i]
               f == P[i]
    <3>2. f = [msg |-> a, published |-> b]
      <4>1. f = [msg |-> e.msg, published |-> e.published]
        BY <1>1, <2>3, Zenon
      <4> HIDE DEF e, f
      <4>2. e = [id |-> i, msg |-> a, published |-> b]
        BY <3>1, Zenon DEF e
      <4> QED
        BY ONLY <4>1, <4>2, SMT
    <3>3. CASE i \in idx
      <4>1. q2[i] = [e EXCEPT !.published = TRUE] /\ P2[i] = [f EXCEPT !.published = TRUE]
        BY <1>1, <2>3, <3>3, Zenon
      <4>2. e = [id |-> i, msg |-> a, published |-> b]
        BY <3>1, Zenon
      <4> DEFINE e2 == q2[i]
                 f2 == P2[i]
      <4> HIDE DEF e, f, e2, f2
      <4>3. \A z : [e EXCEPT !.published = z] = [id |-> i, msg |-> a, published |-> z]
        BY ONLY <4>2, SMT
      <4>4. \A z : [f EXCEPT !.published = z] = [msg |-> a, published |-> z]
        BY ONLY <3>2, SMT
      <4>5. e2 = [id |-> i, msg |-> a, published |-> TRUE] /\ f2 = [msg |-> a, published |-> TRUE]
        BY <4>1, <4>3, <4>4, Zenon DEF e2, f2
      <4>6. e2 = [id |-> i, msg |-> e2.msg, published |-> e2.published] /\ f2 = [msg |-> e2.msg, published |-> e2.published]
        BY ONLY <4>5, Zenon
      <4> QED
        BY <4>6, Zenon DEF e2, f2
    <3>4. CASE i \notin idx
      <4>1. q2[i] = e /\ P2[i] = f
        BY <1>1, <2>3, <3>4, Zenon
      <4> DEFINE e2 == q2[i]
                 f2 == P2[i]
      <4>5. e2 = [id |-> i, msg |-> a, published |-> b] /\ f2 = [msg |-> a, published |-> b]
        BY <3>1, <3>2, <4>1, Zenon
      <4> HIDE DEF e, f, e2, f2
      <4>6. e2 = [id |-> i, msg |-> e2.msg, published |-> e2.published] /\ f2 = [msg |-> e2.msg, published |-> e2.published]
        BY ONLY <4>5, Zenon
      <4> QED
        BY <4>6, Zenon DEF e2, f2
    <3> QED
      BY <3>3, <3>4, Zenon
  <2>4. q2 = [i \in 1..n |-> q2[i]] /\ P2 = [i \in 1..n |-> P2[i]] /\ DOMAIN q2 = 1..n
    BY <1>q, <1>1, Zenon
  <2> HIDE DEF q2, P2, n
  <2>5. q2 \in Seq(ToSet(q2)) /\ Len(q2) = n
    <3> DEFINE W == ToSet(q2)
    <3>1. \A i \in 1..n : q2[i] \in W
      BY <2>4, Zenon DEF ToSet
    <3> HIDE DEF W
    <3>2. q2 \in Seq(W) /\ Len(q2) = n
      BY ONLY <1>q, <2>4, <3>1, SMT
    <3> QED
      BY <3>2, Zenon DEF W
  <2>6. SameBut(s, t, {"outbox"}) /\ t.outbox = q2 /\ t.next = s.next
    BY <1>0 DEF HasFields, SameBut, Names
  <2> HIDE DEF t
  <2>7. OutboxKept(t)
    <3>1. t.next = Len(t.outbox)
      BY <1>0, <2>5, <2>6, Zenon DEF OutboxKept, n
    <3>2. \A i \in DOMAIN q2 : q2[i] = [id |-> i, msg |-> q2[i].msg, published |-> q2[i].published]
      BY <1>q, <2>3, <2>4, Zenon
    <3> QED
      BY <2>5, <2>6, <3>1, <3>2, Zenon DEF OutboxKept
  <2>8. OutboxRows(t) = P2
    <3>1. OutboxRows(t) = [i \in 1..n |-> [msg |-> q2[i].msg, published |-> q2[i].published]]
      BY <2>4, <2>6, Zenon DEF OutboxRows
    <3>2. \A i \in 1..n : P2[i] = [msg |-> q2[i].msg, published |-> q2[i].published]
      BY <1>q, <2>3, Zenon
    <3> QED
      BY ONLY <2>4, <3>1, <3>2, Zenon
  <2>9. IsStore(t) /\ Contents(t) = [db EXCEPT !.outbox = P2]
    <3> DEFINE F == {"outbox"}
    <3>1. SameBut(s, t, F)
      BY <2>6, Zenon
    <3>2. /\ F \cap {"observations", "transitions", "events", "order"} = {}
          /\ "states" \notin F /\ "devices" \notin F /\ "alerts" \notin F /\ "autoRes" \notin F /\ "observations" \notin F
          /\ "transitions" \notin F /\ "events" \notin F
          /\ F \cap {"autoReq", "autoOrder", "autoClaim"} = {} /\ F \cap {"autoReq", "autoClaim"} = {}
      OBVIOUS
    <3> HIDE DEF F
    <3>3. /\ HasFields(t) /\ t.states = [k \in DOMAIN t.states |-> t.states[k]]
          /\ TablesKept(t) /\ DevicesKept(t) /\ AlertsKept(t) /\ RequestsKept(t)
      BY ONLY IsStore(s), <3>1, <3>2, PartsKept, SMT
    <3>4. RequestRows(t) = RequestRows(s)
      BY ONLY <3>1, <3>2, RowsKept, SMT
    <3>5. /\ t.observations = s.observations /\ t.transitions = s.transitions /\ t.events = s.events
          /\ t.devices = s.devices /\ t.states = s.states /\ t.alerts = s.alerts /\ t.autoRes = s.autoRes
      BY ONLY <3>1, <3>2, FieldsKept, SMT
    <3>6. Contents(t) = [db EXCEPT !.outbox = P2]
      BY ONLY <2>8, <3>4, <3>5, SMT DEF Contents, db
    <3>7. IsStore(t)
      BY <2>7, <3>3, Zenon DEF IsStore
    <3> QED
      BY <3>6, <3>7, Zenon
  <2> QED
    BY <2>1, <2>2, <2>9, Zenon DEF CallMatches
<1> QED
  BY <1>3, <1>4

LEMMA CallStep ==
    ASSUME NEW s, IsStore(s), NEW o, IsStoreCall(o)
    PROVE  CallMatches(MemCall(s, o), Call(Contents(s), o))
<1> DEFINE db == Contents(s)
<1>1. CASE o.op = "InsertAutomationRequest"
  <2>1. MemCall(s, o) = MemInsertRequest(s, o) /\ IsRequest(o.request) /\ o.id \in Nat
    BY <1>1, Zenon DEF MemCall, IsStoreCall
  <2> QED
    BY <1>1, <2>1, InsertedRequestDone, Zenon
<1>2. CASE o.op = "ClaimAutomation"
  <2>1. MemCall(s, o) = MemClaim(s, o) /\ Call(db, o) = ClaimAutomation(db, o) /\ o.now \in Int
    BY <1>2, Zenon DEF MemCall, Call, IsStoreCall
  <2> QED
    BY <2>1, ClaimDone, Zenon
<1>3. CASE o.op = "SetAutomationStatus"
  <2>1. MemCall(s, o) = MemSetStatus(s, o) /\ Call(db, o) = SetAutomationStatus(db, o) /\ o.to # "executing"
    BY <1>3, Zenon DEF MemCall, Call, IsStoreCall
  <2> QED
    BY <2>1, SetStatusDone, Zenon
<1>4. CASE o.op = "ApproveAutomation"
  <2>1. MemCall(s, o) = MemApprove(s, o) /\ Call(db, o) = ApproveAutomation(db, o)
    BY <1>4, Zenon DEF MemCall, Call
  <2> QED
    BY <2>1, ApproveDone, Zenon
<1>5. CASE o.op = "CompleteAutomation"
  <2>1. MemCall(s, o) = MemComplete(s, o) /\ Call(db, o) = Complete(db, o) /\ o.status # "executing"
    BY <1>5, Zenon DEF MemCall, Call, IsStoreCall
  <2> QED
    BY <2>1, CompleteDone, Zenon
<1>6. CASE o.op = "UpsertDevices"
  <2>1. MemCall(s, o) = MemUpsertDevices(s, o) /\ Call(db, o) = Upsert(db, o)
    BY <1>6, Zenon DEF MemCall, Call
  <2> QED
    BY <2>1, UpsertDone, Zenon
<1>7. CASE o.op = "UpdateDeviceAttributes"
  <2>1. MemCall(s, o) = MemUpdateAttributes(s, o)
    BY <1>7, Zenon DEF MemCall
  <2> QED
    BY <1>7, <2>1, UpdateDone, Zenon
<1>8. CASE o.op = "DrainOutbox"
  <2>1. MemCall(s, o) = MemDrain(s, o) /\ Call(db, o) = Drain(db, o) /\ o.limit \in Nat
    <3>1. o.limit \in Nat \ {0}
      BY <1>8, Zenon DEF IsStoreCall
    <3> QED
      BY <1>8, <3>1, Zenon DEF MemCall, Call
  <2> QED
    BY <2>1, DrainDone, Zenon
<1> QED
  BY <1>1, <1>2, <1>3, <1>4, <1>5, <1>6, <1>7, <1>8, Zenon DEF IsStoreCall

-----------------------------------------------------------------------------
(* Queries of requests.                                                    *)

ArePositions(I) == \E n \in Nat : I \subseteq 1..n

LEMMA PickedSet ==
    ASSUME NEW q, NEW I, ArePositions(I)
    PROVE  ToSet(Picked(q, I)) = { q[i] : i \in I }
<1>0. PICK n \in Nat : I \subseteq 1..n
  BY Zenon DEF ArePositions
<1> DEFINE p == Picked(q, I)
           m == Cardinality(I)
<1>1. DOMAIN p = 1..m /\ \E at : PicksAt(at, p, q, I)
  BY <1>0, PickedAt, Zenon
<1>2. PICK at : PicksAt(at, p, q, I)
  BY <1>1, Zenon
<1> HIDE DEF p
<1>3. \A k \in 1..m : at[k] \in I /\ p[k] = q[at[k]]
  BY <1>2, Zenon DEF PicksAt
<1>4. \A i \in I : \E k \in 1..m : at[k] = i
  BY <1>2, Zenon DEF PicksAt
<1>5. ASSUME NEW e \in ToSet(p) PROVE e \in { q[i] : i \in I }
  <2>1. PICK k \in 1..m : e = p[k]
    BY <1>1, <1>5, Zenon DEF ToSet
  <2>2. at[k] \in I /\ e = q[at[k]]
    BY <1>3, <2>1, Zenon
  <2> QED
    BY <2>2, Zenon
<1>6. ASSUME NEW i \in I PROVE q[i] \in ToSet(p)
  BY <1>1, <1>3, <1>4, Zenon DEF ToSet
<1> QED
  BY <1>5, <1>6, Zenon DEF p

\* What a query of requests in order has, if the same requests pass.
LEMMA QueryPicks ==
    ASSUME NEW q, q \in Seq(ToSet(q)), NEW P, NEW I, I = { i \in DOMAIN q : q[i] \in P }, P \subseteq ToSet(q)
    PROVE  ToSet(Picked(q, I)) = P
<1> DEFINE n == Len(q)
<1>1. DOMAIN q = 1..n /\ n \in Nat
  OBVIOUS
<1> HIDE DEF n
<1>2. ArePositions(I)
  BY <1>1, Zenon DEF ArePositions
<1>3. ToSet(Picked(q, I)) = { q[i] : i \in I }
  BY <1>2, PickedSet, Zenon
<1>4. { q[i] : i \in I } = P
  BY Zenon DEF ToSet
<1> QED
  BY <1>3, <1>4, Zenon

LEMMA RequestQueries ==
    ASSUME NEW s, IsStore(s), NEW db, db = Contents(s), NEW now \in Int
    PROVE  /\ \A id \in DOMAIN s.autoReq :
               (MemDue(s, id, now) <=> id \in DueRequests(db, now)) /\ db.requests[id].created = s.autoReq[id].created
           /\ ToSet(MemAwaitingApprovalBefore(s, now)) = AwaitingApprovalBefore(db, now)
           /\ ToSet(MemAutomationHistory(s, now)) = AutomationHistory(db, now)
<1> DEFINE q == s.autoOrder
           R == s.autoReq
           Q == RequestRows(s)
<1>0. /\ RequestsKept(s) /\ db.requests = Q /\ DOMAIN Q = DOMAIN R
  BY RowFacts, Zenon
<1>a. db.results = s.autoRes
  BY DEF Contents
<1>1. q \in Seq(ToSet(q)) /\ ToSet(q) = DOMAIN R
  BY <1>0, Zenon DEF RequestsKept
<1>2. \A i \in DOMAIN q : q[i] \in DOMAIN R
  BY <1>1, Zenon DEF ToSet
<1>3. ASSUME NEW id \in DOMAIN R
      PROVE  /\ Q[id].status = R[id].status /\ Q[id].created = R[id].created /\ Q[id].notBefore = R[id].notBefore
             /\ Q[id].claimed = ClaimOf(s, id)
  <2> DEFINE r == R[id]
             w == Q[id]
  <2>1. RowOf(r, w, ClaimOf(s, id))
    BY RowFor, Zenon
  <2>2. w = Turned(r, r.status, r.by, ClaimOf(s, id)) /\ w.status = r.status /\ w.claimed = ClaimOf(s, id)
    BY <2>1, Zenon DEF RowOf
  <2> HIDE DEF r, w
  <2>3. w.created = r.created /\ w.notBefore = r.notBefore
    BY <2>2, RequestTurned
  <2> QED
    BY <2>2, <2>3, Zenon DEF r, w
<1>4. ASSUME NEW id \in DOMAIN R, R[id].status = "executing"
      PROVE  Q[id].claimed < now - Lease <=> s.autoClaim[id] + Lease < now
  <2> DEFINE c == s.autoClaim[id]
  <2>1. Q[id].claimed = c /\ c \in Int
    BY <1>0, <1>3, <1>4, Zenon DEF RequestsKept, ClaimOf
  <2> HIDE DEF c
  <2>2. c < now - Lease <=> c + Lease < now
    BY <2>1, DatabaseAssumption
  <2> QED
    BY <2>1, <2>2, Zenon DEF c
<1>5. \A id \in DOMAIN R : (MemDue(s, id, now) <=> id \in DueRequests(db, now)) /\ Q[id].created = R[id].created
  BY <1>0, <1>3, <1>4, Zenon DEF MemDue, DueRequests
<1>6. ToSet(MemAwaitingApprovalBefore(s, now)) = AwaitingApprovalBefore(db, now)
  <2> DEFINE P == AwaitingApprovalBefore(db, now)
             I == { i \in DOMAIN q : MemAwaiting(s, q[i], now) }
  <2>1. \A id \in DOMAIN R : MemAwaiting(s, id, now) <=> id \in P
    BY <1>0, <1>3, Zenon DEF MemAwaiting, AwaitingApprovalBefore
  <2>2. P \subseteq ToSet(q)
    BY <1>0, <1>1, Zenon DEF AwaitingApprovalBefore
  <2> HIDE DEF P
  <2>3. I = { i \in DOMAIN q : q[i] \in P }
    BY <1>2, <2>1, Zenon
  <2>4. ToSet(Picked(q, I)) = P
    BY <1>1, <2>2, <2>3, QueryPicks, Zenon
  <2> QED
    BY <2>4, Zenon DEF MemAwaitingApprovalBefore, P
<1>7. ToSet(MemAutomationHistory(s, now)) = AutomationHistory(db, now)
  <2> DEFINE P == AutomationHistory(db, now)
             I == { i \in DOMAIN q : MemActed(s, q[i], now) }
  <2>1. \A id \in DOMAIN R : MemActed(s, id, now) <=> id \in P
    BY <1>0, <1>3, <1>a, Zenon DEF MemActed, AutomationHistory
  <2>2. P \subseteq ToSet(q)
    BY <1>0, <1>1, Zenon DEF AutomationHistory
  <2> HIDE DEF P
  <2>3. I = { i \in DOMAIN q : q[i] \in P }
    BY <1>2, <2>1, Zenon
  <2>4. ToSet(Picked(q, I)) = P
    BY <1>1, <2>2, <2>3, QueryPicks, Zenon
  <2> QED
    BY <2>4, Zenon DEF MemAutomationHistory, P
<1> QED
  BY <1>0, <1>5, <1>6, <1>7, Zenon

\* The first elements of a list.
LEMMA LimitedIs ==
    ASSUME NEW q, NEW n \in Nat, DOMAIN q = 1..n, NEW limit \in Nat, NEW k, k = IF n <= limit THEN n ELSE limit
    PROVE  LET p == Limited(q, limit)
           IN  /\ DOMAIN p = 1..k /\ Len(p) = k /\ ToSet(p) \subseteq ToSet(q)
               /\ n <= limit => ToSet(p) = ToSet(q)
<1> DEFINE p == Limited(q, limit)
           I == { m \in DOMAIN q : m <= limit }
<1>1. k \in Nat /\ 1..k \subseteq 1..n /\ I = 1..k /\ (n <= limit => k = n)
  OBVIOUS
<1>2. DOMAIN p = 1..k /\ p = [m \in 1..k |-> p[m]] /\ \A m \in 1..k : p[m] = q[m]
  BY <1>1, Zenon DEF Limited
<1> HIDE DEF p, I
<1>3. ASSUME NEW e \in ToSet(p) PROVE e \in ToSet(q)
  BY <1>1, <1>2, <1>3, Zenon DEF ToSet
<1>4. n <= limit => \A e \in ToSet(q) : e \in ToSet(p)
  BY <1>1, <1>2, Zenon DEF ToSet
<1>5. Len(p) = k
  <2>1. \A m \in 1..k : p[m] \in ToSet(p)
    BY <1>2, Zenon DEF ToSet
  <2> DEFINE T == ToSet(p)
  <2> HIDE DEF T
  <2>2. p \in [1..k -> T]
    BY <1>2, <2>1, Zenon DEF T
  <2>3. p \in Seq(T) /\ DOMAIN p = 1..k
    BY ONLY <1>1, <2>2, SMT
  <2> QED
    BY ONLY <1>1, <2>3, SMT
<1> QED
  BY <1>2, <1>3, <1>4, <1>5, Zenon DEF p

\* A set of requests, by their creation.
CreatedFirst(db, P) == Ordered(P, LAMBDA a, b : CreatedBefore(db, a, b))
CreatedIn(db, P) == [x \in P |-> { y \in P : CreatedBefore(db, y, x) }]

LEMMA CreatedOrder ==
    ASSUME NEW db, NEW P, \A id \in P : id \in Nat /\ db.requests[id].created \in Int
    PROVE  IsOrder(P, CreatedIn(db, P))
<1> DEFINE pred == CreatedIn(db, P)
           C(id) == db.requests[id].created
<1>1. pred \in [P -> SUBSET P] /\ \A x, y \in P : y \in pred[x] <=> CreatedBefore(db, y, x)
  BY Zenon DEF CreatedIn
<1>2. \A x, y : CreatedBefore(db, x, y) <=> C(x) < C(y) \/ (C(x) = C(y) /\ x < y)
  BY Zenon DEF CreatedBefore
<1>3. \A id \in P : id \in Nat /\ C(id) \in Int
  BY Zenon
<1> HIDE DEF pred, C
<1>4. \A x \in P : ~CreatedBefore(db, x, x)
  BY ONLY <1>2, <1>3, SMT
<1>5. \A x, y \in P : x = y \/ CreatedBefore(db, x, y) \/ CreatedBefore(db, y, x)
  BY ONLY <1>2, <1>3, SMT
<1>6. \A x, y, z \in P : CreatedBefore(db, x, y) /\ CreatedBefore(db, y, z) => CreatedBefore(db, x, z)
  BY ONLY <1>2, <1>3, SMT
<1>7. IsOrder(P, pred)
  BY <1>1, <1>4, <1>5, <1>6, Zenon DEF IsOrder
<1> QED
  BY <1>7, Zenon DEF pred

LEMMA CreatedList ==
    ASSUME NEW db, NEW P, IsFiniteSet(P), IsOrder(P, CreatedIn(db, P))
    PROVE  Lists(CreatedFirst(db, P), P, CreatedIn(db, P))
<1> DEFINE m == Cardinality(P)
           q == CreatedFirst(db, P)
           pred == CreatedIn(db, P)
<1>1. IsFiniteSet(P) /\ IsOrder(P, pred) /\ \A x \in P : pred[x] = { y \in P : CreatedBefore(db, y, x) }
  BY Zenon DEF CreatedIn
<1>2. DOMAIN q = 1..m /\ \A k \in 1..m : q[k] = CHOOSE x \in P : Cardinality({ y \in P : CreatedBefore(db, y, x) }) = k - 1
  BY Zenon DEF CreatedFirst, Ordered
<1> HIDE DEF pred, q
<1>3. \A k \in 1..m : \E x \in P : Cardinality(pred[x]) = k - 1
  BY ONLY <1>1, RankIsPlace, SMT
<1>4. ASSUME NEW k \in 1..m PROVE q[k] \in P /\ Cardinality(pred[q[k]]) = k - 1
  <2>1. \E x \in P : Cardinality({ y \in P : CreatedBefore(db, y, x) }) = k - 1
    BY <1>1, <1>3, Zenon
  <2> QED
    BY <1>1, <1>2, <2>1, Zenon
<1> QED
  BY <1>2, <1>4, Zenon DEF Lists, q, pred

\* As many positions pass as elements.
ArePlaces(I, q, n, P) ==
    /\ n \in Nat /\ DOMAIN q = 1..n /\ \A i, j \in 1..n : q[i] = q[j] => i = j
    /\ P \subseteq ToSet(q) /\ I = { i \in 1..n : q[i] \in P }

LEMMA PickedCount ==
    ASSUME NEW I, NEW q, NEW n, NEW P, ArePlaces(I, q, n, P)
    PROVE  IsFiniteSet(P) /\ Cardinality(P) = Cardinality(I)
<1> DEFINE f == [i \in I |-> q[i]]
<1>0. /\ n \in Nat /\ DOMAIN q = 1..n /\ \A i, j \in 1..n : q[i] = q[j] => i = j
      /\ P \subseteq ToSet(q) /\ I = { i \in 1..n : q[i] \in P }
  BY Zenon DEF ArePlaces
<1>1. IsFiniteSet(I)
  BY <1>0, PositionsOrder, Zenon
<1>2. f \in [I -> P] /\ (\A x \in P : \E i \in I : f[i] = x) /\ \A i, j \in I : f[i] = f[j] => i = j
  BY <1>0, Zenon DEF ToSet
<1>3. f \in Surjection(I, P) /\ f \in Injection(I, P)
  BY <1>2, Zenon DEF Surjection, Injection, IsInjective
<1> HIDE DEF f
<1>4. IsFiniteSet(P) /\ (Cardinality(P) = Cardinality(I) <=> f \in Injection(I, P))
  BY ONLY <1>1, <1>3, FS_Surjection, Zenon
<1> QED
  BY <1>3, <1>4, Zenon

LEMMA DueBatch ==
    ASSUME NEW s, IsStore(s), NEW db, db = Contents(s), NEW now \in Int, NEW limit \in Nat
    PROVE  SameBatch(s, db, now, limit)
<1> DEFINE q == s.autoOrder
           n == Len(q)
           P == DueRequests(db, now)
           I == { i \in DOMAIN q : MemDue(s, q[i], now) }
           A == Picked(q, I)
           B == CreatedFirst(db, P)
           c == Cardinality(P)
           pred == CreatedIn(db, P)
<1>0. /\ RequestsKept(s) /\ DOMAIN db.requests = DOMAIN s.autoReq
  BY RowFacts, Zenon
<1>1. /\ q \in Seq(ToSet(q)) /\ ToSet(q) = DOMAIN s.autoReq /\ (\A i, j \in DOMAIN q : q[i] = q[j] => i = j)
      /\ \A id \in DOMAIN s.autoReq : id \in Nat /\ s.autoReq[id].created \in Int
  BY <1>0, Zenon DEF RequestsKept
<1>2. \A id \in DOMAIN s.autoReq :
               (MemDue(s, id, now) <=> id \in P) /\ db.requests[id].created = s.autoReq[id].created
  BY RequestQueries, Zenon
<1>3. P \subseteq ToSet(q)
  BY <1>0, <1>1, Zenon DEF DueRequests
<1>4. MemDueAutomation(s, now, limit) = Limited(A, limit) /\ DueAutomation(db, now, limit) = Limited(B, limit)
  BY Zenon DEF MemDueAutomation, DueAutomation, CreatedFirst
<1>5. n \in Nat /\ DOMAIN q = 1..n
  <2> HIDE DEF q
  <2> QED
    BY <1>1
<1> HIDE DEF q, n, P
<1>6. I = { i \in 1..n : q[i] \in P } /\ I \subseteq 1..n
  <2>1. \A i \in 1..n : q[i] \in DOMAIN s.autoReq
    BY <1>1, <1>5, Zenon DEF ToSet
  <2>2. \A i \in 1..n : MemDue(s, q[i], now) <=> q[i] \in P
    BY <1>2, <2>1, Zenon
  <2>3. I = { i \in 1..n : q[i] \in P }
    BY <1>5, <2>2, Zenon
  <2> QED
    BY <2>3, Zenon
<1> HIDE DEF I
<1>7. IsFiniteSet(P) /\ c = Cardinality(I)
  <2>1. \A i, j \in 1..n : q[i] = q[j] => i = j
    BY <1>1, <1>5, Zenon
  <2>2. ArePlaces(I, q, n, P)
    BY <1>3, <1>5, <1>6, <2>1, Zenon DEF ArePlaces
  <2> QED
    BY <2>2, PickedCount, Zenon
<1>8. c \in Nat
  BY <1>7, FS_CardinalityType, Zenon
<1>9. DOMAIN A = 1..c /\ \E at : PicksAt(at, A, q, I)
  BY <1>5, <1>6, <1>7, PickedAt, Zenon
<1>10. ToSet(A) = P
  <2>1. I = { i \in DOMAIN q : q[i] \in P }
    BY <1>5, <1>6, Zenon
  <2> QED
    BY <1>1, <1>3, <2>1, QueryPicks, Zenon
<1>11. IsOrder(P, pred) /\ Lists(B, P, pred)
  <2>1. \A id \in P : id \in Nat /\ db.requests[id].created \in Int
    <3>1. \A id \in P : id \in DOMAIN s.autoReq
      BY <1>1, <1>3, Zenon
    <3>2. \A id \in P : id \in Nat /\ s.autoReq[id].created \in Int
      BY <1>1, <3>1, Zenon
    <3>3. \A id \in P : db.requests[id].created = s.autoReq[id].created
      BY <1>2, <3>1, Zenon
    <3> QED
      BY <3>2, <3>3, Zenon
  <2>2. IsOrder(P, pred)
    BY <2>1, CreatedOrder, Zenon
  <2> QED
    BY <1>7, <2>2, CreatedList, Zenon
<1>p. \A x, y \in P : y \in pred[x] <=> CreatedBefore(db, y, x)
  BY Zenon DEF CreatedIn
<1> HIDE DEF A, B, pred
<1>12. DOMAIN B = 1..c /\ ToSet(B) = P
  <2>1. DOMAIN B = 1..c /\ \A k \in 1..c : B[k] \in P
    BY <1>11, Zenon DEF Lists
  <2>2. \A x \in P : \E k \in 1..c : B[k] = x
    BY ONLY <1>7, <1>11, ListsAll, SMT
  <2> QED
    BY <2>1, <2>2, Zenon DEF ToSet
<1> DEFINE k == IF c <= limit THEN c ELSE limit
<1>k. c \in Nat /\ limit \in Nat /\ k = IF c <= limit THEN c ELSE limit
  BY <1>8
<1> HIDE DEF k, c
<1>13. /\ Len(Limited(A, limit)) = k /\ ToSet(Limited(A, limit)) \subseteq P
       /\ c <= limit => ToSet(Limited(A, limit)) = P
  BY ONLY <1>k, <1>9, <1>10, LimitedIs, SMT
<1>14. /\ Len(Limited(B, limit)) = k /\ ToSet(Limited(B, limit)) \subseteq P
       /\ c <= limit => ToSet(Limited(B, limit)) = P
  BY ONLY <1>k, <1>12, LimitedIs, SMT
<1>15. ASSUME InsertedAsCreated(s) PROVE Limited(A, limit) = Limited(B, limit)
  <2>1. PICK at : PicksAt(at, A, q, I)
    BY <1>9, Zenon
  <2>2. /\ \A i \in 1..c : at[i] \in I /\ A[i] = q[at[i]]
        /\ \A i, j \in 1..c : i < j => at[i] < at[j]
    BY <1>7, <2>1, Zenon DEF PicksAt
  <2>3. \A i \in 1..c : A[i] \in P
    BY <1>6, <2>2, Zenon
  <2>4. \A x \in P : \E i \in 1..c : A[i] = x
    BY <1>9, <1>10, Zenon DEF ToSet
  <2>5. \A i, j \in 1..n : i < j => CreatedBefore(db, q[i], q[j])
    BY <1>5, <1>15, Zenon DEF InsertedAsCreated, q
  <2>6. \A i, j \in 1..c : i < j => A[i] \in pred[A[j]]
    BY <1>6, <1>p, <2>2, <2>3, <2>5, Zenon
  <2>7. Lists(A, P, pred)
    BY ONLY <1>7, <1>8, <1>9, <1>11, <2>3, <2>4, <2>6, OneList, SMT DEF c
  <2>8. \A i \in 1..c : A[i] = B[i]
    BY ONLY <1>7, <1>11, <2>7, SameList, SMT DEF c
  <2>9. \A m \in { m \in DOMAIN A : m <= limit } : A[m] = B[m]
    BY <1>9, <2>8, Zenon
  <2> QED
    BY <1>9, <1>12, <2>9, Zenon DEF Limited
<1> QED
  BY <1>4, <1>13, <1>14, <1>15, Zenon DEF SameBatch, P, c

LEMMA Attempts ==
    ASSUME NEW s, IsStore(s), NEW db, db = Contents(s)
    PROVE  MemAttemptsForAlert(s) = AttemptsForAlert(db)
<1> DEFINE R == s.autoReq
           Q == RequestRows(s)
<1>0. db.requests = Q /\ DOMAIN Q = DOMAIN R
  BY RowFacts, Zenon
<1>1. \A id \in DOMAIN R : Q[id].status = R[id].status
  BY RowFor, Zenon DEF RowOf
<1>2. { id \in DOMAIN R : R[id].status \in Executed } = { id \in DOMAIN Q : Q[id].status \in Executed }
  BY <1>0, <1>1, Zenon
<1> QED
  BY <1>0, <1>2, Zenon DEF MemAttemptsForAlert, AttemptsForAlert

-----------------------------------------------------------------------------
(* Queries of observations.                                                *)

\* The rows of a table in the order of insertion.
LEMMA RowsInOrder ==
    ASSUME NEW s, IsStore(s)
    PROVE  LET rows == InOrder(s)
               n == Len(s.order.observations)
           IN  /\ n \in Nat /\ DOMAIN rows = 1..n /\ ToSet(rows) = s.observations
               /\ \A i \in 1..n : rows[i] \in s.observations /\ rows[i].at \in Int
<1> DEFINE S == s.observations
           q == s.order.observations
           n == Len(q)
           rows == InOrder(s)
<1>1. Keeps(S, q) /\ \A r \in S : r.at \in Int
  <2>1. TablesKept(s)
    BY DEF IsStore
  <2>2. "observations" \in Tables3
    BY DEF Tables3
  <2> QED
    BY <2>1, <2>2, Zenon DEF TablesKept
<1>2. q \in Seq(ToSet(q)) /\ ToSet(q) = { r.id : r \in S } /\ \A a, b \in S : a.id = b.id => a = b
  BY <1>1, Zenon DEF Keeps
<1>3. n \in Nat /\ DOMAIN q = 1..n
  <2> HIDE DEF q
  <2> QED
    BY <1>2
<1>4. DOMAIN rows = 1..n /\ \A i \in 1..n : rows[i] = CHOOSE r \in S : r.id = q[i]
  BY <1>3, Zenon DEF InOrder
<1>5. ASSUME NEW i \in 1..n PROVE rows[i] \in S /\ rows[i].id = q[i]
  <2>1. \E r \in S : r.id = q[i]
    BY <1>2, <1>3, Zenon DEF ToSet
  <2> QED
    BY <1>4, <2>1, Zenon
<1> HIDE DEF rows
<1>6. ASSUME NEW r \in S PROVE \E i \in 1..n : rows[i] = r
  <2>1. PICK i \in 1..n : q[i] = r.id
    BY <1>2, <1>3, Zenon DEF ToSet
  <2> QED
    BY <1>2, <1>5, <2>1, Zenon
<1>7. ToSet(rows) = S
  <2>1. ASSUME NEW e \in ToSet(rows) PROVE e \in S
    <3>1. PICK i \in 1..n : e = rows[i]
      BY <1>4, <2>1, Zenon DEF ToSet
    <3> QED
      BY <1>5, <3>1, Zenon
  <2>2. ASSUME NEW e \in S PROVE e \in ToSet(rows)
    BY <1>4, <1>6, Zenon DEF ToSet
  <2> QED
    BY <2>1, <2>2, Zenon
<1> QED
  BY <1>1, <1>3, <1>4, <1>5, <1>7, Zenon DEF rows

Soonest(rows, H) == Ordered(H, LAMBDA i, j : Sooner(rows, i, j))
SoonerIn(rows, H) == [i \in H |-> { j \in H : Sooner(rows, j, i) }]

LEMMA SoonerOrder ==
    ASSUME NEW n \in Nat, NEW H, H \subseteq 1..n, NEW rows, \A i \in 1..n : rows[i].at \in Int
    PROVE  IsFiniteSet(H) /\ Cardinality(H) \in Nat /\ IsOrder(H, SoonerIn(rows, H))
<1> DEFINE P == SoonerIn(rows, H)
<1>1. IsFiniteSet(H) /\ Cardinality(H) \in Nat
  BY PositionsOrder, Zenon
<1>2. P \in [H -> SUBSET H] /\ \A i, j \in H : j \in P[i] <=> Sooner(rows, j, i)
  BY Zenon DEF SoonerIn
<1>3. \A i \in H : i \in Int /\ rows[i].at \in Int
  OBVIOUS
<1>4. \A i \in H : ~Sooner(rows, i, i)
  BY <1>3 DEF Sooner
<1>5. \A i, j \in H : i = j \/ Sooner(rows, i, j) \/ Sooner(rows, j, i)
  BY <1>3 DEF Sooner
<1>6. ASSUME NEW i \in H, NEW j \in H, NEW k \in H, Sooner(rows, i, j), Sooner(rows, j, k)
      PROVE  Sooner(rows, i, k)
  <2> DEFINE a == rows[i].at
             b == rows[j].at
             c == rows[k].at
  <2>1. a \in Int /\ b \in Int /\ c \in Int /\ i \in Int /\ j \in Int /\ k \in Int
    BY <1>3, Zenon
  <2>2. (a < b \/ (a = b /\ i < j)) /\ (b < c \/ (b = c /\ j < k))
    BY <1>6, Zenon DEF Sooner
  <2> HIDE DEF a, b, c
  <2>3. a < c \/ (a = c /\ i < k)
    BY ONLY <2>1, <2>2, SMT
  <2> QED
    BY <2>3, Zenon DEF Sooner, a, c
<1> HIDE DEF P
<1>7. IsOrder(H, P)
  BY <1>2, <1>4, <1>5, <1>6, Zenon DEF IsOrder
<1> QED
  BY <1>1, <1>7, Zenon DEF P

SoonestIs(at, m, rows, H) ==
    /\ DOMAIN at = 1..m /\ \A k \in 1..m : at[k] \in H
    /\ \A i \in H : \E k \in 1..m : at[k] = i
    /\ \A k, l \in 1..m : k < l => Sooner(rows, at[k], at[l])

AreTimed(rows, H, n) == n \in Nat /\ H \subseteq 1..n /\ \A i \in 1..n : rows[i].at \in Int
LEMMA SoonestFirst ==
    ASSUME NEW n, NEW H, NEW rows, AreTimed(rows, H, n)
    PROVE  SoonestIs(Soonest(rows, H), Cardinality(H), rows, H)
<1> DEFINE m == Cardinality(H)
           at == Soonest(rows, H)
           pred == SoonerIn(rows, H)
<1>0. IsFiniteSet(H) /\ m \in Nat /\ IsOrder(H, pred)
  BY SoonerOrder, Zenon DEF AreTimed
<1>2. \A x \in H : pred[x] = { j \in H : Sooner(rows, j, x) }
  BY Zenon DEF SoonerIn
<1>4. DOMAIN at = 1..m /\ \A k \in 1..m : at[k] = CHOOSE x \in H : Cardinality({ y \in H : Sooner(rows, y, x) }) = k - 1
  BY Zenon DEF Soonest, Ordered
<1> HIDE DEF pred, at
<1>1. \A k \in 1..m : \E x \in H : Cardinality(pred[x]) = k - 1
  BY ONLY <1>0, RankIsPlace, SMT
<1>3. ASSUME NEW k \in 1..m PROVE at[k] \in H /\ Cardinality(pred[at[k]]) = k - 1
  <2>2. \E x \in H : Cardinality({ y \in H : Sooner(rows, y, x) }) = k - 1
    BY <1>1, <1>2, Zenon
  <2> QED
    BY <1>2, <1>4, <2>2, Zenon
<1>5. Lists(at, H, pred)
  BY <1>3, <1>4, Zenon DEF Lists
<1>6. /\ \A i \in H : \E k \in 1..m : at[k] = i
      /\ \A k, l \in 1..m : k < l => at[k] \in pred[at[l]]
  BY ONLY <1>0, <1>5, ListsAll, SMT
<1>7. \A k, l \in 1..m : k < l => Sooner(rows, at[k], at[l])
  BY <1>2, <1>3, <1>6, Zenon
<1> QED
  BY <1>3, <1>4, <1>6, <1>7, Zenon DEF at, SoonestIs


\* Samples: the rows of the query, by time.
AreSorted(q, S) == ToSet(q) = S /\ \A i, j \in DOMAIN q : i < j => q[i].at <= q[j].at

LEMMA MemSamplesAre ==
    ASSUME NEW s, IsStore(s), NEW db, db = Contents(s), NEW dev, NEW from \in Int, NEW to \in Int
    PROVE  AreSorted(MemSamples(s, dev, from, to), Samples(db, dev, from, to))
<1> DEFINE rows == InOrder(s)
           n == Len(s.order.observations)
           S == s.observations
           Hit(r) == r.dev = dev /\ r.value # Text /\ r.at > from /\ r.at <= to
           H == { i \in DOMAIN rows : Hit(rows[i]) }
           m == Cardinality(H)
           at == Soonest(rows, H)
           q == MemSamples(s, dev, from, to)
<1>1. /\ n \in Nat /\ DOMAIN rows = 1..n /\ ToSet(rows) = S
      /\ \A i \in 1..n : rows[i] \in S /\ rows[i].at \in Int
  BY RowsInOrder, Zenon
<1>a. q = [k \in DOMAIN at |-> rows[at[k]]]
  <2>1. H = { i \in DOMAIN rows : /\ rows[i].dev = dev /\ rows[i].value # Text
                                  /\ rows[i].at > from /\ rows[i].at <= to }
    OBVIOUS
  <2> HIDE DEF H
  <2> QED
    BY <2>1, Zenon DEF MemSamples, Soonest
<1> HIDE DEF rows, n
<1>2. H \subseteq 1..n
  BY <1>1, Zenon
<1>3. /\ DOMAIN at = 1..m /\ \A k \in 1..m : at[k] \in H
      /\ \A i \in H : \E k \in 1..m : at[k] = i
      /\ \A k, l \in 1..m : k < l => Sooner(rows, at[k], at[l])
  <2> HIDE DEF H
  <2>1. n \in Nat /\ \A i \in 1..n : rows[i].at \in Int
    BY <1>1, Zenon
  <2>2. AreTimed(rows, H, n)
    BY <1>2, <2>1, Zenon DEF AreTimed
  <2>3. SoonestIs(Soonest(rows, H), Cardinality(H), rows, H)
    BY <2>2, SoonestFirst, Zenon
  <2> QED
    BY <2>3, Zenon DEF SoonestIs
<1>4. db.observations = S
  BY DEF Contents
<1>5. \A r : r \in Samples(db, dev, from, to) <=> r \in S /\ r.dev = dev /\ r.value # Text /\ from < r.at /\ r.at <= to
  BY <1>4, Zenon DEF Samples, Series
<1>6. \A i \in 1..n : rows[i] \in Samples(db, dev, from, to) <=> i \in H
  <2>1. \A i \in 1..n : from < rows[i].at <=> rows[i].at > from
    BY <1>1
  <2> QED
    BY <1>1, <1>5, <2>1, Zenon
<1> HIDE DEF H, at
<1>7. DOMAIN q = 1..m /\ \A k \in 1..m : q[k] = rows[at[k]]
  BY <1>a, <1>3, Zenon
<1> HIDE DEF q
<1>8. ASSUME NEW e \in ToSet(q) PROVE e \in Samples(db, dev, from, to)
  <2>1. PICK k \in 1..m : e = q[k]
    BY <1>7, <1>8, Zenon DEF ToSet
  <2> QED
    BY <1>2, <1>3, <1>6, <1>7, <2>1, Zenon
<1>9. ASSUME NEW e \in Samples(db, dev, from, to) PROVE e \in ToSet(q)
  <2>0. e \in ToSet(rows)
    BY <1>1, <1>5, <1>9, Zenon
  <2>1. PICK i \in 1..n : e = rows[i]
    BY <1>1, <2>0, Zenon DEF ToSet
  <2>2. PICK k \in 1..m : at[k] = i
    BY <1>3, <1>6, <1>9, <2>1, Zenon
  <2> QED
    BY <1>7, <2>1, <2>2, Zenon DEF ToSet
<1>10. ASSUME NEW i \in DOMAIN q, NEW j \in DOMAIN q, i < j PROVE q[i].at <= q[j].at
  <2> DEFINE a == rows[at[i]].at
             b == rows[at[j]].at
  <2>1. a \in Int /\ b \in Int
    BY <1>1, <1>2, <1>3, <1>7, Zenon
  <2>2. a < b \/ a = b
    BY <1>3, <1>7, <1>10, Zenon DEF Sooner
  <2> HIDE DEF a, b
  <2>3. a <= b
    BY ONLY <2>1, <2>2, SMT
  <2>4. q[i].at = a /\ q[j].at = b
    BY <1>7, Zenon DEF a, b
  <2> QED
    BY <2>3, <2>4, Zenon
<1> QED
  BY <1>8, <1>9, <1>10, Zenon DEF q, AreSorted


BetterFrom(b, q, dev) == FoldLeft(LAMBDA best, r : Better(best, r, dev), b, q)

Betters(b, q, n, dev) ==
    \E g : /\ g[0] = b
           /\ \A k \in 1..n : g[k] = Better(g[k - 1], q[k], dev)
           /\ BetterFrom(b, q, dev) = g[n]

LEMMA BetterFold ==
    ASSUME NEW q, NEW n \in Nat, DOMAIN q = 1..n, NEW b, NEW dev
    PROVE  Betters(b, q, n, dev)
<1> DEFINE Eq(f, m) == f = [s \in SUBSET (1..m) |->
                  IF s = {} THEN b ELSE LET x == Max(s) IN Better(f[s \ {x}], q[x], dev)]
           S == { m \in Nat : \E f : Eq(f, m) }
<1>1. 0 \in S
  <2> DEFINE f == [s \in SUBSET (1..0) |-> b]
  <2>1. SUBSET (1..0) = {{}}
    OBVIOUS
  <2>2. Eq(f, 0)
    BY <2>1, Zenon
  <2> QED
    BY <2>2
<1>2. ASSUME NEW m \in Nat, m < n, m \in S PROVE m + 1 \in S
  <2>1. PICK f : Eq(f, m)
    BY <1>2, Zenon
  <2> DEFINE top == 1..(m + 1)
             h == [s \in SUBSET top |-> IF m + 1 \in s THEN Better(f[s \ {m + 1}], q[m + 1], dev) ELSE f[s]]
             rhs == [s \in SUBSET top |-> IF s = {} THEN b ELSE LET x == Max(s) IN Better(h[s \ {x}], q[x], dev)]
  <2>2. ASSUME NEW s \in SUBSET top PROVE h[s] = rhs[s]
    <3>1. CASE m + 1 \in s
      <4>1. Max(s) = m + 1
        <5>1. m + 1 \in Nat /\ s \subseteq 1..(m + 1)
          OBVIOUS
        <5> QED
          BY <3>1, <5>1, MaxOf, Zenon
      <4>2. s \ {m + 1} \in SUBSET top /\ m + 1 \notin s \ {m + 1}
        BY Zenon
      <4>3. h[s \ {m + 1}] = f[s \ {m + 1}]
        BY <4>2, Zenon
      <4>4. s # {}
        BY <3>1, Zenon
      <4> QED
        BY <3>1, <4>1, <4>3, <4>4, Zenon
    <3>2. CASE m + 1 \notin s
      <4>1. s \in SUBSET (1..m)
        BY <3>2
      <4>2. h[s \ {Max(s)}] = f[s \ {Max(s)}]
        <5>1. s \ {Max(s)} \in SUBSET top /\ m + 1 \notin s \ {Max(s)}
          BY <3>2, Zenon
        <5> QED
          BY <5>1, Zenon
      <4>3. h[s] = f[s]
        BY <3>2, Zenon
      <4>4. f[s] = IF s = {} THEN b ELSE Better(f[s \ {Max(s)}], q[Max(s)], dev)
        BY <2>1, <4>1, Zenon
      <4> QED
        BY <4>2, <4>3, <4>4, Zenon
    <3> QED
      BY <3>1, <3>2, Zenon
  <2>3. Eq(h, m + 1)
    BY <2>2, Zenon
  <2>4. m + 1 \in Nat
    OBVIOUS
  <2> QED
    BY <2>3, <2>4, Zenon
<1> HIDE DEF S
<1>3. \A i \in 0..n : i \in S
  BY <1>1, <1>2, Induction, Zenon
<1>4. \E f : Eq(f, n)
  <2>1. n \in 0..n
    OBVIOUS
  <2> QED
    BY <1>3, <2>1, Zenon DEF S
<1> DEFINE it == CHOOSE f : Eq(f, n)
<1>5. Eq(it, n)
  BY <1>4, Zenon
<1>6. BetterFrom(b, q, dev) = it[1..n]
  BY Zenon DEF BetterFrom, FoldLeft, MapThenFoldSet
<1> HIDE DEF it
<1> DEFINE g == [k \in 0..n |-> it[1..k]]
<1>7. g[0] = b
  <2>1. 1..0 = {} /\ 0 \in 0..n /\ {} \in SUBSET (1..n)
    OBVIOUS
  <2> QED
    BY <1>5, <2>1, Zenon
<1>8. ASSUME NEW k \in 1..n PROVE g[k] = Better(g[k - 1], q[k], dev)
  <2>1. 1..k \in SUBSET (1..n) /\ k \in 1..k /\ k \in 0..n /\ k - 1 \in 0..n /\ k \in Nat
    OBVIOUS
  <2>2. Max(1..k) = k /\ 1..k # {}
    BY <2>1, MaxOf
  <2>3. (1..k) \ {k} = 1..(k - 1)
    OBVIOUS
  <2> QED
    BY <1>5, <2>1, <2>2, <2>3, Zenon
<1>9. g[n] = it[1..n]
  OBVIOUS
<1> QED
  BY <1>6, <1>7, <1>8, <1>9, Zenon DEF Betters

\* What the best of the first k rows is.
BestOf(B, rows, k, dev) ==
    /\ \A b \in B : \E i \in 1..k : rows[i] = b /\ rows[i].dev = dev
    /\ \A i \in 1..k : rows[i].dev = dev => B # {} /\ \A b \in B : rows[i].at <= b.at

LEMMA BetterIsBest ==
    ASSUME NEW rows, NEW n \in Nat, NEW dev, NEW k \in 0..n, k < n, \A i \in 1..n : rows[i].at \in Int,
           NEW B, BestOf(B, rows, k, dev)
    PROVE  BestOf(Better(B, rows[k + 1], dev), rows, k + 1, dev)
<1> DEFINE r == rows[k + 1]
           C == Better(B, r, dev)
<1>1. /\ k + 1 \in 1..n /\ k + 1 \in 1..(k + 1) /\ \A i \in 1..k : i \in 1..(k + 1) /\ i \in 1..n
      /\ \A i \in 1..(k + 1) : i = k + 1 \/ i \in 1..k
  OBVIOUS
<1>2. \A b \in B : b.at \in Int
  BY <1>1, Zenon DEF BestOf
<1>3. r.at \in Int
  BY <1>1, Zenon
<1>4. CASE r.dev = dev /\ \A b \in B : r.at > b.at
  <2>1. C = {r}
    BY <1>4, Zenon DEF Better
  <2>2. ASSUME NEW i \in 1..(k + 1), rows[i].dev = dev PROVE rows[i].at <= r.at
    <3>1. CASE i = k + 1
      <4> DEFINE a == r.at
      <4> HIDE DEF a
      <4>1. a <= a
        BY <1>3 DEF a
      <4> QED
        BY <3>1, <4>1, Zenon DEF a
    <3>2. CASE i \in 1..k
      <4>1. PICK b \in B : rows[i].at <= b.at
        BY <2>2, <3>2, Zenon DEF BestOf
      <4> DEFINE x == rows[i].at
                 y == b.at
                 z == r.at
      <4>2. x \in Int /\ y \in Int /\ z \in Int /\ x <= y /\ z > y
        BY <1>1, <1>2, <1>3, <1>4, <3>2, <4>1, Zenon
      <4> HIDE DEF x, y, z
      <4>3. x <= z
        BY ONLY <4>2, SMT
      <4> QED
        BY <4>3, Zenon DEF x, z
    <3> QED
      BY <1>1, <3>1, <3>2, Zenon
  <2>3. \A b \in {r} : \E i \in 1..(k + 1) : rows[i] = b /\ rows[i].dev = dev
    BY <1>1, <1>4, Zenon
  <2> HIDE DEF r, C
  <2>4. BestOf({r}, rows, k + 1, dev)
    BY <2>2, <2>3, Zenon DEF BestOf
  <2> QED
    BY <2>1, <2>4, Zenon DEF C, r
<1>5. CASE ~(r.dev = dev /\ \A b \in B : r.at > b.at)
  <2>1. C = B
    BY <1>5, Zenon DEF Better
  <2>2. \A b \in B : \E i \in 1..(k + 1) : rows[i] = b /\ rows[i].dev = dev
    BY <1>1, Zenon DEF BestOf
  <2>3. ASSUME r.dev = dev PROVE B # {} /\ \A b \in B : r.at <= b.at
    <3>1. PICK b \in B : ~(r.at > b.at)
      BY <1>5, <2>3, Zenon
    <3>2. ASSUME NEW c \in B PROVE r.at <= c.at
      <4>1. PICK i \in 1..k : rows[i] = b /\ rows[i].dev = dev
        BY Zenon DEF BestOf
      <4>2. b.at <= c.at
        BY <4>1, Zenon DEF BestOf
      <4> DEFINE x == r.at
                 y == b.at
                 z == c.at
      <4>3. x \in Int /\ y \in Int /\ z \in Int /\ ~(x > y) /\ y <= z
        BY <1>2, <1>3, <3>1, <4>2, Zenon
      <4> HIDE DEF x, y, z
      <4>4. x <= z
        BY ONLY <4>3, SMT
      <4> QED
        BY <4>4, Zenon DEF x, z
    <3> QED
      BY <3>1, <3>2, Zenon
  <2>4. ASSUME NEW i \in 1..(k + 1), rows[i].dev = dev PROVE B # {} /\ \A b \in B : rows[i].at <= b.at
    <3>1. CASE i = k + 1
      BY <2>3, <2>4, <3>1, Zenon
    <3>2. CASE i \in 1..k
      BY <2>4, <3>2, Zenon DEF BestOf
    <3> QED
      BY <1>1, <3>1, <3>2, Zenon
  <2>5. BestOf(B, rows, k + 1, dev)
    BY <2>2, <2>4, Zenon DEF BestOf
  <2> QED
    BY <2>1, <2>5, Zenon
<1> QED
  BY <1>4, <1>5, Zenon

\* Latest: a newest row, if there is one.
LEMMA MemLatestIs ==
    ASSUME NEW s, IsStore(s), NEW db, db = Contents(s), NEW dev
    PROVE  /\ MemLatest(s, dev) \subseteq Latest(db, dev)
           /\ Latest(db, dev) # {} => MemLatest(s, dev) # {}
<1> DEFINE rows == InOrder(s)
           n == Len(s.order.observations)
           S == s.observations
           B == MemLatest(s, dev)
<1>1. /\ n \in Nat /\ DOMAIN rows = 1..n /\ ToSet(rows) = S
      /\ \A i \in 1..n : rows[i] \in S /\ rows[i].at \in Int
  BY RowsInOrder, Zenon
<1>2. B = BetterFrom({}, rows, dev)
  BY Zenon DEF MemLatest, BetterFrom
<1> HIDE DEF rows, n, B
<1>3. PICK g : /\ g[0] = {}
               /\ \A k \in 1..n : g[k] = Better(g[k - 1], rows[k], dev)
               /\ BetterFrom({}, rows, dev) = g[n]
  <2>1. Betters({}, rows, n, dev)
    BY ONLY <1>1, BetterFold, SMT
  <2> QED
    BY <2>1, Zenon DEF Betters
<1> DEFINE T == { k \in Nat : BestOf(g[k], rows, k, dev) }
<1>4. 0 \in T
  <2>1. 1..0 = {} /\ 0 \in Nat
    OBVIOUS
  <2>2. BestOf({}, rows, 0, dev)
    BY <2>1, Zenon DEF BestOf
  <2> QED
    BY <1>3, <2>1, <2>2, Zenon
<1>5. ASSUME NEW k \in Nat, k < n, k \in T PROVE k + 1 \in T
  <2>1. k \in 0..n /\ k + 1 \in 1..n /\ k + 1 \in Nat /\ (k + 1) - 1 = k
    BY <1>1, <1>5
  <2>2. g[k + 1] = Better(g[k], rows[k + 1], dev)
    BY <1>3, <2>1, Zenon
  <2>3. BestOf(g[k], rows, k, dev)
    BY <1>5, Zenon
  <2>4. n \in Nat /\ k < n /\ \A i \in 1..n : rows[i].at \in Int
    BY <1>1, <1>5, Zenon
  <2>5. BestOf(Better(g[k], rows[k + 1], dev), rows, k + 1, dev)
    BY ONLY <2>1, <2>3, <2>4, BetterIsBest, SMT
  <2> QED
    BY <2>1, <2>2, <2>5, Zenon
<1> HIDE DEF T
<1>6. \A i \in 0..n : i \in T
  BY <1>1, <1>4, <1>5, Induction, Zenon
<1>7. BestOf(B, rows, n, dev)
  <2>1. n \in 0..n
    BY <1>1
  <2> QED
    BY <1>2, <1>3, <1>6, <2>1, Zenon DEF T
<1>8. \A r : r \in Series(db, dev) <=> r \in S /\ r.dev = dev
  <2>1. db.observations = S
    BY DEF Contents
  <2> QED
    BY <2>1, Zenon DEF Series
<1>9. ASSUME NEW x \in Series(db, dev) PROVE \E i \in 1..n : rows[i] = x /\ rows[i].dev = dev
  <2>1. x \in ToSet(rows) /\ x.dev = dev
    BY <1>1, <1>8, Zenon
  <2> QED
    BY <1>1, <2>1, Zenon DEF ToSet
<1>10. ASSUME NEW b \in B PROVE b \in Latest(db, dev)
  <2>1. b \in Series(db, dev)
    <3>1. PICK i \in 1..n : rows[i] = b /\ rows[i].dev = dev
      BY <1>7, Zenon DEF BestOf
    <3> QED
      BY <1>1, <1>8, <3>1, Zenon
  <2>2. ASSUME NEW x \in Series(db, dev) PROVE x.at <= b.at
    <3>1. PICK i \in 1..n : rows[i] = x /\ rows[i].dev = dev
      BY <1>9, Zenon
    <3> QED
      BY <1>7, <3>1, Zenon DEF BestOf
  <2> QED
    BY <2>1, <2>2, Zenon DEF Latest
<1>11. ASSUME Latest(db, dev) # {} PROVE B # {}
  <2>1. PICK x \in Series(db, dev) : TRUE
    BY <1>11, Zenon DEF Latest
  <2>2. PICK i \in 1..n : rows[i] = x /\ rows[i].dev = dev
    BY <1>9, Zenon
  <2> QED
    BY <1>7, <2>2, Zenon DEF BestOf
<1> QED
  BY <1>10, <1>11, Zenon DEF B

-----------------------------------------------------------------------------
(* Transactions.                                                           *)

\* The undo functions of a transaction, called from the last to the first,
\* lead from its store back to one with the old tables.
TakesBack(tx, old) ==
    /\ tx.undo \in Seq(ToSet(tx.undo))
    /\ \E h : /\ IsStore(h[0]) /\ Contents(h[0]) = old /\ h[Len(tx.undo)] = tx.s
              /\ \A k \in 1..Len(tx.undo) : Undo(h[k], tx.undo[k]) = h[k - 1]

LEMMA NoElements ==
    <<>> \in Seq({}) /\ ToSet(<<>>) = {} /\ Len(<<>>) = 0 /\ DOMAIN <<>> = {} /\ <<>> = [x \in {} |-> <<>>[x]]
<1>a. <<>> \in Seq({})
  BY EmptySeq
<1>1. <<>> \in Seq({}) /\ Len(<<>>) = 0 /\ DOMAIN <<>> = {}
  BY <1>a
<1>2. ToSet(<<>>) = {}
  BY <1>1, Zenon DEF ToSet
<1>3. <<>> = [x \in {} |-> <<>>[x]]
  BY <1>1
<1> QED
  BY <1>1, <1>2, <1>3, Zenon

LEMMA NothingToUndo ==
    ASSUME NEW tx, tx.undo = <<>>, NEW old
    PROVE  TakesBack(tx, old) <=> IsStore(tx.s) /\ Contents(tx.s) = old
<1>1. tx.undo \in Seq(ToSet(tx.undo)) /\ Len(tx.undo) = 0
  BY NoElements, Zenon
<1>2. 1..0 = {} /\ 0 \in {0}
  OBVIOUS
<1>3. ASSUME TakesBack(tx, old) PROVE IsStore(tx.s) /\ Contents(tx.s) = old
  BY <1>1, <1>3, Zenon DEF TakesBack
<1>4. ASSUME IsStore(tx.s), Contents(tx.s) = old PROVE TakesBack(tx, old)
  <2> DEFINE h == [k \in {0} |-> tx.s]
  <2>1. h[0] = tx.s
    BY <1>2, Zenon
  <2> HIDE DEF h
  <2>2. /\ IsStore(h[0]) /\ Contents(h[0]) = old /\ h[Len(tx.undo)] = tx.s
        /\ \A k \in 1..Len(tx.undo) : Undo(h[k], tx.undo[k]) = h[k - 1]
    BY <1>1, <1>2, <1>4, <2>1, Zenon
  <2> QED
    BY <1>1, <2>2, Zenon DEF TakesBack
<1> QED
  BY <1>3, <1>4, Zenon

Extends(p, q, u) ==
    /\ Len(q) \in Nat /\ p \in Seq(ToSet(p)) /\ Len(p) = Len(q) + 1
    /\ p[Len(q) + 1] = u /\ \A k \in 1..Len(q) : p[k] = q[k]

LEMMA OneMore ==
    ASSUME NEW q, q \in Seq(ToSet(q)), NEW u
    PROVE  Extends(q \o <<u>>, q, u)
<1> DEFINE p == q \o <<u>>
           T == ToSet(q) \cup {u}
           n == Len(q)
<1>1. q \in Seq(T) /\ <<u>> \in Seq(T)
  OBVIOUS
<1>2. p \in Seq(T) /\ Len(p) = n + 1 /\ n \in Nat /\ p[n + 1] = u /\ \A k \in 1..n : p[k] = q[k]
  BY <1>1
<1> HIDE DEF p
<1>3. p \in Seq(ToSet(p))
  BY <1>2 DEF ToSet
<1> QED
  BY <1>2, <1>3, Zenon DEF p, Extends

\* An operation that can be taken back adds how.
LEMMA OpTakesBack ==
    ASSUME NEW tx, NEW old, TakesBack(tx, old), NEW r, Restores(tx.s, r),
           NEW ty, ty.s = r.s, ty.undo = tx.undo \o r.undo
    PROVE  TakesBack(ty, old)
<1> DEFINE q == tx.undo
           p == ty.undo
           n == Len(q)
<1>1. q \in Seq(ToSet(q))
  BY Zenon DEF TakesBack
<1>2. PICK h : /\ IsStore(h[0]) /\ Contents(h[0]) = old /\ h[n] = tx.s
               /\ \A k \in 1..n : Undo(h[k], q[k]) = h[k - 1]
  BY Zenon DEF TakesBack
<1>3. CASE r.s = tx.s /\ r.undo = <<>>
  <2>1. p = q
    <3>1. p = q \o <<>>
      BY <1>3, Zenon
    <3> HIDE DEF p, q
    <3> QED
      BY <1>1, <3>1
  <2> QED
    BY <1>3, <2>1, Zenon DEF TakesBack
<1>4. ASSUME NEW u, r.undo = <<u>>, Undo(r.s, u) = tx.s PROVE TakesBack(ty, old)
  <2>1. p = q \o <<u>>
    BY <1>4, Zenon
  <2> HIDE DEF p, q
  <2>a. Extends(q \o <<u>>, q, u)
    BY <1>1, OneMore, Zenon
  <2>b. Extends(p, q, u)
    BY <2>1, <2>a, Zenon
  <2>2. n \in Nat /\ p \in Seq(ToSet(p)) /\ Len(p) = n + 1 /\ p[n + 1] = u /\ \A k \in 1..n : p[k] = q[k]
    BY <2>b, Zenon DEF Extends
  <2> HIDE DEF n
  <2> DEFINE g == [k \in 0..(n + 1) |-> IF k = n + 1 THEN r.s ELSE h[k]]
  <2>3. g[n + 1] = r.s /\ \A k \in 0..n : g[k] = h[k]
    <3>1. n + 1 \in 0..(n + 1) /\ \A k \in 0..n : k \in 0..(n + 1) /\ k # n + 1
      BY <2>2
    <3> QED
      BY <3>1, Zenon
  <2> HIDE DEF g
  <2>4. g[0] = h[0]
    <3>1. 0 \in 0..n
      BY <2>2
    <3> QED
      BY <2>3, <3>1, Zenon
  <2>5. ASSUME NEW k \in 1..(n + 1) PROVE Undo(g[k], p[k]) = g[k - 1]
    <3>1. CASE k = n + 1
      <4>1. k - 1 = n /\ n \in 0..n
        BY <2>2, <3>1
      <4>2. g[k - 1] = tx.s
        BY <1>2, <2>3, <4>1, Zenon DEF n
      <4> QED
        BY <1>4, <2>2, <2>3, <3>1, <4>2, Zenon
    <3>2. CASE k # n + 1
      <4>1. k \in 1..n /\ k \in 0..n /\ k - 1 \in 0..n
        BY <2>2, <3>2
      <4>2. Undo(h[k], q[k]) = h[k - 1]
        BY <1>2, <4>1, Zenon DEF n
      <4> QED
        BY <2>2, <2>3, <4>1, <4>2, Zenon
    <3> QED
      BY <3>1, <3>2, Zenon
  <2>6. g[Len(p)] = ty.s
    BY <2>2, <2>3, Zenon
  <2>7. /\ IsStore(g[0]) /\ Contents(g[0]) = old /\ g[Len(p)] = ty.s
        /\ \A k \in 1..Len(p) : Undo(g[k], p[k]) = g[k - 1]
    BY <1>2, <2>2, <2>4, <2>5, <2>6, Zenon
  <2> QED
    BY <2>2, <2>7, Zenon DEF TakesBack, p
<1> QED
  BY <1>3, <1>4, Zenon DEF Restores

\* Calling the last undo function leaves the others.
LEMMA UndoTakesBack ==
    ASSUME NEW tx, NEW old, TakesBack(tx, old), tx.undo # <<>>
    PROVE  TakesBack(UndoLast(tx), old)
<1> DEFINE q == tx.undo
           n == Len(q)
           p == Front(q)
           ty == UndoLast(tx)
<1>1. q \in Seq(ToSet(q)) /\ q # <<>>
  BY Zenon DEF TakesBack
<1>2. PICK h : /\ IsStore(h[0]) /\ Contents(h[0]) = old /\ h[n] = tx.s
               /\ \A k \in 1..n : Undo(h[k], q[k]) = h[k - 1]
  BY Zenon DEF TakesBack
<1>3. ty.s = Undo(tx.s, q[n]) /\ ty.undo = p
  BY DEF UndoLast, Last
<1> HIDE DEF q, ty
<1>4. n \in Nat \ {0} /\ Len(p) = n - 1 /\ \A k \in 1..(n - 1) : p[k] = q[k]
  <2>1. n \in Nat \ {0}
    BY <1>1
  <2>2. Len(p) = n - 1 /\ \A k \in 1..(n - 1) : p[k] = q[k]
    <3>1. q \in Seq(ToSet(q)) /\ p = SubSeq(q, 1, n - 1)
      BY <1>1, Zenon DEF Front
    <3>2. \A i \in 1..(n - 1) : q[i] \in ToSet(q)
      <4>1. \A i \in 1..(n - 1) : i \in DOMAIN q
        BY <2>1, <3>1
      <4> QED
        BY <4>1, Zenon DEF ToSet
    <3>3. 1 \in Int /\ n - 1 \in Int
      BY <2>1
    <3> DEFINE z == n - 1
    <3> HIDE DEF p, z
    <3>4. /\ Len(SubSeq(q, 1, z)) = IF 1 <= z THEN z - 1 + 1 ELSE 0
          /\ \A i \in 1..(z - 1 + 1) : SubSeq(q, 1, z)[i] = q[1 + i - 1]
      <4>1. (\A i \in 1..z : q[i] \in ToSet(q)) /\ 1 \in Int /\ z \in Int
        BY <3>2, <3>3, Zenon DEF z
      <4> QED
        BY ONLY <4>1, SubSeqProperties, SMT
    <3>5. z \in Nat
      BY <2>1 DEF z
    <3>6. z - 1 + 1 = z /\ (1 <= z \/ z = 0) /\ \A i \in 1..z : 1 + i - 1 = i
      BY <3>5
    <3>7. Len(SubSeq(q, 1, z)) = z /\ \A i \in 1..z : SubSeq(q, 1, z)[i] = q[i]
      BY <3>4, <3>6, Zenon
    <3> QED
      BY <3>1, <3>7, Zenon DEF z
  <2> QED
    BY <2>1, <2>2
<1>5. p \in Seq(ToSet(p))
  <2>1. p \in Seq(ToSet(q))
    BY <1>1 DEF Front
  <2> HIDE DEF p
  <2> QED
    BY <2>1 DEF ToSet
<1> HIDE DEF p
<1>6. h[n - 1] = ty.s
  <2>1. n \in 1..n
    BY <1>4
  <2> QED
    BY <1>2, <1>3, <2>1, Zenon
<1>7. ASSUME NEW k \in 1..(n - 1) PROVE Undo(h[k], p[k]) = h[k - 1]
  <2>1. k \in 1..n
    BY <1>4
  <2> QED
    BY <1>2, <1>4, <2>1, Zenon
<1>8. ty.undo \in Seq(ToSet(ty.undo))
  BY <1>3, <1>5, Zenon
<1>9. /\ IsStore(h[0]) /\ Contents(h[0]) = old /\ h[Len(ty.undo)] = ty.s
      /\ \A k \in 1..Len(ty.undo) : Undo(h[k], ty.undo[k]) = h[k - 1]
  BY <1>2, <1>3, <1>4, <1>6, <1>7, Zenon
<1>10. TakesBack(ty, old)
  BY <1>8, <1>9, Zenon DEF TakesBack
<1> QED
  BY <1>10, Zenon DEF ty

-----------------------------------------------------------------------------
(* The new store.                                                          *)

LEMMA NewStore == IsStore(NewMemStore) /\ Contents(NewMemStore) = Empty
<1> DEFINE s == NewMemStore
<1>1. /\ s.observations = {} /\ s.transitions = {} /\ s.events = {}
      /\ s.order = [observations |-> <<>>, transitions |-> <<>>, events |-> <<>>]
      /\ s.states = <<>> /\ s.alerts = <<>> /\ s.devices = <<>> /\ s.outbox = <<>> /\ s.next = 0
      /\ s.autoReq = <<>> /\ s.autoOrder = <<>> /\ s.autoRes = <<>> /\ s.autoClaim = <<>>
  BY DEF NewMemStore
<1>2. HasFields(s)
  BY DEF HasFields, Names, NewMemStore
<1>3. TablesKept(s)
  <2>1. s["observations"] = {} /\ s["transitions"] = {} /\ s["events"] = {}
    BY DEF NewMemStore
  <2>2. s.order["observations"] = <<>> /\ s.order["transitions"] = <<>> /\ s.order["events"] = <<>>
    BY <1>1
  <2>3. s.order = [x \in Tables3 |-> s.order[x]]
    BY <1>1 DEF Tables3
  <2>4. Keeps({}, <<>>)
    <3>1. IsFiniteSet({}) /\ Cardinality({}) = 0
      BY FS_EmptySet, Zenon
    <3>2. { r.id : r \in {} } = {}
      OBVIOUS
    <3> QED
      BY <3>1, <3>2, NoElements, Zenon DEF Keeps
  <2> HIDE DEF s
  <2>5. \A x \in Tables3 : Keeps(s[x], s.order[x])
    BY <2>1, <2>2, <2>4, Zenon DEF Tables3
  <2>6. \A r \in s.observations : r.at \in Int
    BY <1>1, Zenon
  <2> QED
    BY <2>3, <2>5, <2>6, Zenon DEF TablesKept
<1> HIDE DEF s
<1>4. DevicesKept(s)
  BY <1>1, NoElements, Zenon DEF DevicesKept
<1>5. AlertsKept(s)
  BY <1>1, NoElements, Zenon DEF AlertsKept
<1>6. OutboxKept(s)
  BY <1>1, NoElements, Zenon DEF OutboxKept
<1>7. RequestsKept(s)
  BY <1>1, NoElements, Zenon DEF RequestsKept
<1>8. s.states = [k \in DOMAIN s.states |-> s.states[k]]
  BY <1>1, NoElements, Zenon
<1>9. IsStore(s)
  BY <1>2, <1>3, <1>4, <1>5, <1>6, <1>7, <1>8, Zenon DEF IsStore
<1>10. OutboxRows(s) = <<>> /\ RequestRows(s) = <<>> /\ ToSet(s.alerts) = {}
  <2>1. OutboxRows(s) = <<>>
    BY <1>1, NoElements DEF OutboxRows
  <2>2. RequestRows(s) = <<>>
    BY <1>1, NoElements DEF RequestRows
  <2>3. ToSet(s.alerts) = {}
    BY <1>1, NoElements, Zenon
  <2> QED
    BY <2>1, <2>2, <2>3
<1>11. Contents(s) = Empty
  BY <1>1, <1>10, Zenon DEF Contents, Empty
<1> QED
  BY <1>9, <1>11, Zenon DEF s

-----------------------------------------------------------------------------
(* Both stores, side by side.                                              *)

SameRows(s, db) == IsStore(s) /\ Contents(s) = db

SideBySide(c, phase, mem, db, old) ==
    /\ c \in StoreCases
    /\ phase = "closed" => mem.undo = <<>>
    /\ phase # "undoing" => SameRows(mem.s, db)
    /\ phase = "open" => TakesBack(mem, old)
    /\ phase = "undoing" => TakesBack(mem, db)

StoreCase == case.part = "store" => SideBySide(case.in, case.phase, case.mem, case.db, case.old)

LEMMA StoresFields ==
    ASSUME NEW c, NEW phase, NEW steps, NEW mem, NEW db, NEW old, case' = Stores(c, phase, steps, mem, db, old),
           SideBySide(c, phase, mem, db, old)
    PROVE  StoreCase'
<1>1. case'.in = c /\ case'.phase = phase /\ case'.mem = mem /\ case'.db = db /\ case'.old = old
  BY DEF Stores
<1> QED
  BY <1>1, Zenon DEF StoreCase

LEMMA NoChangeFields ==
    ASSUME NEW s PROVE NoChange(s).s = s /\ NoChange(s).undo = <<>>
  BY DEF NoChange

LEMMA StoresAreTracked == Spec => []StoreCase
<1>1. Init => StoreCase
  BY DEF Init, Idle, StoreCase
<1>2. StoreCase /\ [Next]_case => StoreCase'
  <2> SUFFICES ASSUME StoreCase, [Next]_case PROVE StoreCase'
    OBVIOUS
  <2> DEFINE c == case.in
             mem == case.mem
             s == case.mem.s
             db == case.db
             old == case.old
  <2>0. ASSUME NEW phase, InPhase(phase) PROVE case.phase = phase /\ SideBySide(c, phase, mem, db, old)
    BY <2>0, Zenon DEF InPhase, StoreCase
  <2>1. CASE TryStore
    <3>1. PICK d \in StoreCases : case' = Stores(d, "closed", 0, NoChange(NewMemStore), Empty, Empty)
      BY <2>1, Zenon DEF TryStore
    <3>2. SideBySide(d, "closed", NoChange(NewMemStore), Empty, Empty)
      BY NewStore, NoChangeFields, Zenon DEF SideBySide, SameRows
    <3> QED
      BY <3>1, <3>2, StoresFields, Zenon
  <2>2. CASE StoreCall
    <3>0. SideBySide(c, "closed", mem, db, old)
      BY <2>0, <2>2, Zenon DEF StoreCall
    <3>1. c \in StoreCases /\ SameRows(s, db)
      BY <3>0 DEF SideBySide
    <3>2. PICK o \in c.calls :
             case' = Stores(c, "closed", case.steps + 1, NoChange(MemCall(s, o)), Call(db, o), Empty)
      BY <2>2, Zenon DEF StoreCall
    <3>3. IsStoreCall(o)
      BY <3>1, AlgorithmsAssumption, Zenon
    <3>4. CallMatches(MemCall(s, o), Call(db, o))
      BY <3>1, <3>3, CallStep, Zenon DEF SameRows
    <3>5. SideBySide(c, "closed", NoChange(MemCall(s, o)), Call(db, o), Empty)
      BY <3>1, <3>4, NoChangeFields, Zenon DEF SideBySide, SameRows, CallMatches
    <3> QED
      BY <3>2, <3>5, StoresFields, Zenon
  <2>3. CASE StoreBegin
    <3>0. SideBySide(c, "closed", mem, db, old)
      BY <2>0, <2>3, Zenon DEF StoreBegin
    <3>1. c \in StoreCases /\ mem.undo = <<>> /\ SameRows(s, db)
      BY <3>0 DEF SideBySide
    <3>2. TakesBack(mem, db)
      BY <3>1, NothingToUndo, Zenon DEF SameRows
    <3>3. SideBySide(c, "open", mem, db, db)
      BY <3>1, <3>2, Zenon DEF SideBySide
    <3>4. case' = Stores(c, "open", case.steps, mem, db, db)
      BY <2>3, Zenon DEF StoreBegin
    <3> QED
      BY <3>3, <3>4, StoresFields, Zenon
  <2>4. CASE StoreOp
    <3>0. SideBySide(c, "open", mem, db, old)
      BY <2>0, <2>4, Zenon DEF StoreOp
    <3>1. c \in StoreCases /\ SameRows(s, db) /\ TakesBack(mem, old)
      BY <3>0 DEF SideBySide
    <3>2. PICK o \in c.ops :
             /\ o.op = "OpenAlert" => \A a \in db.alerts : a.event # o.event
             /\ case' = Stores(c, "open", case.steps + 1, MemDo(mem, o), Apply(db, o), old)
      BY <2>4, Zenon DEF StoreOp
    <3>3. IsStoreOp(o)
      BY <3>1, AlgorithmsAssumption, Zenon
    <3> DEFINE r == MemApply(s, o)
               tx == MemDo(mem, o)
    <3>4. OpDone(s, r, Apply(db, o))
      <4>1. db = Contents(s) /\ IsStore(s)
        BY <3>1, Zenon DEF SameRows
      <4>2. o.op = "OpenAlert" => \A a \in Contents(s).alerts : a.event # o.event
        BY <3>2, <4>1, Zenon
      <4> QED
        BY <3>3, <4>1, <4>2, OpStep, Zenon
    <3>5. tx.s = r.s /\ tx.undo = mem.undo \o r.undo
      BY DEF MemDo
    <3> HIDE DEF r, tx
    <3>6. SameRows(tx.s, Apply(db, o))
      BY <3>4, <3>5, Zenon DEF SameRows, OpDone
    <3>7. TakesBack(tx, old)
      BY <3>1, <3>4, <3>5, OpTakesBack, Zenon DEF OpDone
    <3>8. SideBySide(c, "open", tx, Apply(db, o), old)
      BY <3>1, <3>6, <3>7, Zenon DEF SideBySide
    <3> QED
      BY <3>2, <3>8, StoresFields, Zenon DEF tx
  <2>5. CASE StoreCommit
    <3>0. SideBySide(c, "open", mem, db, old)
      BY <2>0, <2>5, Zenon DEF StoreCommit
    <3>1. c \in StoreCases /\ SameRows(s, db)
      BY <3>0 DEF SideBySide
    <3>2. SideBySide(c, "closed", NoChange(s), db, Empty)
      BY <3>1, NoChangeFields, Zenon DEF SideBySide
    <3>3. case' = Stores(c, "closed", case.steps, NoChange(s), db, Empty)
      BY <2>5, Zenon DEF StoreCommit
    <3> QED
      BY <3>2, <3>3, StoresFields, Zenon
  <2>6. CASE StoreFail
    <3>1. c \in StoreCases /\ TakesBack(mem, old)
      BY <2>0, <2>6, Zenon DEF StoreFail, SideBySide
    <3>2. SideBySide(c, "undoing", mem, old, Empty)
      BY <3>1, Zenon DEF SideBySide
    <3>3. case' = Stores(c, "undoing", case.steps, mem, old, Empty)
      BY <2>6, Zenon DEF StoreFail
    <3> QED
      BY <3>2, <3>3, StoresFields, Zenon
  <2>7. CASE StoreUndo
    <3>1. c \in StoreCases /\ TakesBack(mem, db) /\ mem.undo # <<>>
      BY <2>0, <2>7, Zenon DEF StoreUndo, SideBySide
    <3>2. SideBySide(c, "undoing", UndoLast(mem), db, Empty)
      BY <3>1, UndoTakesBack, Zenon DEF SideBySide
    <3>3. case' = Stores(c, "undoing", case.steps, UndoLast(mem), db, Empty)
      BY <2>7, Zenon DEF StoreUndo
    <3> QED
      BY <3>2, <3>3, StoresFields, Zenon
  <2>8. CASE StoreUndone
    <3>1. c \in StoreCases /\ TakesBack(mem, db) /\ mem.undo = <<>>
      BY <2>0, <2>8, Zenon DEF StoreUndone, SideBySide
    <3>2. SameRows(s, db)
      BY <3>1, NothingToUndo, Zenon DEF SameRows
    <3>3. SideBySide(c, "closed", mem, db, Empty)
      BY <3>1, <3>2, Zenon DEF SideBySide
    <3>4. case' = Stores(c, "closed", case.steps, mem, db, Empty)
      BY <2>8, Zenon DEF StoreUndone
    <3> QED
      BY <3>3, <3>4, StoresFields, Zenon
  <2>9. CASE TryWindow \/ TryResponse \/ TryChain \/ TryEnrich \/ TryIntegrations \/ TryInvoke
    <3>1. case'.part # "store"
      BY <2>9 DEF TryWindow, TryResponse, TryChain, TryEnrich, TryIntegrations, TryInvoke
    <3> QED
      BY <3>1, Zenon DEF StoreCase
  <2>10. CASE TryPoll \/ TryPages \/ Return
    <3>1. case'.part # "store"
      BY <2>10 DEF TryPoll, TryPages, Return, Idle
    <3> QED
      BY <3>1, Zenon DEF StoreCase
  <2>11. CASE UNCHANGED case
    BY <2>11, Zenon DEF StoreCase
  <2> QED
    BY <2>1, <2>2, <2>3, <2>4, <2>5, <2>6, <2>7, <2>8, <2>9, <2>10, <2>11, Zenon DEF Next
<1> QED
  BY <1>1, <1>2, PTL DEF Spec

-----------------------------------------------------------------------------
(* What the tables and the numbers of the outbox are.                      *)

LEMMA TablesInOrder ==
    ASSUME NEW s, IsStore(s), NEW t \in DOMAIN s.order
    PROVE  ToSet(s.order[t]) = { r.id : r \in s[t] } /\ Len(s.order[t]) = Cardinality(s[t])
<1>1. TablesKept(s)
  BY Zenon DEF IsStore
<1>2. DOMAIN s.order = Tables3
  BY <1>1, Zenon DEF TablesKept
<1> QED
  BY <1>1, <1>2, Zenon DEF TablesKept, Keeps

LEMMA OutboxNumbers ==
    ASSUME NEW s, IsStore(s)
    PROVE  (\A i \in DOMAIN s.outbox : s.outbox[i].id = i) /\ s.next = Len(s.outbox)
<1>1. OutboxKept(s)
  BY Zenon DEF IsStore
<1>2. ASSUME NEW i \in DOMAIN s.outbox PROVE s.outbox[i].id = i
  <2>1. s.outbox[i] = [id |-> i, msg |-> s.outbox[i].msg, published |-> s.outbox[i].published]
    BY <1>1, Zenon DEF OutboxKept
  <2>2. \A m, p : [id |-> i, msg |-> m, published |-> p].id = i
    OBVIOUS
  <2> QED
    BY <2>1, <2>2, Zenon
<1> QED
  BY <1>1, <1>2, Zenon DEF OutboxKept

\* The in-memory store holds and answers what PostgreSQL would, whatever is
\* called, in whatever order and however long: after every call, within a
\* transaction, after it commits, and after it fails and its undo functions
\* have run (MemStore.Do, the undo functions and every method).
THEOREM MemStoreImplementsDatabase == Spec => []MemImplementsDatabase
<1>1. StoreCase => MemImplementsDatabase
  <2> SUFFICES ASSUME StoreCase, case.part = "store", case.phase # "undoing" PROVE MemImplementsDatabase
    BY Zenon DEF MemImplementsDatabase
  <2> DEFINE s == case.mem.s
             db == case.db
  <2>1. IsStore(s) /\ Contents(s) = db
    BY Zenon DEF StoreCase, SideBySide, SameRows
  <2>2. \A t \in DOMAIN s.order : /\ ToSet(s.order[t]) = { r.id : r \in s[t] }
                                  /\ Len(s.order[t]) = Cardinality(s[t])
    BY <2>1, TablesInOrder, Zenon
  <2>3. (\A i \in DOMAIN s.outbox : s.outbox[i].id = i) /\ s.next = Len(s.outbox)
    BY <2>1, OutboxNumbers, Zenon
  <2>4. \A now \in StoreTimes : now \in Int
    BY AlgorithmsAssumption, Zenon
  <2>5. \A now \in StoreTimes :
           /\ \A limit \in 1..(Len(s.autoOrder) + 1) : SameBatch(s, db, now, limit)
           /\ ToSet(MemAwaitingApprovalBefore(s, now)) = AwaitingApprovalBefore(db, now)
           /\ ToSet(MemAutomationHistory(s, now)) = AutomationHistory(db, now)
    <3>1. \A limit \in 1..(Len(s.autoOrder) + 1) : limit \in Nat
      OBVIOUS
    <3> HIDE DEF s, db
    <3> QED
      BY <2>1, <2>4, <3>1, DueBatch, RequestQueries, Zenon
  <2>6. MemAttemptsForAlert(s) = AttemptsForAlert(db)
    BY <2>1, Attempts, Zenon
  <2>7. ASSUME NEW dev \in DOMAIN s.devices, NEW from \in StoreTimes, NEW to \in StoreTimes
        PROVE  LET q == MemSamples(s, dev, from, to)
               IN  ToSet(q) = Samples(db, dev, from, to) /\ \A i, j \in DOMAIN q : i < j => q[i].at <= q[j].at
    <3>1. from \in Int /\ to \in Int
      BY <2>4, Zenon
    <3> HIDE DEF s, db
    <3>2. AreSorted(MemSamples(s, dev, from, to), Samples(db, dev, from, to))
      BY <2>1, <3>1, MemSamplesAre, Zenon
    <3> QED
      BY <3>2, Zenon DEF AreSorted
  <2>8. ASSUME NEW dev \in DOMAIN s.devices
        PROVE  MemLatest(s, dev) \subseteq Latest(db, dev) /\ (Latest(db, dev) # {} => MemLatest(s, dev) # {})
    BY <2>1, MemLatestIs, Zenon
  <2> QED
    BY <2>1, <2>2, <2>3, <2>5, <2>6, <2>7, <2>8, Zenon DEF MemImplementsDatabase
<1> QED
  BY <1>1, StoresAreTracked, PTL

-----------------------------------------------------------------------------
(* Batches.                                                                *)

LEMMA Divided ==
    ASSUME NEW x \in Int, NEW b \in Nat \ {0}
    PROVE  x \div b \in Int /\ \E r \in 0..(b - 1) : x = (x \div b) * b + r
<1>1. x \div b \in Int /\ x % b \in 0..(b - 1)
  BY SMT
<1>2. x = (x \div b) * b + (x % b)
  BY SMT
<1> QED
  BY <1>1, <1>2, Zenon

LEMMA TimesMonotone ==
    ASSUME NEW x \in Int, NEW y \in Int, x <= y, NEW b \in Nat
    PROVE  x * b \in Int /\ y * b \in Int /\ x * b <= y * b
  BY SMT

\* The k-th batch holds the places from (k - 1) * batch + 1 on.
SplitsInto(B, s, batch) ==
    /\ \A k \in DOMAIN B :
           /\ Len(B[k]) \in 1..batch
           /\ \A j \in 1..Len(B[k]) : LET i == (k - 1) * batch + j IN i \in 1..Len(s) /\ B[k][j] = s[i]
    /\ \A i \in 1..Len(s) : \E k \in DOMAIN B : \E j \in 1..Len(B[k]) : i = (k - 1) * batch + j

\* However many scalars a profile has and however large the batches are, no
\* GET asks for nothing or for more than a batch, and every scalar is asked for
\* (the loop over scalars in Poll).
THEOREM BatchesCoverScalars ==
    ASSUME NEW S, NEW s \in Seq(S), NEW batch \in Nat \ {0}
    PROVE  SplitsInto(Batches(s, batch), s, batch)
<1> DEFINE L == Len(s)
           N == (L + batch - 1) \div batch
           B == Batches(s, batch)
           From(k) == (k - 1) * batch + 1
           To(k) == IF k * batch < L THEN k * batch ELSE L
<1>1. DOMAIN B = 1..N /\ \A k \in 1..N : B[k] = SubSeq(s, From(k), To(k))
  BY Zenon DEF Batches
<1>2. L \in Nat /\ \A i \in 1..L : s[i] \in S
  OBVIOUS
<1> HIDE DEF B, L
<1>3. N \in Int /\ \E r \in 0..(batch - 1) : L + batch - 1 = N * batch + r
  <2> DEFINE x == L + batch - 1
  <2>1. x \in Int
    BY <1>2
  <2> HIDE DEF x
  <2>2. x \div batch \in Int /\ \E r \in 0..(batch - 1) : x = (x \div batch) * batch + r
    BY <2>1, Divided, Zenon
  <2> QED
    BY <2>2, Zenon DEF x
<1> HIDE DEF N
<1>4. N * batch >= L /\ (N - 1) * batch < L /\ N * batch \in Int
  <2>1. PICK r \in 0..(batch - 1) : L + batch - 1 = N * batch + r
    BY <1>3, Zenon
  <2>2. (N - 1) * batch = N * batch - batch /\ N * batch \in Int
    BY <1>3, SMT
  <2> DEFINE p == N * batch
  <2>3. p \in Int /\ L + batch - 1 = p + r /\ (N - 1) * batch = p - batch
    BY <2>1, <2>2, Zenon
  <2> HIDE DEF p
  <2>4. p >= L /\ p - batch < L
    BY <1>2, <2>3
  <2> QED
    BY <2>3, <2>4, Zenon DEF p
<1>5. ASSUME NEW k \in 1..N
      PROVE  LET a == (k - 1) * batch
             IN  /\ a \in Nat /\ a < L /\ From(k) = a + 1 /\ From(k) \in 1..L /\ To(k) \in From(k)..L
                 /\ Len(B[k]) = To(k) - a /\ Len(B[k]) \in 1..batch
                 /\ \A j \in 1..Len(B[k]) : B[k][j] = s[a + j]
                 /\ To(k) = IF a + batch < L THEN a + batch ELSE L
  <2> DEFINE a == (k - 1) * batch
  <2>0. k \in Int /\ k - 1 \in Int /\ N - 1 \in Int /\ 0 \in Int /\ 0 <= k - 1 /\ k - 1 <= N - 1 /\ batch \in Nat
    BY <1>3
  <2>1. 0 * batch <= a /\ a <= (N - 1) * batch /\ a \in Int /\ (N - 1) * batch \in Int /\ 0 * batch \in Int
    BY <2>0, TimesMonotone, Zenon
  <2>2. 0 * batch = 0 /\ k * batch = a + batch
    BY <2>0, SMT
  <2> DEFINE c == (N - 1) * batch
             z == 0 * batch
  <2>3. z <= a /\ a <= c /\ c < L /\ a \in Int /\ c \in Int /\ z = 0
    BY <1>4, <2>1, <2>2, Zenon
  <2> HIDE DEF c, z, a
  <2>4. a \in Nat /\ a < L
    BY <1>2, <2>3
  <2>5. From(k) = a + 1 /\ To(k) = IF a + batch < L THEN a + batch ELSE L
    BY <2>2, Zenon DEF a
  <2> DEFINE f == From(k)
             t == To(k)
  <2> HIDE DEF f, t
  <2>6. f = a + 1 /\ (t = IF a + batch < L THEN a + batch ELSE L)
    BY <2>5, Zenon DEF f, t
  <2>7. f \in 1..L /\ t \in f..L /\ t - f + 1 = t - a /\ t - a \in 1..batch /\ f <= t /\ f \in Int /\ t \in Int
    BY <1>2, <2>4, <2>6
  <2>8. \A i \in f..t : s[i] \in S
    BY <1>2, <2>7
  <2>9. /\ Len(SubSeq(s, f, t)) = (IF f <= t THEN t - f + 1 ELSE 0)
        /\ \A i \in 1..(t - f + 1) : SubSeq(s, f, t)[i] = s[f + i - 1]
    BY ONLY <2>7, <2>8, SubSeqProperties, SMT
  <2>10. B[k] = SubSeq(s, f, t)
    BY <1>1, Zenon DEF f, t
  <2>11. \A i \in 1..(t - a) : f + i - 1 = a + i
    BY <2>4, <2>6
  <2>12. Len(B[k]) = t - a /\ \A i \in 1..(t - a) : B[k][i] = s[a + i]
    BY <2>7, <2>9, <2>10, <2>11, Zenon
  <2> QED
    BY <2>4, <2>5, <2>7, <2>12, Zenon DEF f, t, a
<1>6. ASSUME NEW k \in DOMAIN B
      PROVE  /\ Len(B[k]) \in 1..batch
             /\ \A j \in 1..Len(B[k]) : LET i == (k - 1) * batch + j IN i \in 1..L /\ B[k][j] = s[i]
  <2> DEFINE a == (k - 1) * batch
             t == To(k)
             m == Len(B[k])
  <2>1. /\ a \in Nat /\ a < L /\ t \in (a + 1)..L /\ m = t - a /\ m \in 1..batch
        /\ \A j \in 1..m : B[k][j] = s[a + j]
    BY <1>1, <1>5, Zenon
  <2> HIDE DEF a, t, m
  <2>2. \A j \in 1..m : a + j \in 1..L
    BY <1>2, <2>1
  <2> QED
    BY <2>1, <2>2, Zenon DEF a, m
<1>7. ASSUME NEW i \in 1..L PROVE \E k \in DOMAIN B : \E j \in 1..Len(B[k]) : i = (k - 1) * batch + j
  <2> DEFINE y == (i - 1) \div batch
             k == y + 1
             a == (k - 1) * batch
             m == Len(B[k])
  <2>1. i - 1 \in Int /\ i \in Int
    BY <1>2
  <2>2. y \in Int /\ \E r \in 0..(batch - 1) : i - 1 = y * batch + r
    BY <2>1, Divided, Zenon
  <2> HIDE DEF y
  <2>3. PICK r \in 0..(batch - 1) : i - 1 = y * batch + r
    BY <2>2, Zenon
  <2>4. k - 1 = y /\ a = y * batch /\ a \in Int
    BY <2>2, SMT
  <2>5. y >= 0
    <3>1. SUFFICES ASSUME y <= -1 PROVE FALSE
      BY <2>2
    <3>2. y * batch <= (-1) * batch /\ y * batch \in Int /\ (-1) * batch = -batch
      BY <2>2, <3>1, TimesMonotone, SMT
    <3> DEFINE v == y * batch
    <3> HIDE DEF v
    <3>3. v <= -batch /\ v \in Int /\ i - 1 = v + r
      BY <2>3, <3>2, Zenon DEF v
    <3> QED
      BY <1>2, <3>3
  <2>6. y < N
    <3>1. SUFFICES ASSUME N <= y PROVE FALSE
      BY <1>3, <2>2
    <3>2. N * batch <= y * batch /\ y * batch \in Int
      BY <1>3, <2>2, <3>1, TimesMonotone, SMT
    <3> DEFINE v == y * batch
               w == N * batch
    <3>3. w <= v /\ v \in Int /\ w \in Int /\ w >= L /\ i - 1 = v + r
      BY <1>4, <2>3, <3>2, Zenon
    <3> HIDE DEF v, w
    <3> QED
      BY <1>2, <3>3
  <2>7. k \in 1..N
    BY <1>3, <2>2, <2>5, <2>6
  <2>8. /\ a \in Nat /\ m = To(k) - a /\ To(k) = IF a + batch < L THEN a + batch ELSE L
    BY <1>5, <2>7, Zenon
  <2> DEFINE t == To(k)
             j == r + 1
  <2>9. a \in Nat /\ m = t - a /\ (t = IF a + batch < L THEN a + batch ELSE L) /\ i - 1 = a + r
    BY <2>3, <2>4, <2>8, Zenon
  <2> HIDE DEF a, t, m, k
  <2>10. j \in 1..m /\ i = a + j
    BY <1>2, <2>9
  <2> QED
    BY <1>1, <2>7, <2>10, Zenon DEF a, m
<1> QED
  BY <1>6, <1>7, Zenon DEF SplitsInto, L, B

-----------------------------------------------------------------------------
(* Flattening a profile merges its metrics one by one.                     *)

MergeFrom(b, q) == FoldLeft(Merge, b, q)

\* g[k] is what the first k metrics of q make of b.
Merges(b, q, n) ==
    \E g : /\ g[0] = b
           /\ \A k \in 1..n : g[k] = Merge(g[k - 1], q[k])
           /\ MergeFrom(b, q) = g[n]

\* The fold, which is defined over sets of places, takes the places in order.
LEMMA MergeFold ==
    ASSUME NEW q, NEW n \in Nat, DOMAIN q = 1..n, NEW b
    PROVE  Merges(b, q, n)
<1> DEFINE Eq(f, m) == f = [s \in SUBSET (1..m) |->
                  IF s = {} THEN b ELSE LET x == Max(s) IN Merge(f[s \ {x}], q[x])]
           S == { m \in Nat : \E f : Eq(f, m) }
<1>1. 0 \in S
  <2> DEFINE f == [s \in SUBSET (1..0) |-> b]
  <2>1. SUBSET (1..0) = {{}}
    OBVIOUS
  <2>2. Eq(f, 0)
    BY <2>1, Zenon
  <2> QED
    BY <2>2
<1>2. ASSUME NEW m \in Nat, m < n, m \in S PROVE m + 1 \in S
  <2>1. PICK f : Eq(f, m)
    BY <1>2, Zenon
  <2> DEFINE top == 1..(m + 1)
             h == [s \in SUBSET top |-> IF m + 1 \in s THEN Merge(f[s \ {m + 1}], q[m + 1]) ELSE f[s]]
             rhs == [s \in SUBSET top |-> IF s = {} THEN b ELSE LET x == Max(s) IN Merge(h[s \ {x}], q[x])]
  <2>2. ASSUME NEW s \in SUBSET top PROVE h[s] = rhs[s]
    <3>1. CASE m + 1 \in s
      <4>1. Max(s) = m + 1
        <5>1. m + 1 \in Nat /\ s \subseteq 1..(m + 1)
          OBVIOUS
        <5> QED
          BY <3>1, <5>1, MaxOf, Zenon
      <4>2. s \ {m + 1} \in SUBSET top /\ m + 1 \notin s \ {m + 1}
        BY Zenon
      <4>3. h[s \ {m + 1}] = f[s \ {m + 1}]
        BY <4>2, Zenon
      <4>4. s # {}
        BY <3>1, Zenon
      <4> QED
        BY <3>1, <4>1, <4>3, <4>4, Zenon
    <3>2. CASE m + 1 \notin s
      <4>1. s \in SUBSET (1..m)
        BY <3>2
      <4>2. h[s \ {Max(s)}] = f[s \ {Max(s)}]
        <5>1. s \ {Max(s)} \in SUBSET top /\ m + 1 \notin s \ {Max(s)}
          BY <3>2, Zenon
        <5> QED
          BY <5>1, Zenon
      <4>3. h[s] = f[s]
        BY <3>2, Zenon
      <4>4. f[s] = IF s = {} THEN b ELSE Merge(f[s \ {Max(s)}], q[Max(s)])
        BY <2>1, <4>1, Zenon
      <4> QED
        BY <4>2, <4>3, <4>4, Zenon
    <3> QED
      BY <3>1, <3>2, Zenon
  <2>3. Eq(h, m + 1)
    BY <2>2, Zenon
  <2>4. m + 1 \in Nat
    OBVIOUS
  <2> QED
    BY <2>3, <2>4, Zenon
<1> HIDE DEF S
<1>3. \A i \in 0..n : i \in S
  BY <1>1, <1>2, Induction, Zenon
<1>4. \E f : Eq(f, n)
  <2>1. n \in 0..n
    OBVIOUS
  <2> QED
    BY <1>3, <2>1, Zenon DEF S
<1> DEFINE it == CHOOSE f : Eq(f, n)
<1>5. Eq(it, n)
  BY <1>4, Zenon
<1>6. MergeFrom(b, q) = it[1..n]
  BY Zenon DEF MergeFrom, FoldLeft, MapThenFoldSet
<1> HIDE DEF it
<1> DEFINE g == [k \in 0..n |-> it[1..k]]
<1>7. g[0] = b
  <2>1. 1..0 = {} /\ 0 \in 0..n /\ {} \in SUBSET (1..n)
    OBVIOUS
  <2> QED
    BY <1>5, <2>1, Zenon
<1>8. ASSUME NEW k \in 1..n PROVE g[k] = Merge(g[k - 1], q[k])
  <2>1. 1..k \in SUBSET (1..n) /\ k \in 1..k /\ k \in 0..n /\ k - 1 \in 0..n /\ k \in Nat
    OBVIOUS
  <2>2. Max(1..k) = k /\ 1..k # {}
    BY <2>1, MaxOf
  <2>3. (1..k) \ {k} = 1..(k - 1)
    OBVIOUS
  <2> QED
    BY <1>5, <2>1, <2>2, <2>3, Zenon
<1>9. g[n] = it[1..n]
  OBVIOUS
<1> QED
  BY <1>6, <1>7, <1>8, <1>9, Zenon DEF Merges

-----------------------------------------------------------------------------
(* Merging the metrics of a profile.                                       *)

\* i is the last place up to k with its name.
IsLast(q, i, k) == \A j \in 1..k : q[j].name = q[i].name => j <= i

\* What the merge made of the first k metrics.
MergedTo(acc, q, k) ==
    /\ acc \in Seq(ToSet(q))
    /\ \A x \in DOMAIN acc : \E i \in 1..k : acc[x] = q[i] /\ IsLast(q, i, k)
    /\ \A i \in 1..k : \E x \in DOMAIN acc : acc[x].name = q[i].name
    /\ \A x, y \in DOMAIN acc : acc[x].name = acc[y].name => x = y

LEMMA LastStays ==
    ASSUME NEW q, NEW k \in Nat, NEW i \in 1..k, IsLast(q, i, k), q[k + 1].name # q[i].name
    PROVE  IsLast(q, i, k + 1)
<1>1. ASSUME NEW j \in 1..(k + 1), q[j].name = q[i].name PROVE j <= i
  <2>1. j # k + 1
    BY <1>1, Zenon
  <2>2. j \in 1..k
    BY <2>1
  <2> QED
    BY <1>1, <2>2, Zenon DEF IsLast
<1> QED
  BY <1>1, Zenon DEF IsLast

LEMMA NewestIsLast ==
    ASSUME NEW q, NEW k \in Nat PROVE IsLast(q, k + 1, k + 1)
<1>1. \A j \in 1..(k + 1) : j <= k + 1
  OBVIOUS
<1> QED
  BY <1>1, Zenon DEF IsLast

LEMMA MergeStep ==
    ASSUME NEW q, NEW k \in Nat, k + 1 \in DOMAIN q, NEW acc, MergedTo(acc, q, k)
    PROVE  MergedTo(Merge(acc, q[k + 1]), q, k + 1)
<1> DEFINE m == q[k + 1]
           n == Len(acc)
           same == { x \in DOMAIN acc : acc[x].name = m.name }
           new == Merge(acc, m)
<1>0. m \in ToSet(q)
  BY Zenon DEF ToSet
<1>1. acc \in Seq(ToSet(q)) /\ n \in Nat /\ DOMAIN acc = 1..n
  <2>1. acc \in Seq(ToSet(q))
    BY Zenon DEF MergedTo
  <2> QED
    BY <2>1
<1>2. /\ k + 1 \in 1..(k + 1) /\ \A i \in 1..k : i \in 1..(k + 1)
      /\ \A i \in 1..(k + 1) : i \in 1..k \/ i = k + 1
  OBVIOUS
<1>3. IsLast(q, k + 1, k + 1)
  BY NewestIsLast, Zenon
<1>4. ASSUME NEW x \in DOMAIN acc, acc[x].name # m.name
      PROVE  \E i \in 1..(k + 1) : acc[x] = q[i] /\ IsLast(q, i, k + 1)
  <2>1. PICK i \in 1..k : acc[x] = q[i] /\ IsLast(q, i, k)
    BY Zenon DEF MergedTo
  <2>2. q[k + 1].name # q[i].name
    BY <1>4, <2>1, Zenon
  <2>3. IsLast(q, i, k + 1)
    BY <2>1, <2>2, LastStays, Zenon
  <2> QED
    BY <1>2, <2>1, <2>3, Zenon
<1>5. CASE same = {}
  <2>1. new = Append(acc, m)
    BY <1>5, Zenon DEF Merge
  <2> HIDE DEF m, new, same
  <2>2. /\ new \in Seq(ToSet(q)) /\ DOMAIN new = 1..(n + 1) /\ new[n + 1] = m
        /\ \A x \in 1..n : new[x] = acc[x]
    BY <1>0, <1>1, <2>1
  <2>3. n + 1 \in 1..(n + 1) /\ \A x \in 1..(n + 1) : x \in 1..n \/ x = n + 1
    BY <1>1
  <2>a. \A x \in 1..n : x \in 1..(n + 1)
    BY <1>1
  <2>4. \A x \in 1..n : acc[x].name # m.name
    BY <1>1, <1>5, Zenon DEF same
  <2>5. ASSUME NEW x \in DOMAIN new PROVE \E i \in 1..(k + 1) : new[x] = q[i] /\ IsLast(q, i, k + 1)
    <3>1. CASE x = n + 1
      BY <1>2, <1>3, <2>2, <3>1, Zenon DEF m
    <3>2. CASE x \in 1..n
      BY <1>1, <1>4, <2>2, <2>4, <3>2, Zenon
    <3> QED
      BY <2>2, <2>3, <3>1, <3>2, Zenon
  <2>6. ASSUME NEW i \in 1..(k + 1) PROVE \E x \in DOMAIN new : new[x].name = q[i].name
    <3>1. CASE i = k + 1
      BY <2>2, <2>3, <3>1, Zenon DEF m
    <3>2. CASE i \in 1..k
      <4>1. PICK x \in 1..n : acc[x].name = q[i].name
        BY <1>1, <3>2, Zenon DEF MergedTo
      <4> QED
        BY <2>2, <2>a, <4>1, Zenon
    <3> QED
      BY <1>2, <3>1, <3>2, Zenon
  <2>7. ASSUME NEW x \in DOMAIN new, NEW y \in DOMAIN new, new[x].name = new[y].name PROVE x = y
    <3>1. CASE x \in 1..n /\ y \in 1..n
      <4>1. acc[x].name = acc[y].name
        BY <2>2, <2>7, <3>1, Zenon
      <4> QED
        BY <1>1, <3>1, <4>1, Zenon DEF MergedTo
    <3>2. CASE x = n + 1
      BY <2>2, <2>3, <2>4, <2>7, <3>2, Zenon
    <3>3. CASE y = n + 1
      BY <2>2, <2>3, <2>4, <2>7, <3>3, Zenon
    <3> QED
      BY <2>2, <2>3, <3>1, <3>2, <3>3, Zenon
  <2>8. MergedTo(new, q, k + 1)
    BY <2>2, <2>5, <2>6, <2>7, Zenon DEF MergedTo
  <2> QED
    BY <2>8, Zenon DEF new, m
<1>6. CASE same # {}
  <2>1. new = [x \in DOMAIN acc |-> IF x \in same THEN m ELSE acc[x]]
    BY <1>6, Zenon DEF Merge
  <2>2. \A x \in DOMAIN acc : x \in same <=> acc[x].name = m.name
    BY Zenon
  <2>3. PICK z \in DOMAIN acc : acc[z].name = m.name
    BY <1>6, Zenon
  <2> HIDE DEF m, same, new
  <2>4. /\ DOMAIN new = 1..n /\ \A x \in 1..n : new[x] = IF acc[x].name = m.name THEN m ELSE acc[x]
    BY <1>1, <2>1, <2>2, Zenon
  <2>5. new \in Seq(ToSet(q))
    <3>1. \A x \in 1..n : acc[x] \in ToSet(q)
      BY <1>1
    <3>2. \A x \in 1..n : new[x] \in ToSet(q)
      BY <1>0, <2>4, <3>1, Zenon
    <3>3. new = [x \in 1..n |-> new[x]]
      BY <1>1, <2>1, Zenon
    <3> QED
      BY <1>1, <3>2, <3>3
  <2>6. \A x \in 1..n : new[x].name = acc[x].name
    BY <2>4, Zenon
  <2>7. ASSUME NEW x \in DOMAIN new PROVE \E i \in 1..(k + 1) : new[x] = q[i] /\ IsLast(q, i, k + 1)
    <3>1. CASE acc[x].name = m.name
      BY <1>2, <1>3, <2>4, <3>1, Zenon DEF m
    <3>2. CASE acc[x].name # m.name
      BY <1>1, <1>4, <2>4, <3>2, Zenon
    <3> QED
      BY <3>1, <3>2, Zenon
  <2>8. ASSUME NEW i \in 1..(k + 1) PROVE \E x \in DOMAIN new : new[x].name = q[i].name
    <3>1. CASE i = k + 1
      BY <1>1, <2>3, <2>4, <2>6, <3>1, Zenon DEF m
    <3>2. CASE i \in 1..k
      <4>1. PICK x \in 1..n : acc[x].name = q[i].name
        BY <1>1, <3>2, Zenon DEF MergedTo
      <4> QED
        BY <2>4, <2>6, <4>1, Zenon
    <3> QED
      BY <1>2, <3>1, <3>2, Zenon
  <2>9. ASSUME NEW x \in DOMAIN new, NEW y \in DOMAIN new, new[x].name = new[y].name PROVE x = y
    <3>1. acc[x].name = acc[y].name
      BY <2>4, <2>6, <2>9, Zenon
    <3> QED
      BY <1>1, <2>4, <3>1, Zenon DEF MergedTo
  <2>10. MergedTo(new, q, k + 1)
    BY <2>5, <2>7, <2>8, <2>9, Zenon DEF MergedTo
  <2> QED
    BY <2>10, Zenon DEF new, m
<1> QED
  BY <1>5, <1>6, Zenon

\* Of the metrics that a profile includes and has, in any number, the merge
\* keeps for every name the last one, and no name twice (flatten).
THEOREM LastMetricWins ==
    ASSUME NEW S, NEW q \in Seq(S)
    PROVE  LET out == FoldLeft(Merge, <<>>, q)
           IN  /\ \A x \in DOMAIN out : \E i \in DOMAIN q : out[x] = q[i] /\ \A j \in DOMAIN q : q[j].name = q[i].name => j <= i
               /\ { out[x].name : x \in DOMAIN out } = { q[i].name : i \in DOMAIN q }
               /\ \A x, y \in DOMAIN out : out[x].name = out[y].name => x = y
<1> DEFINE n == Len(q)
           out == MergeFrom(<<>>, q)
<1>1. n \in Nat /\ DOMAIN q = 1..n
  OBVIOUS
<1> HIDE DEF n
<1>2. PICK g : /\ g[0] = <<>>
               /\ \A k \in 1..n : g[k] = Merge(g[k - 1], q[k])
               /\ out = g[n]
  <2>1. Merges(<<>>, q, n)
    BY ONLY <1>1, MergeFold, SMT
  <2> QED
    BY <2>1, Zenon DEF Merges
<1> HIDE DEF out
<1> DEFINE T == { k \in Nat : MergedTo(g[k], q, k) }
<1>3. 0 \in T
  <2>1. <<>> \in Seq(ToSet(q)) /\ DOMAIN <<>> = {} /\ 1..0 = {} /\ 0 \in Nat
    BY EmptySeq
  <2>2. MergedTo(<<>>, q, 0)
    BY <2>1, Zenon DEF MergedTo
  <2> QED
    BY <1>2, <2>1, <2>2, Zenon
<1>4. ASSUME NEW k \in Nat, k < n, k \in T PROVE k + 1 \in T
  <2>1. k + 1 \in 1..n /\ k + 1 \in Nat /\ (k + 1) - 1 = k
    BY <1>1, <1>4
  <2>2. g[k + 1] = Merge(g[k], q[k + 1])
    BY <1>2, <2>1, Zenon
  <2>3. MergedTo(g[k], q, k) /\ k + 1 \in DOMAIN q
    BY <1>1, <1>4, <2>1, Zenon
  <2>4. MergedTo(Merge(g[k], q[k + 1]), q, k + 1)
    BY <2>3, MergeStep, Zenon
  <2> QED
    BY <2>1, <2>2, <2>4, Zenon
<1> HIDE DEF T
<1>5. \A i \in 0..n : i \in T
  BY <1>1, <1>3, <1>4, Induction, Zenon
<1>6. MergedTo(out, q, n)
  <2>1. n \in 0..n
    BY <1>1
  <2> QED
    BY <1>2, <1>5, <2>1, Zenon DEF T
<1>7. ASSUME NEW x \in DOMAIN out
      PROVE  \E i \in DOMAIN q : out[x] = q[i] /\ \A j \in DOMAIN q : q[j].name = q[i].name => j <= i
  BY <1>1, <1>6, Zenon DEF MergedTo, IsLast
<1>8. { out[x].name : x \in DOMAIN out } = { q[i].name : i \in DOMAIN q }
  <2>1. \A x \in DOMAIN out : \E i \in DOMAIN q : out[x].name = q[i].name
    BY <1>7, Zenon
  <2>2. \A i \in DOMAIN q : \E x \in DOMAIN out : out[x].name = q[i].name
    BY <1>1, <1>6, Zenon DEF MergedTo
  <2> DEFINE names == { out[x].name : x \in DOMAIN out }
  <2>3. ASSUME NEW e \in names PROVE e \in { q[i].name : i \in DOMAIN q }
    <3>1. PICK x \in DOMAIN out : e = out[x].name
      BY <2>3, Zenon
    <3>2. PICK i \in DOMAIN q : e = q[i].name
      BY <2>1, <3>1, Zenon
    <3> QED
      BY <3>2, Zenon
  <2>4. ASSUME NEW i \in DOMAIN q PROVE q[i].name \in names
    BY <2>2, Zenon
  <2> QED
    BY <2>3, <2>4, Zenon
<1>9. \A x, y \in DOMAIN out : out[x].name = out[y].name => x = y
  BY <1>6, Zenon DEF MergedTo
<1>10. out = FoldLeft(Merge, <<>>, q)
  BY Zenon DEF out, MergeFrom
<1> QED
  BY <1>7, <1>8, <1>9, <1>10, Zenon
=============================================================================
