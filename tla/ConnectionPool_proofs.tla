----------------------- MODULE ConnectionPool_proofs -----------------------
(***************************************************************************)
(* The connection pool for every number of borrowers and connections and   *)
(* every initial size.  PoolInv is inductive.  The counter by itself says  *)
(* little while borrowers stand between a pop and the decrement or a push  *)
(* and the increment; what is preserved is its relation to the queue and   *)
(* to how many borrowers stand there (CounterFollowsQueue), and that every *)
(* connection is idle once or held by one borrower (OnePlace, LiveCount).  *)
(* The bound on the growth and the check of close() follow.                *)
(***************************************************************************)
EXTENDS ConnectionPool, FiniteSetTheorems, TLAPS

PoolInv ==
    /\ TypeOK
    /\ InitInv
    /\ OnePlace
    /\ LiveCount
    /\ CounterFollowsQueue
    /\ GrowthIsBounded
    /\ CloseCheckHolds

-----------------------------------------------------------------------------
\* How many borrowers stand where.
Standing(f, x) == {b \in Borrowers : f[b] = x}

LEMMA StandingFinite ==
    ASSUME NEW f, NEW x
    PROVE  /\ IsFiniteSet(Standing(f, x))
           /\ CountAt(f, x) = Cardinality(Standing(f, x))
           /\ CountAt(f, x) \in Nat
           /\ CountAt(f, x) <= Cardinality(Borrowers)
<1>1. Standing(f, x) \in SUBSET Borrowers
  BY DEF Standing
<1>2. IsFiniteSet(Standing(f, x)) /\ Cardinality(Standing(f, x)) <= Cardinality(Borrowers)
  BY <1>1, FS_Subset, PoolAssumption
<1>3. CountAt(f, x) = Cardinality(Standing(f, x))
  BY DEF CountAt, Standing
<1>4. QED
  BY <1>2, <1>3, FS_CardinalityType

LEMMA DisjointUnion ==
    ASSUME NEW S, NEW T, IsFiniteSet(S), IsFiniteSet(T), S \cap T = {}
    PROVE  /\ IsFiniteSet(S \cup T)
           /\ Cardinality(S \cup T) = Cardinality(S) + Cardinality(T)
           /\ Cardinality(S \cup T) \in Nat
<1>1. /\ IsFiniteSet(S \cup T)
      /\ Cardinality(S \cup T) = Cardinality(S) + Cardinality(T) - Cardinality(S \cap T)
  BY FS_Union
<1>2. Cardinality(S \cap T) = 0
  BY FS_EmptySet
<1>3. Cardinality(S) \in Nat /\ Cardinality(T) \in Nat /\ Cardinality(S \cup T) \in Nat
  BY <1>1, FS_CardinalityType
<1>4. QED
  BY <1>1, <1>2, <1>3

LEMMA AllOut ==
    ASSUME NEW f, \A b \in Borrowers : f[b] = "out"
    PROVE  \A x : x # "out" => CountAt(f, x) = 0
<1>1. TAKE x
<1>2. HAVE x # "out"
<1>3. Standing(f, x) = {}
  BY <1>2 DEF Standing
<1>4. QED
  BY <1>3, StandingFinite, FS_EmptySet

\* A borrower that is out leaves room for one more among the others.
LEMMA OthersBusy ==
    ASSUME NEW f, NEW b \in Borrowers, f[b] = "out"
    PROVE  CountAt(f, "pushed") + CountAt(f, "held") + CountAt(f, "create")
             <= Cardinality(Borrowers) - 1
<1> DEFINE P == Standing(f, "pushed")
           H == Standing(f, "held")
           C == Standing(f, "create")
<1>1. IsFiniteSet(P) /\ IsFiniteSet(H) /\ IsFiniteSet(C)
  BY StandingFinite
<1>2. P \cap H = {} /\ (P \cup H) \cap C = {} /\ (P \cup H) \cup C \in SUBSET (Borrowers \ {b})
  BY DEF Standing
<1>3. IsFiniteSet(P \cup H) /\ Cardinality(P \cup H) = Cardinality(P) + Cardinality(H)
  BY <1>1, <1>2, DisjointUnion
<1>4. Cardinality((P \cup H) \cup C) = Cardinality(P \cup H) + Cardinality(C)
  BY <1>1, <1>2, <1>3, DisjointUnion
<1>5. IsFiniteSet(Borrowers \ {b})
      /\ Cardinality(Borrowers \ {b}) = Cardinality(Borrowers) - 1
  BY FS_RemoveElement, PoolAssumption
<1>6. Cardinality((P \cup H) \cup C) <= Cardinality(Borrowers) - 1
  BY <1>2, <1>5, FS_Subset
<1>7. QED
  BY <1>3, <1>4, <1>6, StandingFinite

-----------------------------------------------------------------------------
\* The bounds the constants put on the counter.

LEMMA Bounds == /\ MaxLive \in Nat /\ PoolSize <= MaxLive
                /\ Cardinality(Borrowers) \in Nat /\ Cardinality(Borrowers) <= MaxLive
                /\ Cardinality(Connections) \in Nat
                /\ MaxLive < Wrap /\ PoolSize < Wrap
<1>1. Cardinality(Borrowers) \in Nat /\ Cardinality(Connections) \in Nat
  BY FS_CardinalityType, PoolAssumption
<1>2. QED
  BY <1>1, PoolAssumption DEF MaxLive

LEMMA LiveFinite ==
    ASSUME TypeOK
    PROVE  /\ IsFiniteSet(live)
           /\ Cardinality(live) \in Nat
           /\ Cardinality(live) <= Cardinality(Connections)
BY FS_Subset, FS_CardinalityType, PoolAssumption DEF TypeOK

LEMMA PoolInit == Init => PoolInv
<1> SUFFICES ASSUME Init PROVE PoolInv
  OBVIOUS
<1>1. \A b \in Borrowers : pc[b] = "out"
  BY DEF Init
<1>2. TypeOK
  <2>1. m_queue \in Seq(Connections) /\ live \subseteq Connections
    BY DEF Init
  <2>2. pc \in [Borrowers -> Labels] /\ requests \in [Borrowers -> Nat]
    BY DEF Init, Labels
  <2>3. conn \in [Borrowers -> Connections \cup {NoConnection}]
    BY DEF Init
  <2>4. m_poolSize \in 0..(Wrap - 1) /\ tried \in 0..PoolSize
    <3>1. m_poolSize = PoolSize /\ tried = 0
      BY DEF Init
    <3>2. QED
      BY <3>1, Bounds, PoolAssumption
  <2>5. phase = "init"
    BY DEF Init
  <2>6. QED
    BY <2>1, <2>2, <2>3, <2>4, <2>5 DEF TypeOK
<1>3. InitInv /\ CounterFollowsQueue /\ CloseCheckHolds
  <2>1. tried = 0 /\ m_queue = <<>> /\ phase = "init"
    BY DEF Init
  <2>2. InitInv
    BY <1>1, <2>1, PoolAssumption DEF InitInv
  <2>3. QED
    BY <2>1, <2>2 DEF CounterFollowsQueue, CloseCheckHolds
<1>4. OnePlace
  BY DEF Init, OnePlace
<1>5. LiveCount /\ GrowthIsBounded
  <2>1. Cardinality(live) = 0 /\ Len(m_queue) = 0
    BY FS_EmptySet DEF Init
  <2>2. QED
    BY <1>1, <2>1, AllOut, Bounds DEF LiveCount, GrowthIsBounded
<1>6. QED
  BY <1>2, <1>3, <1>4, <1>5 DEF PoolInv

LEMMA TypeStep == PoolInv /\ [Next]_vars => TypeOK' /\ InitInv'
<1> SUFFICES ASSUME PoolInv, [Next]_vars PROVE TypeOK' /\ InitInv'
  OBVIOUS
<1> USE PoolAssumption, Bounds DEF PoolInv, TypeOK, InitInv, Labels, Goto, initVars, IsInitialized
<1>1. ASSUME NEW c \in Connections, InitConnect(c) PROVE TypeOK' /\ InitInv'
  <2>1. /\ Len(m_queue') = Len(m_queue) + 1 /\ m_queue' \in Seq(Connections)
        /\ Len(m_queue) = tried /\ tried' = tried + 1 /\ phase' = "init"
    BY <1>1 DEF InitConnect
  <2>2. TypeOK'
    BY <1>1, <2>1 DEF InitConnect
  <2>3. InitInv'
    BY <1>1, <2>1 DEF InitConnect
  <2>4. QED
    BY <2>2, <2>3
<1>2. CASE InitDead
  BY <1>2 DEF InitDead
<1>3. CASE InitEnd
  BY <1>3 DEF InitEnd
<1>4. ASSUME NEW b \in Borrowers, GetCheck(b) PROVE TypeOK' /\ InitInv'
  BY <1>4 DEF GetCheck
<1>5. ASSUME NEW b \in Borrowers, GetPop(b) PROVE TypeOK' /\ InitInv'
  BY <1>5 DEF GetPop
<1>6. ASSUME NEW b \in Borrowers, GetDiscount(b) PROVE TypeOK' /\ InitInv'
  BY <1>6 DEF GetDiscount, Decrement
<1>7. ASSUME NEW b \in Borrowers, NEW c \in Connections, GetCreate(b, c)
      PROVE  TypeOK' /\ InitInv'
  BY <1>7 DEF GetCreate
<1>8. ASSUME NEW b \in Borrowers, GetCreateFails(b) PROVE TypeOK' /\ InitInv'
  BY <1>8 DEF GetCreateFails
<1>9. ASSUME NEW b \in Borrowers, ReleasePush(b) PROVE TypeOK' /\ InitInv'
  <2>1. conn[b] \in Connections
    BY <1>9 DEF ReleasePush, OnePlace
  <2>2. m_queue' \in Seq(Connections)
    BY <1>9, <2>1 DEF ReleasePush
  <2>3. phase = "open"
    BY <1>9 DEF ReleasePush
  <2>4. QED
    BY <1>9, <2>2, <2>3 DEF ReleasePush
<1>10. ASSUME NEW b \in Borrowers, ReleaseCount(b) PROVE TypeOK' /\ InitInv'
  <2>1. m_poolSize' \in 0..(Wrap - 1)
    BY <1>10 DEF ReleaseCount, Increment
  <2>2. phase = "open"
    BY <1>10 DEF ReleaseCount
  <2>3. QED
    BY <1>10, <2>1, <2>2 DEF ReleaseCount
<1>11. ASSUME NEW b \in Borrowers, Lose(b) PROVE TypeOK' /\ InitInv'
  <2>1. phase = "open"
    BY <1>11 DEF Lose
  <2>2. QED
    BY <1>11, <2>1 DEF Lose
<1>12. CASE Close
  <2>1. m_queue' \in Seq(Connections) /\ m_poolSize' \in 0..(Wrap - 1)
    <3>1. CASE m_poolSize # Len(m_queue)
      BY <1>12, <3>1 DEF Close
    <3>2. CASE m_poolSize = Len(m_queue)
      <4>1. m_queue' = <<>> /\ m_poolSize' = 0
        BY <1>12, <3>2 DEF Close
      <4>2. QED
        BY <4>1
    <3>3. QED
      BY <3>1, <3>2
  <2>2. live' \subseteq Connections /\ phase' \in {"closed", "terminated"}
    BY <1>12 DEF Close
  <2>3. UNCHANGED <<tried, pc, conn, requests>> /\ \A b \in Borrowers : pc[b] = "out"
    BY <1>12 DEF Close
  <2>4. QED
    BY <2>1, <2>2, <2>3
<1>13. CASE UNCHANGED vars
  BY <1>13 DEF vars
<1>14. QED
  BY <1>1, <1>2, <1>3, <1>4, <1>5, <1>6, <1>7, <1>8, <1>9, <1>10, <1>11, <1>12, <1>13
     DEF Next, Construct, getConnection, releaseConnection

LEMMA PlaceStep == PoolInv /\ [Next]_vars => OnePlace'
<1> SUFFICES ASSUME PoolInv, [Next]_vars PROVE OnePlace'
  OBVIOUS
<1> USE PoolAssumption DEF PoolInv, TypeOK, InitInv, OnePlace, Labels, Goto, initVars
<1>1. ASSUME NEW c \in Connections, InitConnect(c) PROVE OnePlace'
  BY <1>1 DEF InitConnect
<1>2. CASE InitDead
  BY <1>2 DEF InitDead
<1>3. CASE InitEnd
  BY <1>3 DEF InitEnd
<1>4. ASSUME NEW b \in Borrowers, GetCheck(b) PROVE OnePlace'
  BY <1>4 DEF GetCheck
<1>5. ASSUME NEW b \in Borrowers, GetPop(b) PROVE OnePlace'
  BY <1>5 DEF GetPop
<1>6. ASSUME NEW b \in Borrowers, GetDiscount(b) PROVE OnePlace'
  BY <1>6 DEF GetDiscount
<1>7. ASSUME NEW b \in Borrowers, NEW c \in Connections, GetCreate(b, c) PROVE OnePlace'
  BY <1>7 DEF GetCreate
<1>8. ASSUME NEW b \in Borrowers, GetCreateFails(b) PROVE OnePlace'
  BY <1>8 DEF GetCreateFails
<1>9. ASSUME NEW b \in Borrowers, ReleasePush(b) PROVE OnePlace'
  BY <1>9 DEF ReleasePush
<1>10. ASSUME NEW b \in Borrowers, ReleaseCount(b) PROVE OnePlace'
  BY <1>10 DEF ReleaseCount
<1>11. ASSUME NEW b \in Borrowers, Lose(b) PROVE OnePlace'
  BY <1>11 DEF Lose
<1>12. CASE Close
  BY <1>12 DEF Close
<1>13. CASE UNCHANGED vars
  BY <1>13 DEF vars
<1>14. QED
  BY <1>1, <1>2, <1>3, <1>4, <1>5, <1>6, <1>7, <1>8, <1>9, <1>10, <1>11, <1>12, <1>13
     DEF Next, Construct, getConnection, releaseConnection

-----------------------------------------------------------------------------
\* The counting invariants in a form without IF, for the steps below.
Numbers(size, len, popped, pushed) ==
    LET balance == len + popped - pushed
    IN  (balance >= 0 => size = balance) /\ (balance < 0 => size = balance + Wrap)

LEMMA CounterNumbers ==
    TypeOK => (CounterFollowsQueue <=>
        (phase = "open" => Numbers(m_poolSize, Len(m_queue), CountAt(pc, "popped"),
                                   CountAt(pc, "pushed"))))
<1>1. SUFFICES ASSUME TypeOK
               PROVE  CounterFollowsQueue <=>
                        (phase = "open" => Numbers(m_poolSize, Len(m_queue),
                             CountAt(pc, "popped"), CountAt(pc, "pushed")))
  OBVIOUS
<1>2. Balance \in Int
  BY <1>1, StandingFinite DEF Balance, TypeOK
<1>3. QED
  BY <1>2 DEF CounterFollowsQueue, Numbers, Balance

\* What the moves of one borrower do to the counter.  The queue, those about
\* to discount and those about to count are few compared with Wrap.
LEMMA NumbersMove ==
    ASSUME NEW size \in Nat, NEW len \in Nat, NEW popped \in Nat, NEW pushed \in Nat,
           NEW conns \in Nat, NEW borrowers \in Nat,
           size < Wrap, len + popped <= conns, pushed <= borrowers, conns + borrowers < Wrap,
           Numbers(size, len, popped, pushed)
    PROVE  /\ Numbers(size, len - 1, popped + 1, pushed)
           /\ Numbers(size, len + 1, popped, pushed + 1)
           /\ Numbers(Decrement(size), len, popped - 1, pushed)
           /\ pushed > 0 => Numbers(Increment(size), len, popped, pushed - 1)
           /\ size = 0 => len + popped = pushed
           /\ popped = 0 /\ pushed = 0 => size = len
<1> USE PoolAssumption DEF Numbers
<1>1. Numbers(size, len - 1, popped + 1, pushed)
  OBVIOUS
<1>2. Numbers(size, len + 1, popped, pushed + 1)
  OBVIOUS
<1>3. Numbers(Decrement(size), len, popped - 1, pushed)
  BY DEF Decrement
<1>4. pushed > 0 => Numbers(Increment(size), len, popped, pushed - 1)
  BY DEF Increment
<1>5. size = 0 => len + popped = pushed
  OBVIOUS
<1>6. popped = 0 /\ pushed = 0 => size = len
  OBVIOUS
<1>7. QED
  BY <1>1, <1>2, <1>3, <1>4, <1>5, <1>6

\* What a move of one borrower changes.
LEMMA Moved ==
    ASSUME PoolInv, NEW b \in Borrowers, NEW x, NEW y, pc[b] = x, x # y, Goto(b, y)
    PROVE  /\ CountAt(pc', x) = CountAt(pc, x) - 1
           /\ CountAt(pc', y) = CountAt(pc, y) + 1
           /\ \A z : z # x /\ z # y => CountAt(pc', z) = CountAt(pc, z)
<1>0. pc \in [Borrowers -> Labels] /\ pc' = [pc EXCEPT ![b] = y]
  BY DEF Goto, PoolInv, TypeOK
<1>1. Standing(pc', x) = Standing(pc, x) \ {b} /\ b \in Standing(pc, x)
  BY <1>0 DEF Standing
<1>2. Standing(pc', y) = Standing(pc, y) \cup {b} /\ b \notin Standing(pc, y)
  BY <1>0 DEF Standing
<1>3. ASSUME NEW z, z # x, z # y PROVE CountAt(pc', z) = CountAt(pc, z)
  <2>1. Standing(pc', z) = Standing(pc, z)
    BY <1>0, <1>3 DEF Standing
  <2>2. QED
    BY <2>1, StandingFinite
<1>4. Cardinality(Standing(pc, x) \ {b}) = Cardinality(Standing(pc, x)) - 1
  BY <1>1, StandingFinite, FS_RemoveElement
<1>5. Cardinality(Standing(pc, y) \cup {b}) = Cardinality(Standing(pc, y)) + 1
  BY <1>2, StandingFinite, FS_AddElement
<1>6. CountAt(pc', x) = CountAt(pc, x) - 1 /\ CountAt(pc', y) = CountAt(pc, y) + 1
  BY <1>1, <1>2, <1>4, <1>5, StandingFinite
<1>7. QED
  BY <1>3, <1>6

LEMMA CountStep ==
    PoolInv /\ TypeOK' /\ [Next]_vars
        => LiveCount' /\ CounterFollowsQueue' /\ GrowthIsBounded' /\ CloseCheckHolds'
<1> SUFFICES ASSUME PoolInv, TypeOK', [Next]_vars
             PROVE  LiveCount' /\ CounterFollowsQueue' /\ GrowthIsBounded' /\ CloseCheckHolds'
  OBVIOUS
<1> DEFINE Popped == CountAt(pc, "popped")
           Pushed == CountAt(pc, "pushed")
           Held   == CountAt(pc, "held")
           Create == CountAt(pc, "create")
           Goal   == LiveCount' /\ CounterFollowsQueue' /\ GrowthIsBounded' /\ CloseCheckHolds'
<1>a. /\ Popped \in Nat /\ Pushed \in Nat /\ Held \in Nat /\ Create \in Nat
      /\ Pushed <= Cardinality(Borrowers)
  BY StandingFinite
<1>b. /\ IsFiniteSet(live) /\ Cardinality(live) \in Nat /\ Len(m_queue) \in Nat
      /\ Cardinality(live) <= Cardinality(Connections)
      /\ m_poolSize \in 0..(Wrap - 1)
      /\ Cardinality(live) = Len(m_queue) + Popped + Held
      /\ Cardinality(live) + Create <= MaxLive
  BY LiveFinite DEF PoolInv, TypeOK, LiveCount, GrowthIsBounded
<1>c. phase = "open" => Numbers(m_poolSize, Len(m_queue), Popped, Pushed)
  BY CounterNumbers DEF PoolInv
<1>d. /\ Wrap \in Nat /\ Cardinality(Connections) + Cardinality(Borrowers) < Wrap
      /\ Cardinality(Connections) \in Nat /\ Cardinality(Borrowers) \in Nat
      /\ MaxLive \in Nat /\ Cardinality(Borrowers) <= MaxLive /\ PoolSize <= MaxLive
      /\ PoolSize \in Nat
  BY Bounds, PoolAssumption
<1>f. ASSUME phase = "open"
      PROVE  /\ Numbers(m_poolSize, Len(m_queue) - 1, Popped + 1, Pushed)
             /\ Numbers(m_poolSize, Len(m_queue) + 1, Popped, Pushed + 1)
             /\ Numbers(Decrement(m_poolSize), Len(m_queue), Popped - 1, Pushed)
             /\ Pushed > 0 =>
                   Numbers(Increment(m_poolSize), Len(m_queue), Popped, Pushed - 1)
             /\ m_poolSize = 0 => Len(m_queue) + Popped = Pushed
             /\ Popped = 0 /\ Pushed = 0 => m_poolSize = Len(m_queue)
  <2>1. /\ m_poolSize \in Nat /\ m_poolSize < Wrap
        /\ Len(m_queue) + Popped <= Cardinality(Connections)
    BY <1>a, <1>b, <1>d
  <2>2. Numbers(m_poolSize, Len(m_queue), Popped, Pushed)
    BY <1>c, <1>f
  <2>3. QED
    BY <1>a, <1>b, <1>d, <2>1, <2>2, NumbersMove
\* The goal in numbers.
<1>e. ASSUME /\ Cardinality(live') = Len(m_queue') + Popped' + Held'
             /\ phase' = "open" => Numbers(m_poolSize', Len(m_queue'), Popped', Pushed')
             /\ Cardinality(live') + Create' <= MaxLive
             /\ phase' # "terminated"
      PROVE  Goal
  <2>1. CounterFollowsQueue'
    <3>1. Popped' \in Nat /\ Pushed' \in Nat /\ Len(m_queue') \in Nat
      BY StandingFinite DEF TypeOK
    <3>2. QED
      BY <1>e, <3>1, <1>d DEF CounterFollowsQueue, Numbers, Balance
  <2>2. QED
    BY <1>e, <2>1 DEF LiveCount, GrowthIsBounded, CloseCheckHolds
<1>1. ASSUME NEW c \in Connections, InitConnect(c) PROVE Goal
  <2>1. pc' = pc /\ phase' = "init" /\ Len(m_queue') = Len(m_queue) + 1
    BY <1>1 DEF InitConnect, PoolInv, TypeOK
  <2>2. Popped' = Popped /\ Held' = Held /\ Create' = Create
    BY <2>1
  <2>3. Cardinality(live') = Cardinality(live) + 1
    BY <1>1, <1>b, FS_AddElement DEF InitConnect
  <2>4. Create = 0 /\ Popped = 0 /\ Held = 0
    BY <1>1, AllOut DEF InitConnect, PoolInv, InitInv
  <2>5. Len(m_queue) < PoolSize
    BY <1>1, <1>b, <1>d DEF InitConnect, PoolInv, InitInv, TypeOK
  <2>6. QED
    BY <1>a, <1>b, <1>d, <1>e, <2>1, <2>2, <2>3, <2>4, <2>5
<1>2. CASE InitDead
  <2>1. Popped' = Popped /\ Held' = Held /\ Create' = Create
    BY <1>2 DEF InitDead
  <2>2. UNCHANGED <<m_queue, live>> /\ phase' \in {"init", "failed"}
    BY <1>2 DEF InitDead
  <2>3. QED
    BY <1>b, <1>e, <2>1, <2>2
<1>3. CASE InitEnd
  <2>1. Popped' = Popped /\ Held' = Held /\ Create' = Create /\ Pushed' = Pushed
    BY <1>3 DEF InitEnd
  <2>2. UNCHANGED <<m_queue, live>> /\ phase' \in {"open", "failed"} /\ m_poolSize' = Len(m_queue)
    BY <1>3 DEF InitEnd
  <2>3. Popped = 0 /\ Pushed = 0
    BY <1>3, AllOut DEF InitEnd, PoolInv, InitInv
  <2>4. Numbers(m_poolSize', Len(m_queue'), Popped', Pushed')
    BY <1>b, <2>1, <2>2, <2>3 DEF Numbers
  <2>5. QED
    BY <1>b, <1>e, <2>1, <2>2, <2>4
<1>4. ASSUME NEW b \in Borrowers, GetCheck(b) PROVE Goal
  <2>1. UNCHANGED <<phase, m_queue, m_poolSize, live>> /\ phase = "open" /\ pc[b] = "out"
    BY <1>4 DEF GetCheck, initVars
  <2>2. CASE m_poolSize = 0
    <3>1. Goto(b, "create")
      BY <1>4, <2>2 DEF GetCheck
    <3>2. Create' = Create + 1 /\ Popped' = Popped /\ Held' = Held /\ Pushed' = Pushed
      BY <2>1, <3>1, Moved
    <3>3. Len(m_queue) + Popped = Pushed
      BY <1>f, <2>1, <2>2
    <3>4. Pushed + Held + Create <= Cardinality(Borrowers) - 1
      BY <2>1, OthersBusy
    <3>5. Numbers(m_poolSize', Len(m_queue'), Popped', Pushed')
      BY <1>c, <2>1, <3>2
    <3>6. Cardinality(live) + Create <= MaxLive - 1
      BY <1>a, <1>b, <1>d, <3>3, <3>4
    <3>7. /\ Cardinality(live') = Len(m_queue') + Popped' + Held'
          /\ Cardinality(live') + Create' <= MaxLive
      BY <1>a, <1>b, <1>d, <2>1, <3>2, <3>6
    <3>8. QED
      BY <1>e, <2>1, <3>5, <3>7
  <2>3. CASE m_poolSize # 0
    <3>1. Goto(b, "pop")
      BY <1>4, <2>3 DEF GetCheck
    <3>2. Create' = Create /\ Popped' = Popped /\ Held' = Held /\ Pushed' = Pushed
      BY <2>1, <3>1, Moved
    <3>3. QED
      BY <1>b, <1>c, <1>e, <2>1, <3>2
  <2>4. QED
    BY <2>2, <2>3
<1>5. ASSUME NEW b \in Borrowers, GetPop(b) PROVE Goal
  <2>1. /\ UNCHANGED <<phase, m_poolSize, live>> /\ pc[b] = "pop" /\ Goto(b, "popped")
        /\ Len(m_queue') = Len(m_queue) - 1
    BY <1>5 DEF GetPop, initVars, PoolInv, TypeOK
  <2>2. Popped' = Popped + 1 /\ Create' = Create /\ Held' = Held /\ Pushed' = Pushed
    BY <2>1, Moved
  <2>3. phase = "open"
    BY <2>1 DEF PoolInv, InitInv
  <2>4. Numbers(m_poolSize', Len(m_queue'), Popped', Pushed')
    BY <1>f, <2>1, <2>2, <2>3
  <2>5. /\ Cardinality(live') = Len(m_queue') + Popped' + Held'
        /\ Cardinality(live') + Create' <= MaxLive
    BY <1>a, <1>b, <2>1, <2>2
  <2>6. QED
    BY <1>e, <2>1, <2>3, <2>4, <2>5
<1>6. ASSUME NEW b \in Borrowers, GetDiscount(b) PROVE Goal
  <2>1. /\ UNCHANGED <<phase, m_queue, live>> /\ pc[b] = "popped" /\ Goto(b, "held")
        /\ m_poolSize' = Decrement(m_poolSize)
    BY <1>6 DEF GetDiscount, initVars
  <2>2. Popped' = Popped - 1 /\ Held' = Held + 1 /\ Create' = Create /\ Pushed' = Pushed
    BY <2>1, Moved
  <2>3. phase = "open"
    BY <2>1 DEF PoolInv, InitInv
  <2>4. Numbers(m_poolSize', Len(m_queue'), Popped', Pushed')
    BY <1>f, <2>1, <2>2, <2>3
  <2>5. /\ Cardinality(live') = Len(m_queue') + Popped' + Held'
        /\ Cardinality(live') + Create' <= MaxLive
    BY <1>a, <1>b, <2>1, <2>2
  <2>6. QED
    BY <1>e, <2>1, <2>3, <2>4, <2>5
<1>7. ASSUME NEW b \in Borrowers, NEW c \in Connections, GetCreate(b, c) PROVE Goal
  <2>1. /\ UNCHANGED <<phase, m_queue, m_poolSize>> /\ pc[b] = "create" /\ Goto(b, "held")
    BY <1>7 DEF GetCreate, initVars
  <2>2. Held' = Held + 1 /\ Create' = Create - 1 /\ Popped' = Popped /\ Pushed' = Pushed
    BY <2>1, Moved
  <2>3. Cardinality(live') = Cardinality(live) + 1
    BY <1>7, <1>b, FS_AddElement DEF GetCreate
  <2>4. phase = "open"
    BY <2>1 DEF PoolInv, InitInv
  <2>5. Numbers(m_poolSize', Len(m_queue'), Popped', Pushed')
    BY <1>c, <2>1, <2>2, <2>4
  <2>6. Cardinality(live') = Len(m_queue') + Popped' + Held'
    BY <1>a, <1>b, <2>1, <2>2, <2>3
  <2>7. Cardinality(live') + Create' = Cardinality(live) + Create
    BY <1>a, <1>b, <2>2, <2>3
  <2>8. Cardinality(live') + Create' <= MaxLive
    BY <1>b, <2>7
  <2>9. QED
    BY <1>e, <2>1, <2>4, <2>5, <2>6, <2>8
<1>8. ASSUME NEW b \in Borrowers, GetCreateFails(b) PROVE Goal
  <2>1. /\ UNCHANGED <<phase, m_queue, m_poolSize, live>>
        /\ pc[b] = "create" /\ Goto(b, "out")
    BY <1>8 DEF GetCreateFails, initVars
  <2>2. Create' = Create - 1 /\ Held' = Held /\ Popped' = Popped /\ Pushed' = Pushed
    BY <2>1, Moved
  <2>3. phase = "open"
    BY <2>1 DEF PoolInv, InitInv
  <2>4. Numbers(m_poolSize', Len(m_queue'), Popped', Pushed')
    BY <1>c, <2>1, <2>2, <2>3
  <2>5. /\ Cardinality(live') = Len(m_queue') + Popped' + Held'
        /\ Cardinality(live') + Create' <= MaxLive
    BY <1>a, <1>b, <1>d, <2>1, <2>2
  <2>6. QED
    BY <1>e, <2>1, <2>3, <2>4, <2>5
<1>9. ASSUME NEW b \in Borrowers, ReleasePush(b) PROVE Goal
  <2>1. /\ UNCHANGED <<phase, m_poolSize, live>> /\ pc[b] = "held" /\ Goto(b, "pushed")
        /\ Len(m_queue') = Len(m_queue) + 1
    BY <1>9 DEF ReleasePush, initVars, PoolInv, TypeOK
  <2>2. Pushed' = Pushed + 1 /\ Held' = Held - 1 /\ Create' = Create /\ Popped' = Popped
    BY <2>1, Moved
  <2>3. phase = "open"
    BY <2>1 DEF PoolInv, InitInv
  <2>4. Numbers(m_poolSize', Len(m_queue'), Popped', Pushed')
    BY <1>f, <2>1, <2>2, <2>3
  <2>5. /\ Cardinality(live') = Len(m_queue') + Popped' + Held'
        /\ Cardinality(live') + Create' <= MaxLive
    BY <1>a, <1>b, <2>1, <2>2
  <2>6. QED
    BY <1>e, <2>1, <2>3, <2>4, <2>5
<1>10. ASSUME NEW b \in Borrowers, ReleaseCount(b) PROVE Goal
  <2>1. /\ UNCHANGED <<phase, m_queue, live>> /\ pc[b] = "pushed" /\ Goto(b, "out")
        /\ m_poolSize' = Increment(m_poolSize)
    BY <1>10 DEF ReleaseCount, initVars
  <2>2. Pushed' = Pushed - 1 /\ Held' = Held /\ Create' = Create /\ Popped' = Popped
    BY <2>1, Moved
  <2>3. phase = "open"
    BY <2>1 DEF PoolInv, InitInv
  <2>4. Numbers(m_poolSize', Len(m_queue'), Popped', Pushed')
    <3>1. Pushed' \in Nat
      BY StandingFinite
    <3>2. Pushed > 0
      BY <1>a, <2>2, <3>1
    <3>3. QED
      BY <1>f, <2>1, <2>2, <2>3, <3>2
  <2>5. /\ Cardinality(live') = Len(m_queue') + Popped' + Held'
        /\ Cardinality(live') + Create' <= MaxLive
    BY <1>a, <1>b, <2>1, <2>2
  <2>6. QED
    BY <1>e, <2>1, <2>3, <2>4, <2>5
<1>11. ASSUME NEW b \in Borrowers, Lose(b) PROVE Goal
  <2>1. /\ UNCHANGED <<phase, m_queue, m_poolSize>> /\ pc[b] = "held" /\ Goto(b, "out")
        /\ conn[b] \in live /\ live' = live \ {conn[b]}
    BY <1>11 DEF Lose, initVars, PoolInv, OnePlace
  <2>2. Held' = Held - 1 /\ Create' = Create /\ Popped' = Popped /\ Pushed' = Pushed
    BY <2>1, Moved
  <2>3. Cardinality(live') = Cardinality(live) - 1
    BY <2>1, <1>b, FS_RemoveElement
  <2>4. phase = "open"
    BY <2>1 DEF PoolInv, InitInv
  <2>5. Numbers(m_poolSize', Len(m_queue'), Popped', Pushed')
    BY <1>c, <2>1, <2>2, <2>4
  <2>6. /\ Cardinality(live') = Len(m_queue') + Popped' + Held'
        /\ Cardinality(live') + Create' <= MaxLive
    BY <1>a, <1>b, <1>d, <2>1, <2>2, <2>3
  <2>7. QED
    BY <1>e, <2>1, <2>4, <2>5, <2>6
<1>12. CASE Close
  <2>1. phase = "open" /\ pc' = pc /\ Popped = 0 /\ Pushed = 0 /\ Held = 0 /\ Create = 0
    BY <1>12, AllOut DEF Close
  <2>2. m_poolSize = Len(m_queue)
    BY <1>f, <2>1
  <2>3. phase' = "closed" /\ m_queue' = <<>> /\ live' = {}
    BY <1>12, <2>2 DEF Close
  <2>4. Popped' = 0 /\ Held' = 0 /\ Create' = 0
    BY <2>1
  <2>5. Cardinality(live') = 0 /\ Len(m_queue') = 0
    BY <2>3, FS_EmptySet
  <2>6. QED
    BY <1>d, <1>e, <2>3, <2>4, <2>5
<1>13. CASE UNCHANGED vars
  <2>1. Popped' = Popped /\ Held' = Held /\ Create' = Create /\ Pushed' = Pushed
    BY <1>13 DEF vars
  <2>2. QED
    BY <1>13, <1>b, <1>c, <1>e, <2>1 DEF vars, PoolInv, CloseCheckHolds
<1>14. QED
  BY <1>1, <1>2, <1>3, <1>4, <1>5, <1>6, <1>7, <1>8, <1>9, <1>10, <1>11, <1>12, <1>13
     DEF Next, Construct, getConnection, releaseConnection

LEMMA PoolStep == PoolInv /\ [Next]_vars => PoolInv'
BY TypeStep, PlaceStep, CountStep DEF PoolInv

\* Every reachable state of the pool keeps the inductive invariant.
THEOREM PoolCorrect == Spec => []PoolInv
BY PoolInit, PoolStep, PTL DEF Spec

\* The types of the pool, the counter between 0 and the modulus included.
THEOREM PoolTypeCorrect == Spec => []TypeOK
<1>1. PoolInv => TypeOK
  BY DEF PoolInv
<1>2. QED
  BY <1>1, PoolCorrect, PTL

\* m_poolSize is the idle connections up to the moves in flight
\* (connection_pool.cpp:45-56, 69-70), for any number of threads.
THEOREM CounterCorrect == Spec => []CounterFollowsQueue
<1>1. PoolInv => CounterFollowsQueue
  BY DEF PoolInv
<1>2. QED
  BY <1>1, PoolCorrect, PTL

\* Creation on the fly never takes the pool beyond its initial size or the
\* number of its borrowers (connection_pool.cpp:45-49).
THEOREM GrowthBounded == Spec => []GrowthIsBounded
<1>1. PoolInv => GrowthIsBounded
  BY DEF PoolInv
<1>2. QED
  BY <1>1, PoolCorrect, PTL

\* The check of close() never ends the process (connection_pool.cpp:123-126).
THEOREM CloseCheckCorrect == Spec => []CloseCheckHolds
<1>1. PoolInv => CloseCheckHolds
  BY DEF PoolInv
<1>2. QED
  BY <1>1, PoolCorrect, PTL

-----------------------------------------------------------------------------
LEMMA ElementsOfAppend ==
    ASSUME NEW s \in Seq(Connections), NEW c \in Connections
    PROVE  Elements(Append(s, c)) = Elements(s) \cup {c}
<1>1. DOMAIN Append(s, c) = DOMAIN s \cup {Len(s) + 1}
  OBVIOUS
<1>2. /\ Append(s, c)[Len(s) + 1] = c
      /\ \A i \in DOMAIN s : Append(s, c)[i] = s[i]
  OBVIOUS
<1>3. QED
  BY <1>1, <1>2 DEF Elements

LEMMA ElementsOfTail ==
    ASSUME NEW s \in Seq(Connections), s # <<>>,
           \A i, j \in DOMAIN s : s[i] = s[j] => i = j
    PROVE  Elements(Tail(s)) = Elements(s) \ {Head(s)} /\ Head(s) \in Elements(s)
<1>1. Head(s) = s[1] /\ 1 \in DOMAIN s
  OBVIOUS
<1>2. \A i \in DOMAIN Tail(s) : i + 1 \in DOMAIN s /\ i + 1 # 1 /\ Tail(s)[i] = s[i + 1]
  OBVIOUS
<1>3. \A i \in DOMAIN s : i # 1 => i - 1 \in DOMAIN Tail(s) /\ Tail(s)[i - 1] = s[i]
  OBVIOUS
<1>4. Elements(Tail(s)) \subseteq Elements(s) \ {Head(s)}
  BY <1>1, <1>2 DEF Elements
<1>5. Elements(s) \ {Head(s)} \subseteq Elements(Tail(s))
  <2>1. SUFFICES ASSUME NEW x \in Elements(s) \ {Head(s)} PROVE x \in Elements(Tail(s))
    OBVIOUS
  <2>2. PICK i \in DOMAIN s : s[i] = x
    BY DEF Elements
  <2>3. i # 1
    BY <1>1, <2>1, <2>2
  <2>4. i - 1 \in DOMAIN Tail(s) /\ Tail(s)[i - 1] = x
    BY <1>3, <2>2, <2>3
  <2>5. QED
    BY <2>4 DEF Elements
<1>6. QED
  BY <1>1, <1>4, <1>5 DEF Elements

\* The pool lends each connection to one borrower at a time: every step of
\* getConnection, releaseConnection, the constructor and the destructor is a
\* step of Lending or a stutter (connection_pool.cpp:27-73).
THEOREM LendingImplemented == Spec => ImplementsLending
<1>1. Init => Lend!Init
  BY DEF Init, Lend!Init, Elements
<1>2. ASSUME PoolInv, [Next]_vars PROVE [Lend!Next]_(Lend!lendingVars)
  <2> DEFINE Same == UNCHANGED Lend!lendingVars
  <2> USE DEF Lend!lendingVars
  <2>a. /\ m_queue \in Seq(Connections)
        /\ conn \in [Borrowers -> Connections \cup {NoConnection}]
        /\ NoConnection \notin Connections
    BY <1>2, PoolAssumption DEF PoolInv, TypeOK
  <2>b. (\A b \in Borrowers : pc[b] = "out") => Lend!InUse = {}
    BY <1>2 DEF PoolInv, OnePlace, Lend!InUse
  <2>1. ASSUME NEW c \in Connections, InitConnect(c) PROVE Lend!Stock(c)
    <3>1. Lend!InUse = {}
      BY <1>2, <2>1, <2>b DEF InitConnect, PoolInv, InitInv
    <3>2. c \notin Elements(m_queue)
      BY <1>2, <2>1 DEF InitConnect, PoolInv, OnePlace, Elements
    <3>3. QED
      BY <2>1, <2>a, <3>1, <3>2, ElementsOfAppend DEF InitConnect, Lend!Stock
  <2>2. ASSUME InitDead \/ InitEnd PROVE Same
    BY <2>2 DEF InitDead, InitEnd
  <2>3. ASSUME NEW b \in Borrowers,
               GetCheck(b) \/ GetDiscount(b) \/ GetCreateFails(b) \/ ReleaseCount(b)
        PROVE  Same
    BY <2>3 DEF GetCheck, GetDiscount, GetCreateFails, ReleaseCount
  <2>4. ASSUME NEW b \in Borrowers, GetPop(b) PROVE Lend!Lend(b, Head(m_queue))
    <3>1. conn[b] = NoConnection
      BY <1>2, <2>4 DEF GetPop, PoolInv, OnePlace
    <3>2. /\ Elements(Tail(m_queue)) = Elements(m_queue) \ {Head(m_queue)}
          /\ Head(m_queue) \in Elements(m_queue)
      BY <1>2, <2>4, <2>a, ElementsOfTail DEF GetPop, PoolInv, OnePlace
    <3>3. QED
      BY <2>4, <3>1, <3>2 DEF GetPop, Lend!Lend
  <2>5. ASSUME NEW b \in Borrowers, NEW c \in Connections, GetCreate(b, c)
        PROVE  Lend!Make(b, c)
    <3>1. conn[b] = NoConnection /\ c \notin Elements(m_queue) /\ c \notin Lend!InUse
      BY <1>2, <2>5 DEF GetCreate, PoolInv, OnePlace, Elements, Lend!InUse
    <3>2. QED
      BY <2>5, <3>1 DEF GetCreate, Lend!Make
  <2>6. ASSUME NEW b \in Borrowers, ReleasePush(b) PROVE Lend!Return(b)
    <3>1. conn[b] # NoConnection /\ conn[b] \in Connections
      BY <1>2, <2>6, <2>a DEF ReleasePush, PoolInv, OnePlace
    <3>2. QED
      BY <2>6, <2>a, <3>1, ElementsOfAppend DEF ReleasePush, Lend!Return
  <2>7. ASSUME NEW b \in Borrowers, Lose(b) PROVE Lend!Lose(b)
    BY <1>2, <2>7 DEF Lose, Lend!Lose, PoolInv, OnePlace
  <2>8. ASSUME Close PROVE Lend!Dispose \/ Same
    <3>1. Lend!InUse = {} /\ conn' = conn
      BY <2>8, <2>b DEF Close
    <3>2. m_queue' = m_queue \/ m_queue' = <<>>
      BY <2>8 DEF Close
    <3>3. m_queue' = <<>> => Elements(m_queue') = {}
      BY DEF Elements
    <3>4. QED
      BY <3>1, <3>2, <3>3 DEF Lend!Dispose
  <2>9. Head(m_queue) \in Connections \/ m_queue = <<>>
    BY <2>a
  <2>10. QED
    BY <1>2, <2>1, <2>2, <2>3, <2>4, <2>5, <2>6, <2>7, <2>8, <2>9
       DEF Next, Construct, getConnection, releaseConnection, vars, Lend!Next, GetPop
<1>3. QED
  BY <1>1, <1>2, PoolCorrect, PTL DEF Spec, Lend!Spec, ImplementsLending
=============================================================================
