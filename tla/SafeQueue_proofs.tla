-------------------------- MODULE SafeQueue_proofs --------------------------
(***************************************************************************)
(* SafeQueue for every number of producers, consumers, aborting threads    *)
(* and values.  LockInv is inductive by itself: it carries the types, who  *)
(* holds the mutex, what a thread inside the critical section knows and    *)
(* what the counter is worth.  NoStrandedValue and the refinement of       *)
(* BlockingFifo follow from it one action at a time.                       *)
(***************************************************************************)
EXTENDS SafeQueue, FiniteSetTheorems, TLAPS

LockInv == TypeOK /\ MutexInv /\ PredicateInv /\ SizeTracksTasks

LEMMA LockInit == Init => LockInv
<1>1. SUFFICES ASSUME Init PROVE LockInv
  OBVIOUS
<1>2. TypeOK
  <2>1. m_tasks \in Seq(Values)
    BY <1>1 DEF Init
  <2>2. pc \in [Threads -> ConsumerPc \cup {"count", "notify", "done"}]
    BY <1>1 DEF Init, ConsumerPc
  <2>3. \A p \in Producers : pc[p] \in {"out", "count"}
    BY <1>1 DEF Init, Threads
  <2>4. \A c \in Consumers : pc[c] \in ConsumerPc
    BY <1>1 DEF Init, ConsumerPc, Threads
  <2>5. \A k \in Closers : pc[k] \in {"out", "notify", "done"}
    BY <1>1 DEF Init, Threads
  <2>6. value \in [Consumers -> Values \cup {Nothing, Refused}]
    BY <1>1 DEF Init
  <2>7. QED
    BY <1>1, <2>1, <2>2, <2>3, <2>4, <2>5, <2>6 DEF Init, TypeOK
<1>3. MutexInv
  BY <1>1, QueueAssumption DEF Init, MutexInv, Critical, Threads
<1>4. PredicateInv /\ SizeTracksTasks
  BY <1>1, QueueAssumption DEF Init, PredicateInv, SizeTracksTasks, Threads
<1>5. QED
  BY <1>2, <1>3, <1>4 DEF LockInv

\* A step of one thread t moves t alone between the labels.
LEMMA LockStep == LockInv /\ [Next]_vars => LockInv'
<1> SUFFICES ASSUME LockInv, [Next]_vars PROVE LockInv'
  OBVIOUS
<1> USE QueueAssumption DEF LockInv, TypeOK, MutexInv, PredicateInv, SizeTracksTasks,
        Threads, ConsumerPc, Critical, Goto, Acquire, Release, Woken
<1>1. ASSUME NEW p \in Producers, NEW v \in Values, PushEmplace(p, v) PROVE LockInv'
  BY <1>1 DEF PushEmplace
<1>2. ASSUME NEW p \in Producers, PushCount(p) PROVE LockInv'
  BY <1>2 DEF PushCount, NotifyOne
<1>3. ASSUME NEW c \in Consumers, PopEnter(c) PROVE LockInv'
  BY <1>3 DEF PopEnter
<1>4. ASSUME NEW c \in Consumers, PopTest(c) PROVE LockInv'
  BY <1>4 DEF PopTest
<1>5. ASSUME NEW c \in Consumers, PopBlock(c) PROVE LockInv'
  BY <1>5 DEF PopBlock
<1>6. ASSUME NEW c \in Consumers, PopWake(c) PROVE LockInv'
  BY <1>6 DEF PopWake
<1>7. ASSUME NEW c \in Consumers, SpuriousWakeup(c) PROVE LockInv'
  BY <1>7 DEF SpuriousWakeup
<1>8. ASSUME NEW c \in Consumers, PopRefuse(c) PROVE LockInv'
  BY <1>8 DEF PopRefuse
<1>9. ASSUME NEW c \in Consumers, PopFront(c) PROVE LockInv'
  BY <1>9 DEF PopFront
<1>10. ASSUME NEW c \in Consumers, PopDiscount(c) PROVE LockInv'
  BY <1>10 DEF PopDiscount
<1>11. ASSUME NEW k \in Closers, AbortRaise(k) PROVE LockInv'
  BY <1>11 DEF AbortRaise
<1>12. ASSUME NEW k \in Closers, AbortNotify(k) PROVE LockInv'
  BY <1>12 DEF AbortNotify
<1>13. CASE UNCHANGED vars
  BY <1>13 DEF vars
<1>14. QED
  BY <1>1, <1>2, <1>3, <1>4, <1>5, <1>6, <1>7, <1>8, <1>9, <1>10, <1>11, <1>12, <1>13
     DEF Next, Push, Pop, SignalAbort

\* The mutex, the predicate of the wait and the counter of SafeQueue are
\* consistent in every reachable state (safe_queue.h:19-72).
THEOREM LockCorrect == Spec => []LockInv
<1>1. QED
  BY LockInit, LockStep, PTL DEF Spec

\* Every variable of SafeQueue keeps its type; in particular the unsigned
\* counter never goes below zero (safe_queue.h:48).
THEOREM QueueTypeCorrect == Spec => []TypeOK
<1>1. LockInv => TypeOK
  BY DEF LockInv
<1>2. QED
  BY <1>1, LockCorrect, PTL

\* m_size is exact whenever the mutex is free, and off by the one value in
\* flight otherwise (safe_queue.h:64-72).
THEOREM SizeCorrect == Spec => []SizeTracksTasks
<1>1. LockInv => SizeTracksTasks
  BY DEF LockInv
<1>2. QED
  BY <1>1, LockCorrect, PTL

-----------------------------------------------------------------------------
LEMMA OnTheirWayFinite ==
    /\ IsFiniteSet(OnTheirWay)
    /\ IsFiniteSet(OnTheirWay')
    /\ Cardinality(OnTheirWay) \in Nat
    /\ Cardinality(OnTheirWay') \in Nat
<1>1. OnTheirWay \in SUBSET Consumers /\ OnTheirWay' \in SUBSET Consumers
  BY DEF OnTheirWay, Woken
<1>2. IsFiniteSet(OnTheirWay) /\ IsFiniteSet(OnTheirWay')
  BY <1>1, FS_Subset, QueueAssumption
<1>3. QED
  BY <1>2, FS_CardinalityType

\* A step that sends nobody away and stores nothing keeps the balance.
LEMMA MoreOnTheirWay ==
    ASSUME OnTheirWay \subseteq OnTheirWay'
    PROVE  Cardinality(OnTheirWay) <= Cardinality(OnTheirWay')
<1>1. QED
  BY FS_Subset, OnTheirWayFinite

LEMMA StrandedStep == LockInv /\ LockInv' /\ NoStrandedValue /\ [Next]_vars => NoStrandedValue'
<1> SUFFICES ASSUME LockInv, LockInv', NoStrandedValue, [Next]_vars,
                    ~m_abort', waiting' # {}
             PROVE  Len(m_tasks') <= Cardinality(OnTheirWay')
                                        + (IF Announcing' # {} THEN 1 ELSE 0)
  BY DEF NoStrandedValue
<1> DEFINE Extra == IF Announcing # {} THEN 1 ELSE 0
<1>a. Len(m_tasks) \in Nat /\ Len(m_tasks') \in Nat
  BY DEF LockInv, TypeOK
<1>b. ~m_abort /\ waiting # {} => Len(m_tasks) <= Cardinality(OnTheirWay) + Extra
  BY DEF NoStrandedValue
<1>1. ASSUME NEW p \in Producers, NEW v \in Values, PushEmplace(p, v)
      PROVE  Len(m_tasks') <= Cardinality(OnTheirWay') + 1 /\ Announcing' # {}
  <2>1. Announcing = {}
    BY <1>1, QueueAssumption DEF PushEmplace, Acquire, Announcing, LockInv, MutexInv, Critical, Threads,
                TypeOK, ConsumerPc
  <2>2. OnTheirWay \subseteq OnTheirWay'
    BY <1>1, QueueAssumption DEF PushEmplace, Goto, OnTheirWay, Woken, LockInv, TypeOK
  <2>3. pc'[p] = "count"
    BY <1>1 DEF PushEmplace, Goto, LockInv, TypeOK, Threads
  <2>4. Len(m_tasks') = Len(m_tasks) + 1 /\ ~m_abort /\ waiting # {}
    BY <1>1 DEF PushEmplace, LockInv, TypeOK
  <2>5. QED
    BY <1>a, <1>b, <2>1, <2>2, <2>3, <2>4, MoreOnTheirWay, OnTheirWayFinite DEF Announcing
<1>2. ASSUME NEW p \in Producers, PushCount(p)
      PROVE  Len(m_tasks') <= Cardinality(OnTheirWay')
  <2>1. PICK c \in waiting : waiting' = waiting \ {c}
    BY <1>2 DEF PushCount, NotifyOne
  <2>2. c \in Consumers /\ c \notin OnTheirWay /\ pc[c] = "asleep" /\ c # p
    BY <2>1, QueueAssumption DEF OnTheirWay, Woken, LockInv, TypeOK, PredicateInv
  <2>3. OnTheirWay' = OnTheirWay \cup {c}
    BY <1>2, <2>1, <2>2, QueueAssumption
       DEF PushCount, Goto, OnTheirWay, Woken, LockInv, TypeOK, Threads
  <2>4. Cardinality(OnTheirWay') = Cardinality(OnTheirWay) + 1
    BY <2>2, <2>3, FS_AddElement, OnTheirWayFinite
  <2>5. m_tasks' = m_tasks /\ ~m_abort /\ waiting # {}
    BY <1>2, <2>1 DEF PushCount
  <2>6. QED
    BY <1>a, <1>b, <2>4, <2>5, OnTheirWayFinite
\* The thread that stores or discounts a value holds the mutex, so nobody is
\* announcing a value and the set of those on their way does not shrink.
<1>3. ASSUME OnTheirWay \subseteq OnTheirWay', Announcing' = Announcing,
             m_tasks' = m_tasks, ~m_abort, waiting # {}
      PROVE  Len(m_tasks') <= Cardinality(OnTheirWay') + (IF Announcing' # {} THEN 1 ELSE 0)
  BY <1>3, <1>a, <1>b, MoreOnTheirWay, OnTheirWayFinite
<1>4. ASSUME NEW c \in Consumers, PopEnter(c) \/ PopWake(c) \/ PopDiscount(c)
                                     \/ SpuriousWakeup(c)
      PROVE  /\ OnTheirWay \subseteq OnTheirWay' /\ Announcing' = Announcing
             /\ m_tasks' = m_tasks /\ ~m_abort /\ waiting # {}
  BY <1>4, QueueAssumption DEF PopEnter, PopWake, PopDiscount, SpuriousWakeup, Goto, OnTheirWay,
     Announcing, Woken, LockInv, TypeOK, Threads
<1>5. ASSUME NEW c \in Consumers, PopTest(c)
      PROVE  Len(m_tasks') <= Cardinality(OnTheirWay') + (IF Announcing' # {} THEN 1 ELSE 0)
  <2>1. CASE m_tasks = <<>>
    BY <1>5, <2>1, OnTheirWayFinite DEF PopTest
  <2>2. CASE m_tasks # <<>>
    <3>1. /\ OnTheirWay \subseteq OnTheirWay' /\ Announcing' = Announcing
          /\ m_tasks' = m_tasks /\ ~m_abort /\ waiting # {}
      BY <1>5, <2>2, QueueAssumption
         DEF PopTest, Goto, OnTheirWay, Announcing, Woken, LockInv, TypeOK, Threads
    <3>2. QED
      BY <3>1, <1>3
  <2>3. QED
    BY <2>1, <2>2
<1>6. ASSUME NEW c \in Consumers, PopBlock(c)
      PROVE  Len(m_tasks') = 0
  BY <1>6 DEF PopBlock, LockInv, PredicateInv
<1>7. ASSUME NEW c \in Consumers, PopFront(c)
      PROVE  Len(m_tasks') <= Cardinality(OnTheirWay') + (IF Announcing' # {} THEN 1 ELSE 0)
  <2>1. m_tasks # <<>> /\ ~m_abort /\ waiting # {} /\ Len(m_tasks') = Len(m_tasks) - 1
    BY <1>7 DEF PopFront, LockInv, PredicateInv, TypeOK
  <2>2. c \in OnTheirWay /\ OnTheirWay' = OnTheirWay \ {c} /\ Announcing' = Announcing
    BY <1>7, QueueAssumption
       DEF PopFront, Goto, OnTheirWay, Announcing, Woken, LockInv, TypeOK, Threads, PredicateInv
  <2>3. Cardinality(OnTheirWay') = Cardinality(OnTheirWay) - 1
    BY <2>2, FS_RemoveElement, OnTheirWayFinite
  <2>4. QED
    BY <1>a, <1>b, <2>1, <2>2, <2>3, OnTheirWayFinite
<1>8. ASSUME NEW c \in Consumers, PopRefuse(c) PROVE FALSE
  BY <1>8 DEF PopRefuse
<1>9. ASSUME NEW k \in Closers, SignalAbort(k) PROVE FALSE
  BY <1>9 DEF SignalAbort, AbortRaise, AbortNotify
<1>10. CASE UNCHANGED vars
  BY <1>10, <1>3 DEF vars, OnTheirWay, Woken, Announcing
<1>11. QED
  BY <1>1, <1>2, <1>3, <1>4, <1>5, <1>6, <1>7, <1>8, <1>9, <1>10, OnTheirWayFinite
     DEF Next, Push, Pop

\* Waking one thread per push strands no value: as long as the queue is not
\* aborted, a blocked thread is matched by others for every stored value
\* (safe_queue.h:24, 32, 39).
THEOREM NothingStranded == Spec => []NoStrandedValue
<1>1. Init => NoStrandedValue
  BY DEF Init, NoStrandedValue
<1>2. QED
  BY <1>1, StrandedStep, LockCorrect, PTL DEF Spec

-----------------------------------------------------------------------------
\* The locked queue implements the FIFO queue its users rely on: each of its
\* steps is a step of BlockingFifo on the mapped variables or a stutter
\* (safe_queue.h:19-57).
THEOREM FifoImplemented == Spec => ImplementsFifo
<1>1. Init => Fifo!Init
  BY DEF Init, Fifo!Init
<1>2. ASSUME LockInv, [Next]_vars PROVE [Fifo!Next]_(Fifo!fifoVars)
  <2> USE DEF Fifo!Next, Fifo!fifoVars
  <2>1. ASSUME NEW p \in Producers, NEW v \in Values, PushEmplace(p, v) PROVE Fifo!Put(v)
    BY <2>1 DEF PushEmplace, Fifo!Put
  <2>2. ASSUME NEW c \in Consumers, PopEnter(c)
        PROVE  Fifo!CallAgain(c) \/ UNCHANGED Fifo!fifoVars
    BY <2>2, <1>2 DEF PopEnter, Fifo!CallAgain, LockInv, TypeOK
  <2>3. ASSUME NEW c \in Consumers, PopRefuse(c) PROVE Fifo!TurnAway(c)
    BY <2>3, <1>2 DEF PopRefuse, Fifo!TurnAway, LockInv, PredicateInv
  <2>4. ASSUME NEW c \in Consumers, PopFront(c) PROVE Fifo!Take(c)
    BY <2>4, <1>2 DEF PopFront, Fifo!Take, LockInv, PredicateInv
  <2>5. ASSUME NEW k \in Closers, AbortRaise(k) PROVE Fifo!Close
    BY <2>5 DEF AbortRaise, Fifo!Close
  <2>6. QED
    BY <2>1, <2>2, <2>3, <2>4, <2>5, <1>2 DEF Next, Push, Pop, SignalAbort, PushCount, PopTest, PopBlock, PopWake,
       PopDiscount, SpuriousWakeup, AbortNotify, vars
<1>3. QED
  BY <1>1, <1>2, LockCorrect, PTL DEF Spec, Fifo!Spec, ImplementsFifo
=============================================================================
