----------------------------- MODULE SafeQueue -----------------------------
(***************************************************************************)
(* SafeQueue of fingerprint/src/common/safe_queue.h at the granularity of  *)
(* its mutex, its condition variable and its two atomics.  The mutex is    *)
(* held from one action to another (owner), so a thread that is between    *)
(* the test of the wait predicate and the block is a state of its own:     *)
(* signalAbort() does not take the mutex and can run right there.          *)
(*                                                                         *)
(* The condition variable is the set of the threads blocked on it: a       *)
(* notified thread leaves the set and competes for the mutex again.        *)
(***************************************************************************)
EXTENDS Naturals, Sequences, FiniteSets

CONSTANTS Producers,  \* threads that push
          Consumers,  \* threads that pop in a loop, as the workers of the pool do
          Closers,    \* threads that call signalAbort once
          Values,     \* what is pushed
          Free,       \* the mutex has no owner
          Nothing,    \* the result of a pop that has not returned
          Refused,    \* pop returned false
          MaxPushes   \* bound of the model: how many pushes happen

ASSUME QueueAssumption ==
    /\ MaxPushes \in Nat
    /\ IsFiniteSet(Consumers)
    /\ Producers \cap Consumers = {}
    /\ Producers \cap Closers = {}
    /\ Consumers \cap Closers = {}
    /\ Free \notin Producers \cup Consumers \cup Closers
    /\ Nothing \notin Values
    /\ Refused \notin Values \cup {Nothing}

Threads == Producers \cup Consumers \cup Closers

VARIABLES m_tasks,    \* the stored values
          m_size,     \* the atomic counter that is read without the mutex
          m_abort,    \* the abort flag
          owner,      \* who holds m_mtx
          waiting,    \* who is blocked on m_cv
          pc,         \* where each thread stands
          value,      \* value[c]: the result of the pop of c
          pushes      \* how many pushes have begun

vars == <<m_tasks, m_size, m_abort, owner, waiting, pc, value, pushes>>

(***************************************************************************)
(* A producer is "out" or has emplaced a value it has not counted yet      *)
(* ("count").  A closer is "out", has raised the flag ("notify") or is     *)
(* "done".  A consumer is "out", evaluates the predicate ("test"), found   *)
(* it false and is about to block ("block"), is blocked or has been woken  *)
(* up ("asleep"), found it true ("take") or has moved a value out that it  *)
(* has not discounted yet ("discount").                                    *)
(***************************************************************************)
ConsumerPc == {"out", "test", "block", "asleep", "take", "discount"}

Woken == {c \in Consumers : pc[c] = "asleep" /\ c \notin waiting}

TypeOK ==
    /\ m_tasks \in Seq(Values)
    /\ m_size \in Nat
    /\ m_abort \in BOOLEAN
    /\ owner \in Threads \cup {Free}
    /\ waiting \subseteq Consumers
    /\ pc \in [Threads -> ConsumerPc \cup {"count", "notify", "done"}]
    /\ \A p \in Producers : pc[p] \in {"out", "count"}
    /\ \A c \in Consumers : pc[c] \in ConsumerPc
    /\ \A k \in Closers : pc[k] \in {"out", "notify", "done"}
    /\ value \in [Consumers -> Values \cup {Nothing, Refused}]
    /\ pushes \in Nat

Init ==
    /\ m_tasks = <<>>
    /\ m_size = 0
    /\ m_abort = FALSE
    /\ owner = Free
    /\ waiting = {}
    /\ pc = [t \in Threads |-> "out"]
    /\ value = [c \in Consumers |-> Nothing]
    /\ pushes = 0

Goto(t, label) == pc' = [pc EXCEPT ![t] = label]

Acquire(t) == owner = Free /\ owner' = t

Release(t) == owner = t /\ owner' = Free

-----------------------------------------------------------------------------
\* push(): lock, emplace ...
PushEmplace(p, v) ==
    /\ pc[p] = "out"
    /\ pushes < MaxPushes
    /\ Acquire(p)
    /\ m_tasks' = Append(m_tasks, v)
    /\ pushes' = pushes + 1
    /\ Goto(p, "count")
    /\ UNCHANGED <<m_size, m_abort, waiting, value>>

\* Mutant: a push that tells nobody.
NotifyNobody == waiting' = waiting

\* notify_one(): any one of the blocked threads, or nobody.
NotifyOne ==
    IF waiting = {} THEN waiting' = waiting
                    ELSE \E c \in waiting : waiting' = waiting \ {c}

\* ... m_size++, notify_one, unlock.
PushCount(p) ==
    /\ pc[p] = "count"
    /\ m_size' = m_size + 1
    /\ NotifyOne
    /\ Release(p)
    /\ Goto(p, "out")
    /\ UNCHANGED <<m_tasks, m_abort, value, pushes>>

\* pop() takes the mutex; the previous result is gone.
PopEnter(c) ==
    /\ pc[c] = "out"
    /\ Acquire(c)
    /\ value' = [value EXCEPT ![c] = Nothing]
    /\ Goto(c, "test")
    /\ UNCHANGED <<m_tasks, m_size, m_abort, waiting, pushes>>

\* The predicate of the wait; m_abort can change while the mutex is held.
PopTest(c) ==
    /\ pc[c] = "test"
    /\ Goto(c, IF m_tasks # <<>> \/ m_abort THEN "take" ELSE "block")
    /\ UNCHANGED <<m_tasks, m_size, m_abort, owner, waiting, value, pushes>>

\* The condition variable releases the mutex and blocks, in one step.
PopBlock(c) ==
    /\ pc[c] = "block"
    /\ Release(c)
    /\ waiting' = waiting \cup {c}
    /\ Goto(c, "asleep")
    /\ UNCHANGED <<m_tasks, m_size, m_abort, value, pushes>>

\* A notified thread takes the mutex again and evaluates the predicate again.
PopWake(c) ==
    /\ c \in Woken
    /\ Acquire(c)
    /\ Goto(c, "test")
    /\ UNCHANGED <<m_tasks, m_size, m_abort, waiting, value, pushes>>

\* What the standard library allows any wait to do; no fairness is assumed.
SpuriousWakeup(c) ==
    /\ c \in waiting
    /\ waiting' = waiting \ {c}
    /\ UNCHANGED <<m_tasks, m_size, m_abort, owner, pc, value, pushes>>

\* if (m_abort) return false
PopRefuse(c) ==
    /\ pc[c] = "take"
    /\ m_abort
    /\ value' = [value EXCEPT ![c] = Refused]
    /\ Release(c)
    /\ Goto(c, "out")
    /\ UNCHANGED <<m_tasks, m_size, m_abort, waiting, pushes>>

\* Mutant: the youngest value first.
PopBack(c) ==
    /\ pc[c] = "take"
    /\ ~m_abort
    /\ value' = [value EXCEPT ![c] = m_tasks[Len(m_tasks)]]
    /\ m_tasks' = SubSeq(m_tasks, 1, Len(m_tasks) - 1)
    /\ Goto(c, "discount")
    /\ UNCHANGED <<m_size, m_abort, owner, waiting, pushes>>

\* value = std::move(m_tasks.front()); m_tasks.pop() ...
PopFront(c) ==
    /\ pc[c] = "take"
    /\ ~m_abort
    /\ value' = [value EXCEPT ![c] = Head(m_tasks)]
    /\ m_tasks' = Tail(m_tasks)
    /\ Goto(c, "discount")
    /\ UNCHANGED <<m_size, m_abort, owner, waiting, pushes>>

\* Mutant: a pop that is discounted twice.
PopDiscountTwice(c) ==
    /\ pc[c] = "discount"
    /\ m_size' = m_size - 2
    /\ Release(c)
    /\ Goto(c, "out")
    /\ UNCHANGED <<m_tasks, m_abort, waiting, value, pushes>>

\* Mutant: a pop that is not discounted.
PopUncounted(c) ==
    /\ pc[c] = "discount"
    /\ Release(c)
    /\ Goto(c, "out")
    /\ UNCHANGED <<m_tasks, m_size, m_abort, waiting, value, pushes>>

\* ... m_size--, unlock, return true.
PopDiscount(c) ==
    /\ pc[c] = "discount"
    /\ m_size' = m_size - 1
    /\ Release(c)
    /\ Goto(c, "out")
    /\ UNCHANGED <<m_tasks, m_abort, waiting, value, pushes>>

\* signalAbort(): the flag is raised without the mutex ...
AbortRaise(k) ==
    /\ pc[k] = "out"
    /\ m_abort' = TRUE
    /\ Goto(k, "notify")
    /\ UNCHANGED <<m_tasks, m_size, owner, waiting, value, pushes>>

\* ... and so is everybody notified.
AbortNotify(k) ==
    /\ pc[k] = "notify"
    /\ waiting' = {}
    /\ Goto(k, "done")
    /\ UNCHANGED <<m_tasks, m_size, m_abort, owner, value, pushes>>

-----------------------------------------------------------------------------
Push(p) == (\E v \in Values : PushEmplace(p, v)) \/ PushCount(p)

Pop(c) ==
    \/ PopEnter(c) \/ PopTest(c) \/ PopBlock(c) \/ PopWake(c)
    \/ PopRefuse(c) \/ PopFront(c) \/ PopDiscount(c)

SignalAbort(k) == AbortRaise(k) \/ AbortNotify(k)

Next ==
    \/ \E p \in Producers : Push(p)
    \/ \E c \in Consumers : Pop(c) \/ SpuriousWakeup(c)
    \/ \E k \in Closers : SignalAbort(k)

Spec == Init /\ [][Next]_vars

(***************************************************************************)
(* A thread that can run runs.  Weak fairness gives no thread a right to   *)
(* the mutex: somebody gets it, not everybody.  Nobody has to start a push *)
(* or an abort, but one that has begun is finished.                        *)
(***************************************************************************)
FairSpec ==
    /\ Spec
    /\ \A p \in Producers : WF_vars(PushCount(p))
    /\ \A c \in Consumers : WF_vars(Pop(c))
    /\ \A k \in Closers : WF_vars(AbortNotify(k))

-----------------------------------------------------------------------------
\* The mutex is held exactly by the thread inside the critical section.
Critical == {"count", "test", "block", "take", "discount"}

MutexInv ==
    \A t \in Threads : (owner = t) <=> pc[t] \in Critical

\* A blocked thread stands at the wait, and a thread that is about to block
\* or to take knows what it found: nobody else could change the deque.
PredicateInv ==
    /\ \A c \in waiting : pc[c] = "asleep"
    /\ \A c \in Consumers : pc[c] = "block" => m_tasks = <<>>
    /\ \A c \in Consumers : pc[c] = "take" => m_tasks # <<>> \/ m_abort
    /\ \A c \in Consumers :
          pc[c] \in {"test", "block", "asleep", "take"} => value[c] = Nothing

(***************************************************************************)
(* getCurrentSize() and isEmpty() read m_size without the mutex            *)
(* (safe_queue.h:64-72) and the dispatch order and the connection pool     *)
(* rest on what they return: the counter is off by at most the one value   *)
(* whose push or pop is under way, and exact whenever the mutex is free.   *)
(***************************************************************************)
SizeTracksTasks ==
    /\ owner = Free => m_size = Len(m_tasks)
    /\ \A p \in Producers : pc[p] = "count" => m_size = Len(m_tasks) - 1
    /\ \A c \in Consumers :
          /\ pc[c] \in {"test", "block", "take"} => m_size = Len(m_tasks)
          /\ pc[c] = "discount" => m_size = Len(m_tasks) + 1

(***************************************************************************)
(* notify_one (safe_queue.h:24, 32) is enough: while the queue is not      *)
(* aborted, a thread stays blocked only if for every stored value another  *)
(* thread is on its way to take it, or the push of it has yet to notify.   *)
(* A wake-up is never swallowed by a thread that does not take a value.    *)
(***************************************************************************)
OnTheirWay == {c \in Consumers : pc[c] \in {"test", "take"}} \cup Woken
Announcing == {p \in Producers : pc[p] = "count"}

NoStrandedValue ==
    ~m_abort /\ waiting # {} =>
        Len(m_tasks) <= Cardinality(OnTheirWay) + (IF Announcing # {} THEN 1 ELSE 0)

(***************************************************************************)
(* Whatever is stored is handed out sooner or later unless the queue is    *)
(* aborted, with threads that call pop again and again (process() of the   *)
(* thread pool): no interleaving of notify_one with late comers leaves     *)
(* values behind with everybody blocked.                                   *)
(***************************************************************************)
QueueDrains == m_tasks # <<>> ~> (m_tasks = <<>> \/ m_abort)

(***************************************************************************)
(* The queue under its mutex, its counter and its condition variable is a  *)
(* FIFO queue that refuses only after an abort (safe_queue.h:19-57).       *)
(***************************************************************************)
Fifo == INSTANCE BlockingFifo WITH items <- m_tasks, closed <- m_abort, outcome <- value

ImplementsFifo == Fifo!Spec
=============================================================================
