----------------------------- MODULE ThreadPool -----------------------------
(***************************************************************************)
(* ThreadPool (fingerprint/src/thread_pool/pool) over QueueDispatch        *)
(* (fingerprint/src/thread_pool/dispatch): threads that submit, workers    *)
(* that run process(), somebody who pauses and resumes, and the            *)
(* destructor.                                                             *)
(*                                                                         *)
(* A queue is what BlockingFifo promises, with one detail of SafeQueue     *)
(* kept: a worker between the test of the wait predicate and the block     *)
(* ("block") holds the mutex of its queue, which stops a push but not      *)
(* signalAbort().  The same window exists on the two condition variables   *)
(* of the pool, whose notifiers take no mutex either.                      *)
(*                                                                         *)
(* m_set is the sequence of the queues in the order of the tree.  Its      *)
(* comparator reads sizes that workers change while the queues are in the  *)
(* tree, so the order goes stale, and an insertion compares twice.         *)
(***************************************************************************)
EXTENDS Integers, Sequences, FiniteSets

CONSTANTS Queues,      \* the ids of the queues
          Workers,     \* the threads of the pool
          QueueOf,     \* QueueOf[w]: the queue w serves
          Submitters,  \* threads outside the pool
          Jobs,        \* what they submit, each once
          NestedJobs,  \* what a running job may submit, each once
          Nobody,      \* no job, no queue
          IsGraceful,  \* the pool waits for its jobs when destroyed
          MaxPauses    \* bound of the model: how often somebody pauses

ASSUME ThreadPoolAssumption ==
    /\ Queues \subseteq Nat
    /\ IsFiniteSet(Queues)
    /\ Queues # {}
    /\ IsFiniteSet(Workers) /\ IsFiniteSet(Submitters)
    /\ IsFiniteSet(Jobs) /\ IsFiniteSet(NestedJobs)
    /\ QueueOf \in [Workers -> Queues]
    /\ Jobs \cap NestedJobs = {}
    /\ Nobody \notin Jobs \cup NestedJobs \cup Queues
    /\ IsGraceful \in BOOLEAN
    /\ MaxPauses \in Nat

VARIABLES m_set,            \* the queues of the dispatch, in the order of the tree
          tasks,            \* tasks[q]: the jobs in queue q
          aborted,          \* aborted[q]: m_abort of queue q
          queueWaiting,     \* workers blocked on the condition of their queue
          m_map,            \* workers that have entered themselves in the map
          m_jobCount, m_runningJobCount,
          m_isPausing, m_shutDown, m_isInitialized,
          pauseWaiting,     \* workers blocked on m_pauseCv
          pauses,           \* how often pause() has been called
          wpc, job, child,  \* a worker, the job it has and the one that job submitted
          spc, sjob, squeue, spos,  \* a submitter, its job, the queue it took out of
                                    \* m_set and where the insertion goes
          cpc,              \* the thread that pauses and resumes
          dpc, dwaiting, dtodo, dqueue,  \* the destructor, blocked on m_waitCv or not,
                                    \* the entries of m_map it has yet to abort, and
                                    \* the queue it is aborting
          fresh, ran, dropped,      \* jobs not submitted, run, turned down
          crashed           \* extract() of an empty set: undefined behaviour

dispatchVars == <<m_set, tasks, aborted, queueWaiting, m_map>>
counters == <<m_jobCount, m_runningJobCount>>
flags == <<m_isPausing, m_shutDown, m_isInitialized>>
pauseVars == <<pauseWaiting, pauses, cpc>>
workerVars == <<wpc, job, child>>
submitVars == <<spc, sjob, squeue, spos>>
destroyVars == <<dpc, dwaiting, dtodo, dqueue>>
jobVars == <<fresh, ran, dropped>>

vars == <<dispatchVars, counters, flags, pauseVars, workerVars, submitVars,
          destroyVars, jobVars, crashed>>

AllJobs == Jobs \cup NestedJobs

(***************************************************************************)
(* A worker: "spawned", at the head of the loop ("loop"), before and in    *)
(* the wait for the end of a pause ("pauseTest", "pauseBlock",             *)
(* "pauseAsleep"), in pop() ("pop", "block", "asleep"), with a job that is *)
(* still counted as waiting ("got"), as nothing ("uncounted"), as running  *)
(* ("running"), that has ended ("ended"), about to notify ("notify"), or   *)
(* "exited".                                                               *)
(***************************************************************************)
WorkerPc == {"spawned", "loop", "pauseTest", "pauseBlock", "pauseAsleep", "pop", "block",
             "asleep", "got", "uncounted", "running", "ended", "notify", "exited"}
SubmitterPc == {"out", "count", "extract", "push", "locate", "link", "lost"}
DestructorPc == {"idle", "waitTest", "waitBlock", "waitAsleep", "check", "shut",
                 "lock", "clear", "join", "done"}

TypeOK ==
    /\ m_set \in Seq(Queues)
    /\ tasks \in [Queues -> Seq(Jobs)]
    /\ aborted \in [Queues -> BOOLEAN]
    /\ queueWaiting \subseteq Workers /\ pauseWaiting \subseteq Workers
    /\ m_map \subseteq Workers
    /\ m_jobCount \in Nat /\ m_runningJobCount \in Nat
    /\ m_isPausing \in BOOLEAN /\ m_shutDown \in BOOLEAN /\ m_isInitialized \in BOOLEAN
    /\ pauses \in Nat
    /\ wpc \in [Workers -> WorkerPc]
    /\ job \in [Workers -> Jobs \cup {Nobody}]
    /\ child \in [Workers -> NestedJobs \cup {Nobody}]
    /\ spc \in [Submitters -> SubmitterPc]
    /\ sjob \in [Submitters -> Jobs \cup {Nobody}]
    /\ squeue \in [Submitters -> Queues \cup {Nobody}]
    /\ spos \in [Submitters -> Nat]
    /\ cpc \in {"out", "pausing", "notify"}
    /\ dpc \in DestructorPc
    /\ dwaiting \in BOOLEAN
    /\ dtodo \subseteq Workers
    /\ dqueue \in Queues \cup {Nobody}
    /\ fresh \subseteq AllJobs /\ ran \subseteq AllJobs /\ dropped \subseteq NestedJobs
    /\ crashed \in BOOLEAN

\* The constructor has made the queues, in the order of their ids, and has
\* started the threads.
Init ==
    /\ m_set \in {s \in [1..Cardinality(Queues) -> Queues] :
                    \A i, j \in 1..Cardinality(Queues) : i < j => s[i] < s[j]}
    /\ tasks = [q \in Queues |-> <<>>]
    /\ aborted = [q \in Queues |-> FALSE]
    /\ queueWaiting = {} /\ pauseWaiting = {} /\ m_map = {}
    /\ m_jobCount = 0 /\ m_runningJobCount = 0
    /\ m_isPausing = FALSE /\ m_shutDown = FALSE /\ m_isInitialized = FALSE
    /\ pauses = 0
    /\ wpc = [w \in Workers |-> "spawned"]
    /\ job = [w \in Workers |-> Nobody]
    /\ child = [w \in Workers |-> Nobody]
    /\ spc = [s \in Submitters |-> "out"]
    /\ sjob = [s \in Submitters |-> Nobody]
    /\ squeue = [s \in Submitters |-> Nobody]
    /\ spos = [s \in Submitters |-> 0]
    /\ cpc = "out"
    /\ dpc = "idle" /\ dwaiting = FALSE /\ dtodo = {} /\ dqueue = Nobody
    /\ fresh = AllJobs /\ ran = {} /\ dropped = {}
    /\ crashed = FALSE

\* The last statement of the constructor.
Construct ==
    /\ dpc = "idle"
    /\ ~m_isInitialized
    /\ m_isInitialized' = TRUE
    /\ UNCHANGED <<dispatchVars, counters, m_isPausing, m_shutDown, pauseVars, workerVars,
                   submitVars, destroyVars, jobVars, crashed>>

-----------------------------------------------------------------------------
(* submitTask() from a thread outside the pool. *)

SGoto(s, label) == spc' = [spc EXCEPT ![s] = label]

\* The pool is alive as long as somebody may submit, so the flags let the job in.
SubmitJob(s, j) ==
    /\ m_isInitialized
    /\ dpc = "idle"
    /\ spc[s] = "out"
    /\ j \in fresh \cap Jobs
    /\ fresh' = fresh \ {j}
    /\ sjob' = [sjob EXCEPT ![s] = j]
    /\ SGoto(s, "count")
    /\ UNCHANGED <<dispatchVars, counters, flags, pauseVars, workerVars, squeue, spos,
                   destroyVars, ran, dropped, crashed>>

\* m_jobCount++
SubmitCount(s) ==
    /\ spc[s] = "count"
    /\ m_jobCount' = m_jobCount + 1
    /\ SGoto(s, "extract")
    /\ UNCHANGED <<dispatchVars, m_runningJobCount, flags, pauseVars, workerVars, sjob, squeue,
                   spos, destroyVars, jobVars, crashed>>

\* m_setMtx is held between the search for the place and the link.
SetIsFree == \A s \in Submitters : spc[s] # "link"

\* Mutant: the least busy queue is read and not extracted.
ReadLeastBusy(s) ==
    /\ spc[s] = "extract"
    /\ SetIsFree
    /\ m_set # <<>>
    /\ squeue' = [squeue EXCEPT ![s] = Head(m_set)]
    /\ SGoto(s, "push")
    /\ UNCHANGED <<dispatchVars, counters, flags, pauseVars, workerVars, sjob, spos,
                   destroyVars, jobVars, crashed>>

\* extractLeastBusy(): begin() of an empty set is end(), which nobody may
\* extract; nothing is said of a submitter that does.
ExtractLeastBusy(s) ==
    /\ spc[s] = "extract"
    /\ SetIsFree
    /\ IF m_set = <<>>
         THEN crashed' = TRUE /\ SGoto(s, "lost") /\ UNCHANGED <<m_set, squeue>>
         ELSE /\ squeue' = [squeue EXCEPT ![s] = Head(m_set)]
              /\ m_set' = Tail(m_set)
              /\ SGoto(s, "push")
              /\ UNCHANGED crashed
    /\ UNCHANGED <<tasks, aborted, queueWaiting, m_map, counters, flags, pauseVars, workerVars,
                   sjob, spos, destroyVars, jobVars>>

QueueIsFree(q) == \A w \in Workers : wpc[w] = "block" => QueueOf[w] # q

Waiters(q) == {w \in queueWaiting : QueueOf[w] = q}

\* Mutant: a push that tells nobody.
NotifyNobody(q) == UNCHANGED queueWaiting

\* notify_one() on the condition of queue q.
NotifyOne(q) ==
    IF Waiters(q) = {} THEN UNCHANGED queueWaiting
                       ELSE \E w \in Waiters(q) : queueWaiting' = queueWaiting \ {w}

\* queue->push(task) and its notify_one.
PushJob(s) ==
    LET q == squeue[s] IN
    /\ spc[s] = "push"
    /\ QueueIsFree(q)
    /\ tasks' = [tasks EXCEPT ![q] = Append(@, sjob[s])]
    /\ NotifyOne(q)
    /\ sjob' = [sjob EXCEPT ![s] = Nobody]
    /\ SGoto(s, "locate")
    /\ UNCHANGED <<m_set, aborted, m_map, counters, flags, pauseVars, workerVars, squeue, spos,
                   destroyVars, jobVars, crashed>>

\* QueueCompare: by current size, then by id.
Less(q, r) ==
    \/ Len(tasks[q]) < Len(tasks[r])
    \/ Len(tasks[q]) = Len(tasks[r]) /\ q < r

\* insertQueue(): the descent stops at a place between two neighbours that it
\* has compared with the new queue; in a stale order there may be several.
InsertLocate(s) ==
    /\ spc[s] = "locate"
    /\ SetIsFree
    /\ \E i \in 0..Len(m_set) :
          /\ i > 0 => ~Less(squeue[s], m_set[i])
          /\ i < Len(m_set) => Less(squeue[s], m_set[i + 1])
          /\ spos' = [spos EXCEPT ![s] = i]
    /\ SGoto(s, "link")
    /\ UNCHANGED <<dispatchVars, counters, flags, pauseVars, workerVars, sjob, squeue,
                   destroyVars, jobVars, crashed>>

\* Mutant: begin() has no predecessor to compare with.
IsUniqueAfter(q, i) == i > 0 /\ Less(m_set[i], q)

\* The predecessor is compared once more, with the sizes of now: unless it is
\* smaller the set is taken to hold an equal element.
IsUnique(q, i) == i > 0 => Less(m_set[i], q)

\* A queue that is not unique is not inserted.
InsertLink(s) ==
    LET i == spos[s] IN
    /\ spc[s] = "link"
    /\ m_set' = IF IsUnique(squeue[s], i)
                  THEN SubSeq(m_set, 1, i) \o <<squeue[s]>> \o SubSeq(m_set, i + 1, Len(m_set))
                  ELSE m_set
    /\ squeue' = [squeue EXCEPT ![s] = Nobody]
    /\ spos' = [spos EXCEPT ![s] = 0]
    /\ SGoto(s, "out")
    /\ UNCHANGED <<tasks, aborted, queueWaiting, m_map, counters, flags, pauseVars, workerVars,
                   sjob, destroyVars, jobVars, crashed>>

-----------------------------------------------------------------------------
(* process(), the loop of a worker. *)

WGoto(w, label) == wpc' = [wpc EXCEPT ![w] = label]

\* assignThreadIdToQueue(); clear() holds m_mapMtx over its loop.
Register(w) ==
    /\ wpc[w] = "spawned"
    /\ dpc # "clear"
    /\ m_map' = m_map \cup {w}
    /\ WGoto(w, "loop")
    /\ UNCHANGED <<m_set, tasks, aborted, queueWaiting, counters, flags, pauseVars, job, child,
                   submitVars, destroyVars, jobVars, crashed>>

\* Pausing is looked at first, then the shutdown, then the initialization; an
\* uninitialized pool makes the worker go round.
LoopHead(w) ==
    /\ wpc[w] = "loop"
    /\ \/ m_isPausing /\ WGoto(w, "pauseTest")
       \/ ~m_isPausing /\ m_shutDown /\ WGoto(w, "exited")
       \/ ~m_isPausing /\ ~m_shutDown /\ m_isInitialized /\ WGoto(w, "pop")
    /\ UNCHANGED <<dispatchVars, counters, flags, pauseVars, job, child, submitVars,
                   destroyVars, jobVars, crashed>>

\* m_pauseCv.wait(): a worker that need not wait goes on to pop without
\* looking at the shutdown.
PauseTest(w) ==
    /\ wpc[w] = "pauseTest"
    /\ WGoto(w, IF m_isPausing THEN "pauseBlock" ELSE "pop")
    /\ UNCHANGED <<dispatchVars, counters, flags, pauseVars, job, child, submitVars,
                   destroyVars, jobVars, crashed>>

PauseBlock(w) ==
    /\ wpc[w] = "pauseBlock"
    /\ pauseWaiting' = pauseWaiting \cup {w}
    /\ WGoto(w, "pauseAsleep")
    /\ UNCHANGED <<dispatchVars, counters, flags, pauses, cpc, job, child, submitVars,
                   destroyVars, jobVars, crashed>>

PauseWake(w) ==
    /\ wpc[w] = "pauseAsleep"
    /\ w \notin pauseWaiting
    /\ WGoto(w, "pauseTest")
    /\ UNCHANGED <<dispatchVars, counters, flags, pauseVars, job, child, submitVars,
                   destroyVars, jobVars, crashed>>

\* Mutant: front() without pop().
PopFront(w) ==
    /\ wpc[w] = "pop"
    /\ QueueIsFree(QueueOf[w])
    /\ ~aborted[QueueOf[w]]
    /\ tasks[QueueOf[w]] # <<>>
    /\ job' = [job EXCEPT ![w] = Head(tasks[QueueOf[w]])]
    /\ WGoto(w, "got")
    /\ UNCHANGED <<dispatchVars, counters, flags, pauseVars, child, submitVars, destroyVars,
                   jobVars, crashed>>

\* extractTaskByThreadId(): pop() from the queue of the worker.
PopTake(w) ==
    LET q == QueueOf[w] IN
    /\ wpc[w] = "pop"
    /\ QueueIsFree(q)
    /\ ~aborted[q]
    /\ tasks[q] # <<>>
    /\ job' = [job EXCEPT ![w] = Head(tasks[q])]
    /\ tasks' = [tasks EXCEPT ![q] = Tail(@)]
    /\ WGoto(w, "got")
    /\ UNCHANGED <<m_set, aborted, queueWaiting, m_map, counters, flags, pauseVars, child,
                   submitVars, destroyVars, jobVars, crashed>>

\* An aborted queue yields no task, even if it holds one.
PopRefuse(w) ==
    /\ wpc[w] = "pop"
    /\ QueueIsFree(QueueOf[w])
    /\ aborted[QueueOf[w]]
    /\ WGoto(w, "loop")
    /\ UNCHANGED <<dispatchVars, counters, flags, pauseVars, job, child, submitVars,
                   destroyVars, jobVars, crashed>>

PopTest(w) ==
    LET q == QueueOf[w] IN
    /\ wpc[w] = "pop"
    /\ QueueIsFree(q)
    /\ ~aborted[q] /\ tasks[q] = <<>>
    /\ WGoto(w, "block")
    /\ UNCHANGED <<dispatchVars, counters, flags, pauseVars, job, child, submitVars,
                   destroyVars, jobVars, crashed>>

PopBlock(w) ==
    /\ wpc[w] = "block"
    /\ queueWaiting' = queueWaiting \cup {w}
    /\ WGoto(w, "asleep")
    /\ UNCHANGED <<m_set, tasks, aborted, m_map, counters, flags, pauseVars, job, child,
                   submitVars, destroyVars, jobVars, crashed>>

PopWake(w) ==
    /\ wpc[w] = "asleep"
    /\ w \notin queueWaiting
    /\ WGoto(w, "pop")
    /\ UNCHANGED <<dispatchVars, counters, flags, pauseVars, job, child, submitVars,
                   destroyVars, jobVars, crashed>>

\* Mutant: a job that stays counted.
JobCounted(w) ==
    /\ wpc[w] = "got"
    /\ WGoto(w, "uncounted")
    /\ UNCHANGED <<dispatchVars, counters, flags, pauseVars, job, child, submitVars,
                   destroyVars, jobVars, crashed>>

\* m_jobCount--
JobUncount(w) ==
    /\ wpc[w] = "got"
    /\ m_jobCount' = m_jobCount - 1
    /\ WGoto(w, "uncounted")
    /\ UNCHANGED <<dispatchVars, m_runningJobCount, flags, pauseVars, job, child, submitVars,
                   destroyVars, jobVars, crashed>>

\* m_runningJobCount++
JobStart(w) ==
    /\ wpc[w] = "uncounted"
    /\ m_runningJobCount' = m_runningJobCount + 1
    /\ WGoto(w, "running")
    /\ UNCHANGED <<dispatchVars, m_jobCount, flags, pauseVars, job, child, submitVars,
                   destroyVars, jobVars, crashed>>

\* submitTask() from a worker: std::async instead of a queue, or nothing at
\* all once the pool shuts down.
SubmitNested(w, j) ==
    /\ wpc[w] = "running"
    /\ child[w] = Nobody
    /\ j \in fresh \cap NestedJobs
    /\ fresh' = fresh \ {j}
    /\ IF m_shutDown THEN dropped' = dropped \cup {j} /\ UNCHANGED child
                     ELSE child' = [child EXCEPT ![w] = j] /\ UNCHANGED dropped
    /\ UNCHANGED <<dispatchVars, counters, flags, pauseVars, wpc, job, submitVars,
                   destroyVars, ran, crashed>>

\* The thread of std::async.
AsyncRun(w) ==
    /\ child[w] # Nobody
    /\ ran' = ran \cup {child[w]}
    /\ child' = [child EXCEPT ![w] = Nobody]
    /\ UNCHANGED <<dispatchVars, counters, flags, pauseVars, wpc, job, submitVars,
                   destroyVars, fresh, dropped, crashed>>

\* task() returns; the future of std::async has been waited for.
JobEnd(w) ==
    /\ wpc[w] = "running"
    /\ child[w] = Nobody
    /\ ran' = ran \cup {job[w]}
    /\ job' = [job EXCEPT ![w] = Nobody]
    /\ WGoto(w, "ended")
    /\ UNCHANGED <<dispatchVars, counters, flags, pauseVars, child, submitVars,
                   destroyVars, fresh, dropped, crashed>>

\* m_runningJobCount-- ...
JobDiscount(w) ==
    /\ wpc[w] = "ended"
    /\ m_runningJobCount' = m_runningJobCount - 1
    /\ WGoto(w, "notify")
    /\ UNCHANGED <<dispatchVars, m_jobCount, flags, pauseVars, job, child, submitVars,
                   destroyVars, jobVars, crashed>>

\* ... and m_waitCv.notify_one(), without m_waitMtx.
JobNotify(w) ==
    /\ wpc[w] = "notify"
    /\ dwaiting' = FALSE
    /\ WGoto(w, "loop")
    /\ UNCHANGED <<dispatchVars, counters, flags, pauseVars, job, child, submitVars, dpc,
                   dtodo, dqueue, jobVars, crashed>>

-----------------------------------------------------------------------------
(* pause() and resume(), neither of which takes m_pauseMtx. *)

Pause ==
    /\ m_isInitialized /\ dpc = "idle"
    /\ cpc = "out" /\ pauses < MaxPauses
    /\ pauses' = pauses + 1
    /\ m_isPausing' = TRUE
    /\ cpc' = "pausing"
    /\ UNCHANGED <<dispatchVars, counters, m_shutDown, m_isInitialized, pauseWaiting,
                   workerVars, submitVars, destroyVars, jobVars, crashed>>

ResumeClear ==
    /\ cpc = "pausing"
    /\ m_isPausing' = FALSE
    /\ cpc' = "notify"
    /\ UNCHANGED <<dispatchVars, counters, m_shutDown, m_isInitialized, pauseWaiting, pauses,
                   workerVars, submitVars, destroyVars, jobVars, crashed>>

ResumeNotify ==
    /\ cpc = "notify"
    /\ pauseWaiting' = {}
    /\ cpc' = "out"
    /\ UNCHANGED <<dispatchVars, counters, flags, pauses, workerVars, submitVars,
                   destroyVars, jobVars, crashed>>

-----------------------------------------------------------------------------
(* ~ThreadPool() *)

\* Nobody calls a pool that is being destroyed, except its own jobs.
Destroy ==
    /\ m_isInitialized /\ dpc = "idle"
    /\ \A s \in Submitters : spc[s] = "out"
    /\ cpc = "out"
    /\ dpc' = IF IsGraceful THEN "waitTest" ELSE "shut"
    /\ UNCHANGED <<dispatchVars, counters, flags, pauseVars, workerVars, submitVars, dwaiting,
                   dtodo, dqueue, jobVars, crashed>>

\* Mutant: queued jobs are forgotten.
WaitTestRunning ==
    /\ dpc = "waitTest"
    /\ dpc' = IF m_runningJobCount = 0 THEN "check" ELSE "waitBlock"
    /\ UNCHANGED <<dispatchVars, counters, flags, pauseVars, workerVars, submitVars, dwaiting,
                   dtodo, dqueue, jobVars, crashed>>

\* waitForAll(): the predicate ...
WaitTest ==
    /\ dpc = "waitTest"
    /\ dpc' = IF m_jobCount = 0 /\ m_runningJobCount = 0 THEN "check" ELSE "waitBlock"
    /\ UNCHANGED <<dispatchVars, counters, flags, pauseVars, workerVars, submitVars, dwaiting,
                   dtodo, dqueue, jobVars, crashed>>

WaitBlock ==
    /\ dpc = "waitBlock"
    /\ dwaiting' = TRUE
    /\ dpc' = "waitAsleep"
    /\ UNCHANGED <<dispatchVars, counters, flags, pauseVars, workerVars, submitVars, dtodo, dqueue,
                   jobVars, crashed>>

WaitWake ==
    /\ dpc = "waitAsleep"
    /\ ~dwaiting
    /\ dpc' = "waitTest"
    /\ UNCHANGED <<dispatchVars, counters, flags, pauseVars, workerVars, submitVars, dwaiting,
                   dtodo, dqueue, jobVars, crashed>>

\* The destructor looks at the counters once more and logs an ERROR unless
\* both are 0; it goes on either way.
WaitCheck ==
    /\ dpc = "check"
    /\ dpc' = "shut"
    /\ UNCHANGED <<dispatchVars, counters, flags, pauseVars, workerVars, submitVars, dwaiting,
                   dtodo, dqueue, jobVars, crashed>>

ShutDown ==
    /\ dpc = "shut"
    /\ m_shutDown' = TRUE
    /\ dpc' = "lock"
    /\ UNCHANGED <<dispatchVars, counters, m_isPausing, m_isInitialized, pauseVars, workerVars,
                   submitVars, dwaiting, dtodo, dqueue, jobVars, crashed>>

\* clear() takes m_mapMtx ...
ClearBegin ==
    /\ dpc = "lock"
    /\ dtodo' = m_map
    /\ dpc' = "clear"
    /\ UNCHANGED <<dispatchVars, counters, flags, pauseVars, workerVars, submitVars, dwaiting,
                   dqueue, jobVars, crashed>>

\* ... and calls signalAbort() on the queue of every entry, in any order: the
\* flag first ...
ClearRaise(w) ==
    /\ dpc = "clear"
    /\ dqueue = Nobody
    /\ w \in dtodo
    /\ aborted' = [aborted EXCEPT ![QueueOf[w]] = TRUE]
    /\ dtodo' = dtodo \ {w}
    /\ dqueue' = QueueOf[w]
    /\ UNCHANGED <<m_set, tasks, queueWaiting, m_map, counters, flags, pauseVars, workerVars,
                   submitVars, dpc, dwaiting, jobVars, crashed>>

\* ... then notify_all, to those who are asleep by now.
ClearNotify ==
    /\ dqueue # Nobody
    /\ queueWaiting' = queueWaiting \ Waiters(dqueue)
    /\ dqueue' = Nobody
    /\ UNCHANGED <<m_set, tasks, aborted, m_map, counters, flags, pauseVars, workerVars,
                   submitVars, dpc, dwaiting, dtodo, jobVars, crashed>>

ClearEnd ==
    /\ dpc = "clear"
    /\ dqueue = Nobody
    /\ dtodo = {}
    /\ dpc' = "join"
    /\ UNCHANGED <<dispatchVars, counters, flags, pauseVars, workerVars, submitVars, dwaiting,
                   dtodo, dqueue, jobVars, crashed>>

JoinAll ==
    /\ dpc = "join"
    /\ \A w \in Workers : wpc[w] = "exited"
    /\ m_isInitialized' = FALSE
    /\ dpc' = "done"
    /\ UNCHANGED <<dispatchVars, counters, m_isPausing, m_shutDown, pauseVars, workerVars,
                   submitVars, dwaiting, dtodo, dqueue, jobVars, crashed>>

\* A wait on any of the three condition variables may end by itself.
SpuriousWakeup ==
    /\ \/ \E w \in queueWaiting : queueWaiting' = queueWaiting \ {w} /\ UNCHANGED <<pauseWaiting, dwaiting>>
       \/ \E w \in pauseWaiting : pauseWaiting' = pauseWaiting \ {w} /\ UNCHANGED <<queueWaiting, dwaiting>>
       \/ dwaiting /\ dwaiting' = FALSE /\ UNCHANGED <<queueWaiting, pauseWaiting>>
    /\ UNCHANGED <<m_set, tasks, aborted, m_map, counters, flags, pauses, cpc, workerVars,
                   submitVars, dpc, dtodo, dqueue, jobVars, crashed>>

-----------------------------------------------------------------------------
SubmitterStep(s) ==
    \/ SubmitCount(s) \/ ExtractLeastBusy(s) \/ PushJob(s) \/ InsertLocate(s) \/ InsertLink(s)

WorkerStep(w) ==
    \/ Register(w) \/ LoopHead(w) \/ PauseTest(w) \/ PauseBlock(w) \/ PauseWake(w)
    \/ PopTake(w) \/ PopRefuse(w) \/ PopTest(w) \/ PopBlock(w) \/ PopWake(w)
    \/ JobUncount(w) \/ JobStart(w) \/ JobEnd(w) \/ JobDiscount(w) \/ JobNotify(w)

DestructorStep ==
    \/ WaitTest \/ WaitBlock \/ WaitWake \/ WaitCheck \/ ShutDown
    \/ ClearBegin \/ (\E w \in Workers : ClearRaise(w)) \/ ClearNotify \/ ClearEnd \/ JoinAll

ResumeStep == ResumeClear \/ ResumeNotify

Next ==
    \/ Construct
    \/ \E s \in Submitters : SubmitterStep(s) \/ \E j \in Jobs : SubmitJob(s, j)
    \/ \E w \in Workers : \/ WorkerStep(w)
                         \/ AsyncRun(w)
                         \/ \E j \in NestedJobs : SubmitNested(w, j)
    \/ Pause \/ ResumeStep
    \/ Destroy \/ DestructorStep
    \/ SpuriousWakeup

Spec == Init /\ [][Next]_vars

\* Every thread that can go on goes on, and waits do not end by themselves for
\* ever.  Nobody has to submit, to pause or to destroy the pool.
FairSpec ==
    /\ Spec
    /\ WF_vars(Construct)
    /\ \A s \in Submitters : WF_vars(SubmitterStep(s))
    /\ \A w \in Workers : WF_vars(WorkerStep(w)) /\ WF_vars(AsyncRun(w))
    /\ WF_vars(ResumeStep)
    /\ WF_vars(DestructorStep)
    /\ <>[][~SpuriousWakeup]_vars

-----------------------------------------------------------------------------
(* Where a job is: exactly one of these places. *)

Elements(seq) == {seq[i] : i \in 1..Len(seq)}

Submitted == {sjob[s] : s \in Submitters} \ {Nobody}
Queued == UNION {Elements(tasks[q]) : q \in Queues}
QueuedCount == Cardinality({x \in Queues \X (1..Cardinality(Jobs)) : x[2] <= Len(tasks[x[1]])})
Taken == {job[w] : w \in Workers} \ {Nobody}
Spawned == {child[w] : w \in Workers} \ {Nobody}

(***************************************************************************)
(* A job that has been submitted is never lost and never run twice: it is  *)
(* in the hand of its submitter, at one place of one queue, in the hand of *)
(* one worker or of one std::async, run, or turned down, and in one of     *)
(* these only (thread_pool.h:28-45, thread_pool.cpp:44-56).                *)
(***************************************************************************)
JobInOnePlace ==
    /\ AllJobs = UNION {fresh, Submitted, Queued, Taken, Spawned, ran, dropped}
    /\ Cardinality(fresh) + Cardinality(ran) + Cardinality(dropped)
         + Cardinality({s \in Submitters : sjob[s] # Nobody})
         + Cardinality({w \in Workers : job[w] # Nobody})
         + Cardinality({w \in Workers : child[w] # Nobody})
         + QueuedCount
         = Cardinality(AllJobs)

(***************************************************************************)
(* The two counters waitForAll() relies on: m_jobCount counts the jobs     *)
(* announced and not yet claimed, m_runningJobCount those that run.  A job *)
(* between the two statements of thread_pool.cpp:51-52 is in neither.      *)
(***************************************************************************)
CountersAccount ==
    /\ m_jobCount = Cardinality({s \in Submitters : spc[s] \in {"extract", "push", "lost"}})
                    + QueuedCount
                    + Cardinality({w \in Workers : wpc[w] = "got"})
    /\ m_runningJobCount = Cardinality({w \in Workers : wpc[w] \in {"running", "ended"}})

(***************************************************************************)
(* A graceful destructor returns only after every job that was pushed has  *)
(* been run, those in the gap between the counters included: their workers *)
(* are joined (thread_pool.cpp:87-109).                                    *)
(***************************************************************************)
GracefulRunsJobs ==
    IsGraceful /\ dpc = "done" => Jobs \subseteq fresh \cup ran

(***************************************************************************)
(* An insertion may take a queue for a duplicate and lose it, but never    *)
(* the last one: some queue is in the rotation, or on its way back to it   *)
(* (dispatch.cpp:58-76).                                                   *)
(***************************************************************************)
RotationNeverEmpty ==
    m_set # <<>> \/ \E s \in Submitters : squeue[s] # Nobody

(***************************************************************************)
(* No queue is in the rotation twice, nor there while a submitter has it:  *)
(* although the order of the tree is stale when the comparator is asked,   *)
(* two submitters never push to one queue at the same time.                *)
(***************************************************************************)
RotationHasNoDuplicates ==
    /\ \A i, j \in 1..Len(m_set) : m_set[i] = m_set[j] => i = j
    /\ \A s \in Submitters : squeue[s] # Nobody =>
          /\ squeue[s] \notin Elements(m_set)
          /\ \A r \in Submitters : squeue[r] = squeue[s] => r = s

(***************************************************************************)
(* The rotation is sound: it never runs out of queues and has none twice.  *)
(***************************************************************************)
RotationIsSound == RotationNeverEmpty /\ RotationHasNoDuplicates

(***************************************************************************)
(* With a single thread that submits, extract() never meets an empty set,  *)
(* whatever queues the insertions have lost (dispatch.cpp:65-70).          *)
(***************************************************************************)
SingleSubmitterIsSafe ==
    Cardinality(Submitters) = 1 => ~crashed

(***************************************************************************)
(* A job that was submitted is run, as long as nobody pauses the pool and  *)
(* it is destroyed gracefully.                                             *)
(***************************************************************************)
EveryJobRuns ==
    MaxPauses = 0 /\ IsGraceful =>
        \A j \in Jobs : j \notin fresh ~> j \in ran \/ crashed

(***************************************************************************)
(* The destructor returns once it has been called.  Refuted: no notifier   *)
(* of the pool holds the mutex of its condition variable, so a thread      *)
(* between its test and its block misses the call (safe_queue.h:53-57).    *)
(***************************************************************************)
DestructorReturns ==
    dpc # "idle" ~> dpc = "done" \/ crashed

=============================================================================
