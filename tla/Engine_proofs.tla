---------------------------- MODULE Engine_proofs ----------------------------
(***************************************************************************)
(* For any number of requests, songs, faults and crashes: the engine       *)
(* outlives the tasks that are at work, because m_asyncCount is the number *)
(* of tasks between their start and their end, those that threw included;  *)
(* and the claim in the database works as a lock. With requests one at a   *)
(* time and databases that fail nothing, the two databases agree when the  *)
(* engine is settled, and the engine implements FingerprintStore, as long  *)
(* as no task was lost to a crash or to a connection that is not there; a  *)
(* cache pool of three connections for each request is enough for that.    *)
(***************************************************************************)
EXTENDS Engine, FiniteSetTheorems, TLAPS

\* Where a handler is that has not given any work to tasks.
Early == {"idle", "look", "claim", "fetch", "searchCache", "searchPrimary", "purge"}

\* Handlers and tasks do what their requests ask for.
Matching ==
    \A c \in Calls :
        /\ pc[c] = "idle" => request[c] = NoRequest
        /\ pc[c] # "idle" => request[c] \in Requests
        /\ pc[c] \in Early => \A l \in Lanes : task[c][l] = "none"
        /\ pc[c] \in {"look", "claim", "fetch"} => request[c].op = "load"
        /\ pc[c] \in {"purge", "wait"} => request[c].op = "delete"
        /\ task[c]["primary"] \in {"insert", "clean"} => request[c].op = "load"
        /\ task[c]["primary"] = "purge" => request[c].op = "delete"

\* Tasks that have begun and have not ended.
Busy == {"insert", "clean", "count", "select", "index", "purge", "end", "thrown"}
Counted == {p \in Calls \X Lanes : task[p[1]][p[2]] \in Busy}

CountIsRight ==
    /\ m_asyncCount = Cardinality(Counted)
    /\ engine = "gone" => Counted = {}

\* A task at work goes on, and leaves its handler and the counter alone.
Works(c, l) ==
    /\ task[c][l] \in Busy
    /\ \E x \in Busy : /\ task' = [task EXCEPT ![c][l] = x]
                       /\ l = "primary" /\ x \in {"insert", "clean"} => task[c][l] \in {"insert", "clean"}
                       /\ x # "purge"
    /\ UNCHANGED <<request, pc, m_asyncCount, engine>>

TaskWork(c) ==
    \/ InsertPrint(c) \/ InsertThrows(c) \/ CleanClaim(c) \/ CleanThrows(c)
    \/ PurgePrimary(c) \/ PurgePrimaryThrows(c)
    \/ FillCount(c) \/ FillSelect(c) \/ FillThrows(c)
    \/ IndexDocs(c) \/ IndexThrows(c) \/ PurgeCache(c) \/ PurgeCacheThrows(c)

LEMMA TasksWork ==
    ASSUME NEW c \in Calls, TaskWork(c)
    PROVE  \E l \in Lanes : Works(c, l)
<1> USE DEF calls, process, stores, TaskGoto, Throw, Busy, Lanes, Works
<1>1. CASE InsertPrint(c)
  BY <1>1 DEF InsertPrint
<1>2. CASE InsertThrows(c)
  BY <1>2 DEF InsertThrows
<1>3. CASE CleanClaim(c)
  BY <1>3 DEF CleanClaim
<1>4. CASE CleanThrows(c)
  BY <1>4 DEF CleanThrows
<1>5. CASE PurgePrimary(c)
  BY <1>5 DEF PurgePrimary
<1>6. CASE PurgePrimaryThrows(c)
  BY <1>6 DEF PurgePrimaryThrows
<1>7. CASE FillCount(c)
  BY <1>7 DEF FillCount
<1>8. CASE FillSelect(c)
  BY <1>8 DEF FillSelect
<1>9. CASE FillThrows(c)
  BY <1>9 DEF FillThrows
<1>10. CASE IndexDocs(c)
  BY <1>10 DEF IndexDocs
<1>11. CASE IndexThrows(c)
  BY <1>11 DEF IndexThrows
<1>12. CASE PurgeCache(c)
  BY <1>12 DEF PurgeCache
<1>13. CASE PurgeCacheThrows(c)
  BY <1>13 DEF PurgeCacheThrows
<1> QED
  BY <1>1, <1>2, <1>3, <1>4, <1>5, <1>6, <1>7, <1>8, <1>9, <1>10, <1>11, <1>12, <1>13 DEF TaskWork

-----------------------------------------------------------------------------
(* Handlers and tasks match their requests, whatever step is taken.          *)

HandlersMatch == /\ request \in [Calls -> Requests \cup {NoRequest}]
                 /\ pc \in [Calls -> HandlerPc]
                 /\ task \in [Calls -> [Lanes -> TaskPc]]
                 /\ Matching

LEMMA WorkMatches ==
    ASSUME HandlersMatch, NEW c \in Calls, TaskWork(c)
    PROVE  HandlersMatch'
<1>1. PICK l \in Lanes : Works(c, l)
  BY TasksWork
<1>2. PICK x \in Busy : /\ task' = [task EXCEPT ![c][l] = x]
                        /\ l = "primary" /\ x \in {"insert", "clean"} =>
                              task[c][l] \in {"insert", "clean"}
                        /\ x # "purge"
  BY <1>1 DEF Works
<1>3. UNCHANGED <<request, pc>> /\ task[c][l] # "none"
  BY <1>1 DEF Works, Busy
<1>4. task' \in [Calls -> [Lanes -> TaskPc]]
  BY <1>2 DEF HandlersMatch, Busy, TaskPc
<1>5. Matching'
  BY <1>2, <1>3 DEF HandlersMatch, Matching, Lanes
<1> QED
  BY <1>3, <1>4, <1>5 DEF HandlersMatch

LEMMA TerminateMatches ==
    ASSUME HandlersMatch, Terminate
    PROVE  HandlersMatch'
<1> USE DEF Terminate, HandlersMatch
<1>1. pc' \in [Calls -> HandlerPc] /\ task' \in [Calls -> [Lanes -> TaskPc]]
  BY DEF HandlerPc, TaskPc
<1>2. Matching'
  BY DEF Matching, Early, Lanes
<1> QED
  BY <1>1, <1>2

LEMMA BeginMatches ==
    ASSUME HandlersMatch, NEW c \in Calls, NEW r \in Requests, Begin(c, r)
    PROVE  HandlersMatch'
<1> USE DEF Begin, Goto, tasks, HandlersMatch
<1>1. r.op \in {"load", "find", "delete"}
  BY EngineAssumption DEF Requests
<1>2. FirstStep(r.op) \in {"look", "searchCache", "purge"}
  BY <1>1 DEF FirstStep
<1>3. request' \in [Calls -> Requests \cup {NoRequest}] /\ pc' \in [Calls -> HandlerPc]
  BY <1>2 DEF HandlerPc
<1>4. Matching'
  BY <1>1, <1>2 DEF Matching, Early, FirstStep, Lanes
<1> QED
  BY <1>3, <1>4

\* A step of a handler that gives no work to tasks.
LEMMA HandlerMatches ==
    ASSUME HandlersMatch, NEW c \in Calls, UNCHANGED <<request, task>>,
           NEW x \in HandlerPc \ {"idle"}, pc[c] # "idle", pc' = [pc EXCEPT ![c] = x],
           x \in Early => pc[c] \in Early,
           x \in {"look", "claim", "fetch"} => request[c].op = "load",
           x \notin {"purge", "wait"}
    PROVE  HandlersMatch'
<1>1. pc' \in [Calls -> HandlerPc]
  BY DEF HandlersMatch
<1>2. Matching'
  BY DEF HandlersMatch, Matching
<1> QED
  BY <1>1, <1>2 DEF HandlersMatch

LEMMA HandlerEndMatches ==
    ASSUME HandlersMatch, NEW c \in Calls, UNCHANGED <<request, task>>, pc[c] # "idle", Goto(c, "over")
    PROVE  HandlersMatch'
<1>1. /\ "over" \in HandlerPc \ {"idle"} /\ "over" \notin Early
      /\ "over" \notin {"look", "claim", "fetch"} /\ "over" \notin {"purge", "wait"}
      /\ pc' = [pc EXCEPT ![c] = "over"]
  BY DEF Goto, HandlerPc, Early
<1> QED
  BY <1>1, HandlerMatches

LEMMA HandlerStepMatches ==
    ASSUME HandlersMatch, NEW c \in Calls, HandlerStep(c)
    PROVE  HandlersMatch'
<1> USE DEF Goto, tasks, calls, stores, process, HandlerPc, Early
<1>1. CASE ClaimLook(c)
  BY <1>1, HandlerMatches DEF ClaimLook, HandlersMatch, Matching
<1>2. CASE ClaimInsert(c)
  BY <1>2, HandlerMatches DEF ClaimInsert, HandlersMatch, Matching
<1>3. CASE ClaimThrows(c) \/ SearchThrows(c)
  BY <1>3, TerminateMatches DEF ClaimThrows, SearchThrows
<1>4. CASE LoadFetch(c)
  <2> USE <1>4 DEF LoadFetch
  <2>1. pc' \in [Calls -> HandlerPc] /\ task' \in [Calls -> [Lanes -> TaskPc]]
    BY DEF HandlersMatch, TaskPc, Lanes
  <2>2. Matching'
    BY DEF HandlersMatch, Matching, Lanes
  <2> QED
    BY <2>1, <2>2 DEF HandlersMatch
<1>5. CASE LoadFails(c)
  BY <1>5, HandlerEndMatches DEF LoadFails
<1>6. CASE SearchCache(c)
  BY <1>6, HandlerMatches DEF SearchCache
<1>7. CASE SearchPrimary(c)
  <2> USE <1>7 DEF SearchPrimary
  <2>1. CASE UNCHANGED task
    BY <2>1, HandlerMatches DEF TaskGoto
  <2>2. CASE TaskGoto(c, "cache", "queued") /\ Goto(c, "answered")
    <3> USE <2>2 DEF TaskGoto
    <3>1. pc' \in [Calls -> HandlerPc] /\ task' \in [Calls -> [Lanes -> TaskPc]]
      BY DEF HandlersMatch, TaskPc, Lanes
    <3>2. Matching'
      BY DEF HandlersMatch, Matching, Lanes
    <3> QED
      BY <3>1, <3>2 DEF HandlersMatch
  <2> QED
    BY <2>1, <2>2
<1>8. CASE FindReturns(c)
  BY <1>8, HandlerEndMatches DEF FindReturns
<1>9. CASE PurgeBegins(c)
  <2> USE <1>9 DEF PurgeBegins
  <2>1. pc' \in [Calls -> HandlerPc] /\ task' \in [Calls -> [Lanes -> TaskPc]]
    BY DEF HandlersMatch, TaskPc, Lanes
  <2>2. Matching'
    BY DEF HandlersMatch, Matching, Lanes
  <2> QED
    BY <2>1, <2>2 DEF HandlersMatch
<1>10. CASE PurgeReturns(c)
  BY <1>10, HandlerEndMatches DEF PurgeReturns
<1>11. CASE PurgeLate(c)
  BY <1>11, HandlerMatches, TerminateMatches DEF PurgeLate
<1> QED
  BY <1>1, <1>2, <1>3, <1>4, <1>5, <1>6, <1>7, <1>8, <1>9, <1>10, <1>11 DEF HandlerStep

LEMMA StartMatches ==
    ASSUME HandlersMatch, NEW c \in Calls, NEW l \in Lanes, Start(c, l)
    PROVE  HandlersMatch'
<1> DEFINE x == FirstTaskStep(request[c].op, l)
<1>1. task[c][l] = "queued" /\ task' = [task EXCEPT ![c][l] = x] /\ UNCHANGED <<request, pc>>
  BY DEF Start, TaskGoto, calls
<1>2. pc[c] \notin Early /\ request[c] \in Requests
  BY <1>1 DEF HandlersMatch, Matching, Early
<1>3. request[c].op \in {"load", "find", "delete"}
  BY <1>2, EngineAssumption DEF Requests
<1>4. /\ x \in {"purge", "count", "insert", "index"}
      /\ x = "purge" => request[c].op = "delete"
      /\ x = "insert" => request[c].op = "load"
  BY <1>3 DEF FirstTaskStep
<1> HIDE DEF x
<1>5. task' \in [Calls -> [Lanes -> TaskPc]]
  BY <1>1, <1>4 DEF HandlersMatch, TaskPc
<1>6. Matching'
  BY <1>1, <1>2, <1>4 DEF HandlersMatch, Matching, Lanes
<1> QED
  BY <1>1, <1>5, <1>6 DEF HandlersMatch

\* A task that has nothing more to do with the databases.
LEMMA TaskEndMatches ==
    ASSUME HandlersMatch, NEW c \in Calls, NEW l \in Lanes, NEW x \in {"notify", "over"},
           task[c][l] # "none", task' = [task EXCEPT ![c][l] = x], UNCHANGED <<request, pc>>
    PROVE  HandlersMatch'
<1>1. task' \in [Calls -> [Lanes -> TaskPc]]
  BY DEF HandlersMatch, TaskPc
<1>2. Matching'
  BY DEF HandlersMatch, Matching, Lanes
<1> QED
  BY <1>1, <1>2 DEF HandlersMatch

LEMMA OtherStepMatches ==
    ASSUME HandlersMatch, UNCHANGED <<request, pc, task>>
    PROVE  HandlersMatch'
BY DEF HandlersMatch, Matching

\* The steps of tasks that are not work on the databases.
TaskFrame(c, l) == Start(c, l) \/ End(c, l) \/ Notify(c, l) \/ StartLate(c, l)

LEMMA FrameMatches ==
    ASSUME HandlersMatch, NEW c \in Calls, NEW l \in Lanes, TaskFrame(c, l)
    PROVE  HandlersMatch'
<1> USE DEF TaskGoto, calls
<1>1. CASE Start(c, l)
  BY <1>1, StartMatches
<1>2. CASE End(c, l)
  BY <1>2, TaskEndMatches DEF End
<1>3. CASE Notify(c, l)
  BY <1>3, TaskEndMatches DEF Notify
<1>4. CASE StartLate(c, l)
  BY <1>4, TaskEndMatches, TerminateMatches DEF StartLate
<1> QED
  BY <1>1, <1>2, <1>3, <1>4 DEF TaskFrame

LEMMA TaskCases ==
    ASSUME NEW c \in Calls, PrimaryStep(c) \/ CacheStep(c)
    PROVE  TaskWork(c) \/ \E l \in Lanes : TaskFrame(c, l)
<1>1. TaskWork(c) \/ TaskFrame(c, "primary") \/ TaskFrame(c, "cache")
  BY Zenon DEF PrimaryStep, CacheStep, TaskWork, TaskFrame
<1>2. "primary" \in Lanes /\ "cache" \in Lanes
  BY DEF Lanes
<1> QED
  BY <1>1, <1>2, Zenon

LEMMA StepMatches == HandlersMatch /\ [Next]_vars => HandlersMatch'
<1> SUFFICES ASSUME HandlersMatch, [Next]_vars PROVE HandlersMatch'
  OBVIOUS
<1>1. ASSUME NEW c \in Calls, NEW r \in Requests, Begin(c, r) PROVE HandlersMatch'
  BY <1>1, BeginMatches
<1>2. ASSUME NEW c \in Calls, HandlerStep(c) PROVE HandlersMatch'
  BY <1>2, HandlerStepMatches
<1>3. ASSUME NEW c \in Calls, PrimaryStep(c) \/ CacheStep(c) PROVE HandlersMatch'
  BY <1>3, TaskCases, WorkMatches, FrameMatches
<1>4. CASE Refresh \/ ShutDown \/ Destroy \/ Crash
  BY <1>4, OtherStepMatches, TerminateMatches DEF Refresh, ShutDown, Destroy, Crash, calls, tasks
<1>5. CASE UNCHANGED vars
  BY <1>5, OtherStepMatches DEF vars, calls, tasks
<1> QED
  BY <1>1, <1>2, <1>3, <1>4, <1>5 DEF Next

-----------------------------------------------------------------------------
(* The counter.                                                              *)

LEMMA CountedIsFinite == IsFiniteSet(Counted)
<1>1. Lanes = {"primary"} \cup {"cache"} /\ IsFiniteSet({} \cup {"primary"} \cup {"cache"})
  BY FS_EmptySet, FS_AddElement DEF Lanes
<1>2. IsFiniteSet(Lanes)
  BY <1>1
<1>3. IsFiniteSet(Calls \X Lanes)
  BY <1>2, FS_Product, EngineAssumption
<1> QED
  BY <1>3, FS_Subset DEF Counted

LEMMA NobodyMeansEmpty == CountIsRight /\ m_asyncCount = 0 => Counted = {}
BY CountedIsFinite, FS_EmptySet DEF CountIsRight

LEMMA StartCounts ==
    ASSUME HandlersMatch, CountIsRight, NEW c \in Calls, NEW l \in Lanes, Start(c, l)
    PROVE  CountIsRight'
<1> DEFINE x == FirstTaskStep(request[c].op, l)
<1>1. /\ task[c][l] = "queued" /\ task' = [task EXCEPT ![c][l] = x]
      /\ m_asyncCount' = m_asyncCount + 1 /\ engine' = engine /\ engine # "gone"
  BY DEF Start, TaskGoto, process
<1>2. x \in Busy
  BY DEF FirstTaskStep, Busy
<1> HIDE DEF x
<1>3. <<c, l>> \notin Counted /\ Counted' = Counted \cup {<<c, l>>}
  BY <1>1, <1>2 DEF Counted, Busy, HandlersMatch
<1>4. Cardinality(Counted') = Cardinality(Counted) + 1
  BY <1>3, CountedIsFinite, FS_AddElement
<1> QED
  BY <1>1, <1>4 DEF CountIsRight

LEMMA EndCounts ==
    ASSUME HandlersMatch, CountIsRight, NEW c \in Calls, NEW l \in Lanes, End(c, l)
    PROVE  CountIsRight'
<1>1. /\ task[c][l] = "end" /\ task' = [task EXCEPT ![c][l] = "notify"]
      /\ m_asyncCount' = m_asyncCount - 1 /\ engine' = engine
  BY DEF End, TaskGoto, process
<1>2. <<c, l>> \in Counted /\ Counted' = Counted \ {<<c, l>>}
  BY <1>1 DEF Counted, Busy, HandlersMatch
<1>3. Cardinality(Counted') = Cardinality(Counted) - 1
  BY <1>2, CountedIsFinite, FS_RemoveElement
<1> QED
  BY <1>1, <1>2, <1>3 DEF CountIsRight

LEMMA SameCount ==
    ASSUME CountIsRight, Counted' = Counted, UNCHANGED m_asyncCount,
           engine' = engine \/ engine' # "gone" \/ m_asyncCount = 0
    PROVE  CountIsRight'
BY NobodyMeansEmpty DEF CountIsRight

LEMMA TerminateCounts ==
    ASSUME HandlersMatch, Terminate
    PROVE  CountIsRight'
<1>1. Counted' = {}
  BY DEF Terminate, Counted, Busy
<1> QED
  BY <1>1, FS_EmptySet DEF CountIsRight, Terminate

LEMMA WorkCounts ==
    ASSUME HandlersMatch, CountIsRight, NEW c \in Calls, TaskWork(c)
    PROVE  CountIsRight'
<1>1. PICK l \in Lanes : Works(c, l)
  BY TasksWork
<1>2. PICK x \in Busy : task' = [task EXCEPT ![c][l] = x]
  BY <1>1 DEF Works
<1>3. task[c][l] \in Busy /\ UNCHANGED <<m_asyncCount, engine>>
  BY <1>1 DEF Works
<1>4. Counted' = Counted
  BY <1>2, <1>3 DEF Counted, HandlersMatch
<1> QED
  BY <1>3, <1>4, SameCount

\* A handler gives work to tasks only when its call has none.
LEMMA HandlerStepCounts ==
    ASSUME HandlersMatch, CountIsRight, NEW c \in Calls, HandlerStep(c)
    PROVE  CountIsRight'
<1> USE DEF calls, tasks, process
<1>1. CASE ClaimThrows(c) \/ SearchThrows(c)
  BY <1>1, TerminateCounts DEF ClaimThrows, SearchThrows
<1>2. CASE PurgeLate(c)
  BY <1>2, TerminateCounts, SameCount DEF PurgeLate, Counted
<1>3. CASE \/ ClaimLook(c) \/ ClaimInsert(c) \/ LoadFails(c) \/ SearchCache(c) \/ FindReturns(c)
           \/ PurgeReturns(c)
  <2>1. UNCHANGED <<task, m_asyncCount, engine>>
    BY <1>3 DEF ClaimLook, ClaimInsert, LoadFails, SearchCache, FindReturns, PurgeReturns
  <2> QED
    BY <2>1, SameCount DEF Counted
<1>4. CASE LoadFetch(c) \/ PurgeBegins(c) \/ SearchPrimary(c)
  <2>1. \A l \in Lanes : task[c][l] = "none"
    BY <1>4 DEF LoadFetch, PurgeBegins, SearchPrimary, HandlersMatch, Matching, Early
  <2>2. UNCHANGED <<m_asyncCount, engine>>
    BY <1>4 DEF LoadFetch, PurgeBegins, SearchPrimary
  <2>3. \A d \in Calls, l \in Lanes : task'[d][l] = task[d][l] \/ (d = c /\ task'[d][l] = "queued")
    BY <1>4, <2>1 DEF LoadFetch, PurgeBegins, SearchPrimary, TaskGoto, Lanes, HandlersMatch
  <2>4. Counted' = Counted
    BY <2>1, <2>3 DEF Counted, Busy
  <2> QED
    BY <2>2, <2>4, SameCount
<1> QED
  BY <1>1, <1>2, <1>3, <1>4 DEF HandlerStep

LEMMA FrameCounts ==
    ASSUME HandlersMatch, CountIsRight, NEW c \in Calls, NEW l \in Lanes, TaskFrame(c, l)
    PROVE  CountIsRight'
<1> USE DEF TaskGoto, process
<1>1. CASE Start(c, l)
  BY <1>1, StartCounts
<1>2. CASE End(c, l)
  BY <1>2, EndCounts
<1>3. ASSUME /\ task[c][l] \in {"notify", "queued"}
             /\ task' = [task EXCEPT ![c][l] = "over"]
             /\ UNCHANGED <<m_asyncCount, engine>>
      PROVE  CountIsRight'
  <2>1. Counted' = Counted
    BY <1>3 DEF Counted, Busy, HandlersMatch
  <2> QED
    BY <1>3, <2>1, SameCount
<1>4. CASE Notify(c, l)
  BY <1>3, <1>4 DEF Notify
<1>5. CASE StartLate(c, l)
  BY <1>3, <1>5, TerminateCounts DEF StartLate
<1> QED
  BY <1>1, <1>2, <1>4, <1>5 DEF TaskFrame

LEMMA StepCounts == HandlersMatch /\ CountIsRight /\ [Next]_vars => CountIsRight'
<1> SUFFICES ASSUME HandlersMatch, CountIsRight, [Next]_vars PROVE CountIsRight'
  OBVIOUS
<1> USE DEF tasks, process
<1>1. ASSUME NEW c \in Calls, NEW r \in Requests, Begin(c, r) PROVE CountIsRight'
  BY <1>1, SameCount DEF Begin, Counted
<1>2. ASSUME NEW c \in Calls, HandlerStep(c) PROVE CountIsRight'
  BY <1>2, HandlerStepCounts
<1>3. ASSUME NEW c \in Calls, PrimaryStep(c) \/ CacheStep(c) PROVE CountIsRight'
  BY <1>3, TaskCases, WorkCounts, FrameCounts
<1>4. CASE Crash
  BY <1>4, TerminateCounts DEF Crash
<1>5. CASE Refresh \/ ShutDown \/ Destroy
  <2>1. UNCHANGED <<task, m_asyncCount>> /\ (engine' = engine \/ engine' # "gone" \/ m_asyncCount = 0)
    BY <1>5 DEF Refresh, ShutDown, Destroy, NobodyIsCounted
  <2> QED
    BY <2>1, SameCount DEF Counted
<1>6. CASE UNCHANGED vars
  BY <1>6, SameCount DEF vars, Counted
<1> QED
  BY <1>1, <1>2, <1>3, <1>4, <1>5, <1>6 DEF Next

LEMMA InitCounts == Init => HandlersMatch /\ CountIsRight
<1> SUFFICES ASSUME Init PROVE HandlersMatch /\ CountIsRight
  OBVIOUS
<1>1. HandlersMatch
  BY DEF Init, HandlersMatch, Matching, HandlerPc, TaskPc, Lanes, Early, NoRequest
<1>2. Counted = {}
  BY DEF Init, Counted, Busy
<1> QED
  BY <1>1, <1>2, FS_EmptySet DEF Init, CountIsRight

LEMMA CountHolds == Spec => [](HandlersMatch /\ CountIsRight)
BY InitCounts, StepMatches, StepCounts, PTL DEF Spec

\* ~Engine returns only when no task is between markAsyncStart() and
\* markAsyncEnd(): the counter is the number of those tasks, whichever threw.
THEOREM EngineWaits == Spec => []EngineOutlivesItsTasks
<1>1. HandlersMatch /\ CountIsRight => EngineOutlivesItsTasks
  <2> SUFFICES ASSUME HandlersMatch, CountIsRight, engine = "gone", NEW c \in Calls, NEW l \in Lanes
               PROVE  task[c][l] \in {"none", "queued", "notify", "over"}
    BY DEF EngineOutlivesItsTasks
  <2>1. <<c, l>> \notin Counted
    BY DEF CountIsRight
  <2>2. task[c][l] \in TaskPc \ Busy
    BY <2>1 DEF Counted, HandlersMatch
  <2> QED
    BY <2>2 DEF TaskPc, Busy
<1> QED
  BY <1>1, CountHolds, PTL

-----------------------------------------------------------------------------
(* The claim.                                                                *)

Held == {"queued", "insert", "clean"}
RowsTyped == primary \in [Songs -> SUBSET Rows]

\* Nobody comes to hold a claim, and no row changes.
QuietClaims ==
    /\ UNCHANGED <<request, primary>>
    /\ \A d \in Calls :
        /\ pc'[d] = "fetch" => pc[d] = "fetch"
        /\ task'[d]["primary"] \in Held =>
               pc[d] = "fetch" \/ task[d]["primary"] \in Held \/ request[d].op # "load"

LEMMA QuietKeepsClaims ==
    ASSUME ClaimIsALock, QuietClaims
    PROVE  ClaimIsALock'
<1>1. \A s : NeverPurged(s)' => NeverPurged(s)
  BY DEF QuietClaims, NeverPurged
<1>2. \A s, c : c \in Calls /\ Holds(c, s)' => Holds(c, s)
  BY DEF QuietClaims, Holds, Held
<1> QED
  BY <1>1, <1>2 DEF ClaimIsALock, QuietClaims

LEMMA TerminateIsQuiet ==
    ASSUME HandlersMatch, Terminate
    PROVE  QuietClaims
BY DEF Terminate, QuietClaims, Held, stores, Lanes

LEMMA BeginKeepsClaims ==
    ASSUME HandlersMatch, ClaimIsALock, NEW b \in Calls, NEW r \in Requests, Begin(b, r)
    PROVE  ClaimIsALock'
<1> USE DEF Begin, Goto, tasks, stores
<1>1. request[b] = NoRequest /\ \A l \in Lanes : task[b][l] = "none"
  BY DEF HandlersMatch, Matching, Early
<1>2. pc'[b] # "fetch" /\ task'[b]["primary"] \notin Held
  BY <1>1 DEF HandlersMatch, FirstStep, Held, Lanes
<1>3. \A c \in Calls, s \in Songs : Holds(c, s)' => Holds(c, s)
  BY <1>2 DEF Holds, Held, HandlersMatch
<1>4. \A s : NeverPurged(s)' => NeverPurged(s)
  BY <1>1 DEF NeverPurged, HandlersMatch
<1> QED
  BY <1>3, <1>4 DEF ClaimIsALock

\* The claim was free: nobody held it.
LEMMA InsertKeepsClaims ==
    ASSUME HandlersMatch, RowsTyped, ClaimIsALock, NEW b \in Calls, ClaimInsert(b)
    PROVE  ClaimIsALock'
<1> DEFINE t == request[b].song
<1>1. /\ pc[b] = "claim" /\ Claim \notin primary[t]
      /\ primary' = [primary EXCEPT ![t] = @ \cup {Claim}]
      /\ pc' = [pc EXCEPT ![b] = "fetch"] /\ UNCHANGED <<request, task>>
  BY DEF ClaimInsert, ClaimIsFree, Goto, tasks
<1>2. \A s : NeverPurged(s)' => NeverPurged(s)
  BY <1>1 DEF NeverPurged
<1>3. \A c \in Calls, s \in Songs : Holds(c, s)' => Holds(c, s) \/ (c = b /\ s = t)
  BY <1>1 DEF Holds, HandlersMatch
<1>4. \A s \in Songs : /\ Claim \in primary[s] => Claim \in primary'[s]
                       /\ s = t => Claim \in primary'[s]
  BY <1>1 DEF RowsTyped
<1>5. \A c \in Calls, s \in Songs : s = t /\ NeverPurged(s) => ~Holds(c, s)
  BY <1>1 DEF ClaimIsALock
<1> HIDE DEF t
<1>6. \A s \in Songs : NeverPurged(s)' =>
        \A c \in Calls : Holds(c, s)' => Claim \in primary'[s]
  BY <1>2, <1>3, <1>4 DEF ClaimIsALock
<1>7. \A s \in Songs : s = t /\ NeverPurged(s)' =>
        \A c \in Calls : Holds(c, s)' => c = b
  BY <1>2, <1>3, <1>5
<1>8. \A s \in Songs : s # t /\ NeverPurged(s)' =>
        \A c, d \in Calls : Holds(c, s)' /\ Holds(d, s)' => c = d
  BY <1>2, <1>3 DEF ClaimIsALock
<1> QED
  BY <1>6, <1>7, <1>8 DEF ClaimIsALock

LEMMA InsertPrintKeepsClaims ==
    ASSUME HandlersMatch, RowsTyped, ClaimIsALock, NEW b \in Calls, InsertPrint(b)
    PROVE  ClaimIsALock'
<1> DEFINE t == request[b].song
<1>1. /\ task[b]["primary"] = "insert"
      /\ primary' = [primary EXCEPT ![t] = @ \cup {request[b].print}]
      /\ task' = [task EXCEPT ![b]["primary"] = "clean"] /\ UNCHANGED <<request, pc>>
  BY DEF InsertPrint, TaskGoto, calls
<1>2. \A s : NeverPurged(s)' => NeverPurged(s)
  BY <1>1 DEF NeverPurged
<1>3. \A c \in Calls, s \in Songs : Holds(c, s)' => Holds(c, s)
  BY <1>1 DEF Holds, HandlersMatch, Lanes
<1>4. \A s \in Songs : Claim \in primary[s] => Claim \in primary'[s]
  BY <1>1 DEF RowsTyped
<1> QED
  BY <1>2, <1>3, <1>4 DEF ClaimIsALock

\* The only one who holds the claim takes it away, and holds it no more.
LEMMA CleanKeepsClaims ==
    ASSUME HandlersMatch, RowsTyped, ClaimIsALock, NEW b \in Calls, CleanClaim(b)
    PROVE  ClaimIsALock'
<1> DEFINE t == request[b].song
<1>1. /\ task[b]["primary"] = "clean"
      /\ primary' = [primary EXCEPT ![t] = @ \ {Claim}]
      /\ task' = [task EXCEPT ![b]["primary"] = "end"] /\ UNCHANGED <<request, pc>>
  BY DEF CleanClaim, TaskGoto, calls
<1>2. /\ request[b] \in Requests /\ request[b] # NoRequest
      /\ request[b].op = "load" /\ pc[b] # "fetch"
  <2>1. pc[b] \notin Early
    BY <1>1 DEF HandlersMatch, Matching, Lanes
  <2>2. pc[b] # "idle" /\ pc[b] # "fetch"
    BY <2>1 DEF Early
  <2>3. request[b] \in Requests /\ request[b].op = "load"
    BY <1>1, <2>2 DEF HandlersMatch, Matching
  <2> QED
    BY <2>2, <2>3 DEF NoRequest
<1>3. Holds(b, t)
  BY <1>1, <1>2 DEF Holds
<1>4. \A s : NeverPurged(s)' => NeverPurged(s)
  BY <1>1 DEF NeverPurged
<1>5. \A c \in Calls, s \in Songs : Holds(c, s)' => Holds(c, s) /\ c # b
  BY <1>1, <1>2 DEF Holds, HandlersMatch, Lanes
<1>6. \A s \in Songs : s # t /\ Claim \in primary[s] => Claim \in primary'[s]
  BY <1>1 DEF RowsTyped
<1> HIDE DEF t
<1> QED
  BY <1>3, <1>4, <1>5, <1>6 DEF ClaimIsALock

LEMMA PurgeKeepsClaims ==
    ASSUME HandlersMatch, RowsTyped, ClaimIsALock, NEW b \in Calls, PurgePrimary(b)
    PROVE  ClaimIsALock'
<1> DEFINE t == request[b].song
<1>1. /\ task[b]["primary"] = "purge"
      /\ primary' = [primary EXCEPT ![t] = {}]
      /\ task' = [task EXCEPT ![b]["primary"] = "end"] /\ UNCHANGED <<request, pc>>
  BY DEF PurgePrimary, TaskGoto, calls
<1>2. request[b] # NoRequest /\ request[b].op = "delete"
  <2>1. pc[b] # "idle"
    BY <1>1 DEF HandlersMatch, Matching, Lanes, Early
  <2> QED
    BY <1>1, <2>1 DEF HandlersMatch, Matching, NoRequest
<1>3. ~NeverPurged(t)
  BY <1>2 DEF NeverPurged
<1>4. \A s : NeverPurged(s)' => NeverPurged(s)
  BY <1>1 DEF NeverPurged
<1>5. \A c \in Calls, s \in Songs : Holds(c, s)' => Holds(c, s)
  BY <1>1 DEF Holds, HandlersMatch, Lanes
<1>6. \A s \in Songs : s # t /\ Claim \in primary[s] => Claim \in primary'[s]
  BY <1>1 DEF RowsTyped
<1> HIDE DEF t
<1> QED
  BY <1>3, <1>4, <1>5, <1>6 DEF ClaimIsALock

LEMMA HandlerKeepsClaims ==
    ASSUME HandlersMatch, RowsTyped, ClaimIsALock, NEW c \in Calls, HandlerStep(c)
    PROVE  ClaimIsALock'
<1> USE DEF Goto, calls, tasks, stores, Held, Lanes
<1>1. CASE ClaimInsert(c)
  BY <1>1, InsertKeepsClaims
<1>2. CASE ClaimThrows(c) \/ SearchThrows(c)
  BY <1>2, TerminateIsQuiet, QuietKeepsClaims DEF ClaimThrows, SearchThrows
<1>3. CASE ClaimLook(c) \/ LoadFails(c) \/ SearchCache(c) \/ FindReturns(c) \/ PurgeReturns(c)
  <2>1. /\ UNCHANGED <<request, primary, task>>
        /\ \E x \in HandlerPc \ {"fetch"} : pc' = [pc EXCEPT ![c] = x]
    BY <1>3 DEF ClaimLook, LoadFails, SearchCache, FindReturns, PurgeReturns, HandlerPc
  <2>2. QuietClaims
    BY <2>1 DEF QuietClaims, HandlersMatch
  <2> QED
    BY <2>2, QuietKeepsClaims
<1>4. CASE LoadFetch(c)
  <2>1. QuietClaims
    BY <1>4 DEF LoadFetch, QuietClaims, HandlersMatch
  <2> QED
    BY <2>1, QuietKeepsClaims
<1>5. CASE SearchPrimary(c)
  <2>1. QuietClaims
    BY <1>5 DEF SearchPrimary, QuietClaims, HandlersMatch, TaskGoto
  <2> QED
    BY <2>1, QuietKeepsClaims
<1>6. CASE PurgeBegins(c)
  <2>1. request[c].op # "load"
    BY <1>6 DEF PurgeBegins, HandlersMatch, Matching
  <2>2. QuietClaims
    BY <1>6, <2>1 DEF PurgeBegins, QuietClaims, HandlersMatch
  <2> QED
    BY <2>2, QuietKeepsClaims
<1>7. CASE PurgeLate(c)
  <2>1. CASE Goto(c, "over") /\ UNCHANGED <<stores, pool, request, answer, tasks, engine>>
    <3>1. QuietClaims
      BY <2>1 DEF QuietClaims, HandlersMatch
    <3> QED
      BY <3>1, QuietKeepsClaims
  <2> QED
    BY <1>7, <2>1, TerminateIsQuiet, QuietKeepsClaims DEF PurgeLate
<1> QED
  BY <1>1, <1>2, <1>3, <1>4, <1>5, <1>6, <1>7 DEF HandlerStep

\* The other steps of the tasks.
LEMMA WorkKeepsClaims ==
    ASSUME HandlersMatch, RowsTyped, ClaimIsALock, NEW c \in Calls, TaskWork(c)
    PROVE  ClaimIsALock'
<1>1. CASE InsertPrint(c)
  BY <1>1, InsertPrintKeepsClaims
<1>2. CASE CleanClaim(c)
  BY <1>2, CleanKeepsClaims
<1>3. CASE PurgePrimary(c)
  BY <1>3, PurgeKeepsClaims
<1>4. CASE primary' = primary
  <2>1. PICK l \in Lanes : Works(c, l)
    BY TasksWork
  <2>2. PICK x \in Busy : /\ task' = [task EXCEPT ![c][l] = x]
                          /\ l = "primary" /\ x \in {"insert", "clean"} =>
                                task[c][l] \in {"insert", "clean"}
    BY <2>1 DEF Works
  <2>3. UNCHANGED <<request, pc>>
    BY <2>1 DEF Works
  <2>4. QuietClaims
    BY <1>4, <2>2, <2>3 DEF QuietClaims, Held, Busy, HandlersMatch, Lanes
  <2> QED
    BY <2>4, QuietKeepsClaims
<1>5. InsertPrint(c) \/ CleanClaim(c) \/ PurgePrimary(c) \/ primary' = primary
  BY DEF TaskWork, InsertThrows, CleanThrows, PurgePrimaryThrows, FillCount, FillSelect,
         FillThrows, IndexDocs, IndexThrows, PurgeCache, PurgeCacheThrows, stores
<1> QED
  BY <1>1, <1>2, <1>3, <1>4, <1>5

LEMMA FrameKeepsClaims ==
    ASSUME HandlersMatch, ClaimIsALock, NEW c \in Calls, NEW l \in Lanes, TaskFrame(c, l)
    PROVE  ClaimIsALock'
<1> USE DEF TaskGoto, calls, stores
<1>1. ASSUME UNCHANGED <<request, pc, primary>>,
             NEW x, task' = [task EXCEPT ![c][l] = x],
             x \in Held => task[c][l] \in Held
      PROVE  ClaimIsALock'
  <2>1. QuietClaims
    BY <1>1 DEF QuietClaims, HandlersMatch, Lanes
  <2> QED
    BY <2>1, QuietKeepsClaims
<1>2. CASE Start(c, l)
  BY <1>1, <1>2 DEF Start, Held
<1>3. CASE End(c, l)
  BY <1>1, <1>3 DEF End, Held
<1>4. CASE Notify(c, l)
  BY <1>1, <1>4 DEF Notify, Held
<1>5. CASE StartLate(c, l)
  BY <1>1, <1>5, TerminateIsQuiet, QuietKeepsClaims DEF StartLate, Held
<1> QED
  BY <1>2, <1>3, <1>4, <1>5 DEF TaskFrame

LEMMA StepKeepsClaims == HandlersMatch /\ RowsTyped /\ ClaimIsALock /\ [Next]_vars => ClaimIsALock'
<1> SUFFICES ASSUME HandlersMatch, RowsTyped, ClaimIsALock, [Next]_vars PROVE ClaimIsALock'
  OBVIOUS
<1>1. ASSUME NEW c \in Calls, NEW r \in Requests, Begin(c, r) PROVE ClaimIsALock'
  BY <1>1, BeginKeepsClaims
<1>2. ASSUME NEW c \in Calls, HandlerStep(c) PROVE ClaimIsALock'
  BY <1>2, HandlerKeepsClaims
<1>3. ASSUME NEW c \in Calls, PrimaryStep(c) \/ CacheStep(c) PROVE ClaimIsALock'
  BY <1>3, TaskCases, WorkKeepsClaims, FrameKeepsClaims
<1>4. CASE Crash
  BY <1>4, TerminateIsQuiet, QuietKeepsClaims DEF Crash
<1>5. CASE Refresh \/ ShutDown \/ Destroy \/ UNCHANGED vars
  <2>1. UNCHANGED <<request, pc, primary, task>>
    BY <1>5 DEF Refresh, ShutDown, Destroy, vars, stores, calls, tasks
  <2>2. QuietClaims
    BY <2>1 DEF QuietClaims
  <2> QED
    BY <2>2, QuietKeepsClaims
<1> QED
  BY <1>1, <1>2, <1>3, <1>4, <1>5 DEF Next

\* Four steps write the rows of a song.
LEMMA StepTypesRows == HandlersMatch /\ RowsTyped /\ [Next]_vars => RowsTyped'
<1> SUFFICES ASSUME HandlersMatch, RowsTyped, [Next]_vars PROVE RowsTyped'
  OBVIOUS
<1> USE DEF calls, tasks, stores, Terminate
<1>1. ASSUME NEW c \in Calls, NEW r \in Requests, Begin(c, r) PROVE RowsTyped'
  BY <1>1 DEF Begin, RowsTyped
<1>2. ASSUME NEW c \in Calls, ClaimInsert(c) PROVE RowsTyped'
  BY <1>2 DEF ClaimInsert, RowsTyped, Rows
<1>3. ASSUME NEW c \in Calls, HandlerStep(c), ~ClaimInsert(c) PROVE RowsTyped'
  BY <1>3 DEF HandlerStep, RowsTyped, ClaimLook, ClaimThrows, LoadFetch, LoadFails, SearchCache,
     SearchPrimary, SearchThrows, FindReturns, PurgeBegins, PurgeReturns, PurgeLate
<1>4. ASSUME NEW c \in Calls, InsertPrint(c) PROVE RowsTyped'
  <2>1. pc[c] # "idle"
    BY <1>4 DEF InsertPrint, HandlersMatch, Matching, Early, Lanes
  <2>2. request[c].print \in Prints
    BY <2>1 DEF HandlersMatch, Matching, Requests
  <2> QED
    BY <1>4, <2>2 DEF InsertPrint, RowsTyped, Rows
<1>5. ASSUME NEW c \in Calls, CleanClaim(c) \/ PurgePrimary(c) PROVE RowsTyped'
  BY <1>5 DEF CleanClaim, PurgePrimary, RowsTyped
<1>6. ASSUME NEW c \in Calls, TaskWork(c),
             ~InsertPrint(c), ~(CleanClaim(c) \/ PurgePrimary(c))
      PROVE  RowsTyped'
  BY <1>6 DEF TaskWork, InsertThrows, CleanThrows, PurgePrimaryThrows, FillCount, FillSelect,
     FillThrows, IndexDocs, IndexThrows, PurgeCache, PurgeCacheThrows, RowsTyped
<1>7. ASSUME NEW c \in Calls, NEW l \in Lanes, TaskFrame(c, l) PROVE RowsTyped'
  BY <1>7 DEF TaskFrame, Start, End, Notify, StartLate, RowsTyped
<1>8. CASE Refresh \/ ShutDown \/ Destroy \/ Crash \/ UNCHANGED vars
  BY <1>8 DEF Refresh, ShutDown, Destroy, Crash, vars, RowsTyped
<1> QED
  BY <1>1, <1>2, <1>3, <1>4, <1>5, <1>6, <1>7, <1>8, TaskCases DEF Next

LEMMA InitClaims == Init => RowsTyped /\ ClaimIsALock
BY DEF Init, RowsTyped, ClaimIsALock, Holds, Lanes

\* While nobody purges the song, one load at most is between its claim and its
\* clean-up, in this process or in the one before it, and the row is there.
THEOREM ClaimLocks == Spec => []ClaimIsALock
<1>1. Init => HandlersMatch /\ RowsTyped /\ ClaimIsALock
  BY InitCounts, InitClaims
<1>2. HandlersMatch /\ RowsTyped /\ ClaimIsALock /\ [Next]_vars
        => (HandlersMatch /\ RowsTyped /\ ClaimIsALock)'
  BY StepMatches, StepTypesRows, StepKeepsClaims
<1> QED
  BY <1>1, <1>2, PTL DEF Spec

-----------------------------------------------------------------------------
(* The types.                                                                *)

Kinds == {"pg", "es"}
PoolTyped == pool \in [Lanes -> Seq(Kinds)]
FillTyped ==
    /\ fillSong \in [Calls -> Songs \cup {NoSong}]
    /\ fetched \in [Calls -> SUBSET Rows]
DocsTyped == docs \subseteq Docs
RestTyped ==
    /\ answer \in [Calls -> Songs \cup {NoSong, Unanswered}]
    /\ engine \in {"up", "closing", "gone"}
    /\ crashes \in Nat

\* A search has one task, and what it is about to index are rows of a song.
FillIsRead ==
    \A c \in Calls : IsFill(c) =>
        /\ task[c]["primary"] = "none"
        /\ task[c]["cache"] = "index" => fillSong[c] \in Songs

LEMMA ConnectionsTyped ==
    ASSUME PoolTyped, NEW p \in Lanes
    PROVE  First(p) \in Kinds /\ Rest(p) \in Seq(Kinds)
<1>1. pool[p] \in Seq(Kinds)
  BY DEF PoolTyped
<1>2. CASE pool[p] = <<>>
  BY <1>2 DEF First, Rest, Kinds
<1>3. CASE pool[p] # <<>>
  <2>1. Head(pool[p]) \in Kinds /\ Tail(pool[p]) \in Seq(Kinds)
    BY <1>1, <1>3
  <2> QED
    BY <1>3, <2>1 DEF First, Rest
<1> QED
  BY <1>2, <1>3

LEMMA TakingTyped ==
    ASSUME PoolTyped, NEW p \in Lanes,
           Take(p) \/ TakeAndGive(p) \/ \E k \in Kinds : Give(p, k)
    PROVE  PoolTyped'
<1>1. First(p) \in Kinds /\ Rest(p) \in Seq(Kinds) /\ pool[p] \in Seq(Kinds)
  BY ConnectionsTyped DEF PoolTyped
<1>2. \A k \in Kinds : Append(pool[p], k) \in Seq(Kinds) /\ Append(Rest(p), First(p)) \in Seq(Kinds)
  BY <1>1
<1>3. \E q \in Seq(Kinds) : pool' = [pool EXCEPT ![p] = q]
  BY <1>1, <1>2 DEF Take, TakeAndGive, Give
<1> QED
  BY <1>3 DEF PoolTyped

LEMMA PairTyped ==
    ASSUME NEW S, NEW x \in S, NEW y \in S
    PROVE  [primary |-> x, cache |-> y] \in [Lanes -> S]
BY DEF Lanes

LEMMA FullTyped == FullPools \in [Lanes -> Seq(Kinds)]
<1>1. [i \in 1..PrimarySize |-> "pg"] \in Seq(Kinds) /\ [i \in 1..CacheSize |-> "es"] \in Seq(Kinds)
  BY EngineAssumption DEF Kinds
<1> QED
  BY <1>1, PairTyped DEF FullPools

LEMMA StepTypesPools == PoolTyped /\ [Next]_vars => PoolTyped'
<1> SUFFICES ASSUME PoolTyped, [Next]_vars PROVE PoolTyped'
  OBVIOUS
<1> USE DEF Kinds, Lanes
<1>1. ASSUME pool' = pool PROVE PoolTyped'
  BY <1>1 DEF PoolTyped
<1>2. ASSUME Terminate PROVE PoolTyped'
  BY <1>2, FullTyped DEF Terminate, PoolTyped
<1>3. ASSUME NEW c \in Calls, HandlerStep(c) PROVE PoolTyped'
  BY <1>1, <1>2, <1>3, TakingTyped DEF HandlerStep, ClaimLook, ClaimInsert, ClaimThrows, LoadFetch,
     LoadFails, SearchCache, SearchPrimary, SearchThrows, FindReturns, PurgeBegins, PurgeReturns,
     PurgeLate
<1>4. ASSUME NEW c \in Calls, NEW l \in Lanes, TaskFrame(c, l) PROVE PoolTyped'
  BY <1>1, <1>2, <1>4 DEF TaskFrame, Start, End, Notify, StartLate
<1>5. ASSUME NEW c \in Calls, IndexDocs(c) PROVE PoolTyped'
  <2>1. /\ First("cache") \in Kinds /\ Rest("cache") \in Seq(Kinds)
        /\ pool.primary \in Seq(Kinds)
    BY ConnectionsTyped DEF PoolTyped
  <2>2. Append(pool.primary, "pg") \in Seq(Kinds) /\ Append(Rest("cache"), First("cache")) \in Seq(Kinds)
    BY <2>1
  <2> QED
    BY <1>5, <2>1, <2>2, PairTyped DEF IndexDocs, PoolTyped
<1>6. ASSUME NEW c \in Calls, PurgePrimary(c) PROVE PoolTyped'
  <2>1. /\ First("primary") \in Kinds /\ Rest("primary") \in Seq(Kinds)
        /\ pool.cache \in Seq(Kinds)
    BY ConnectionsTyped DEF PoolTyped
  <2>2. Append(pool.cache, First("primary")) \in Seq(Kinds)
    BY <2>1
  <2> QED
    BY <1>6, <2>1, <2>2, PairTyped DEF PurgePrimary, PoolTyped
<1>7. ASSUME NEW c \in Calls, TaskWork(c), ~IndexDocs(c), ~PurgePrimary(c) PROVE PoolTyped'
  BY <1>1, <1>7, TakingTyped DEF TaskWork, InsertPrint, InsertThrows, CleanClaim, CleanThrows,
     PurgePrimaryThrows, FillCount, FillSelect, FillThrows, IndexThrows, PurgeCache,
     PurgeCacheThrows, Throw
<1>8. CASE \/ \E c \in Calls, r \in Requests : Begin(c, r)
           \/ Refresh \/ ShutDown \/ Destroy \/ Crash \/ UNCHANGED vars
  BY <1>1, <1>2, <1>8 DEF Begin, Refresh, ShutDown, Destroy, Crash, vars
<1> QED
  BY <1>3, <1>4, <1>5, <1>6, <1>7, <1>8, TaskCases DEF Next

LEMMA StepTypesFills == RowsTyped /\ FillTyped /\ [Next]_vars => FillTyped'
<1> SUFFICES ASSUME RowsTyped, FillTyped, [Next]_vars PROVE FillTyped'
  OBVIOUS
<1> USE DEF calls, tasks, stores
<1>1. ASSUME UNCHANGED <<fillSong, fetched>> PROVE FillTyped'
  BY <1>1 DEF FillTyped
<1>2. ASSUME Terminate PROVE FillTyped'
  BY <1>1, <1>2 DEF Terminate
<1>3. ASSUME NEW c \in Calls, SearchPrimary(c) PROVE FillTyped'
  BY <1>3 DEF SearchPrimary, FillTyped, InPrimary
<1>4. ASSUME NEW c \in Calls, HandlerStep(c), ~SearchPrimary(c) PROVE FillTyped'
  BY <1>1, <1>2, <1>4 DEF HandlerStep, ClaimLook, ClaimInsert, ClaimThrows, LoadFetch,
     LoadFails, SearchCache, SearchThrows, FindReturns, PurgeBegins, PurgeReturns, PurgeLate
<1>5. ASSUME NEW c \in Calls, NEW l \in Lanes, Start(c, l) PROVE FillTyped'
  BY <1>5 DEF Start, FillTyped
<1>6. ASSUME NEW c \in Calls, NEW l \in Lanes, TaskFrame(c, l), ~Start(c, l) PROVE FillTyped'
  BY <1>1, <1>2, <1>6 DEF TaskFrame, End, Notify, StartLate
<1>7. ASSUME NEW c \in Calls, FillSelect(c) PROVE FillTyped'
  BY <1>7 DEF FillSelect, FillTyped, RowsTyped
<1>8. ASSUME NEW c \in Calls, TaskWork(c), ~FillSelect(c) PROVE FillTyped'
  BY <1>1, <1>8 DEF TaskWork, InsertPrint, InsertThrows, CleanClaim, CleanThrows, PurgePrimary,
     PurgePrimaryThrows, FillCount, FillThrows, IndexDocs, IndexThrows, PurgeCache,
     PurgeCacheThrows
<1>9. CASE \/ \E c \in Calls, r \in Requests : Begin(c, r)
           \/ Refresh \/ ShutDown \/ Destroy \/ Crash \/ UNCHANGED vars
  BY <1>1, <1>2, <1>9 DEF Begin, Refresh, ShutDown, Destroy, Crash, vars
<1> QED
  BY <1>3, <1>4, <1>5, <1>6, <1>7, <1>8, <1>9, TaskCases DEF Next

\* A task that is about to index has just read its rows, or has a print.
LEMMA StepReadsFills == HandlersMatch /\ FillTyped /\ FillIsRead /\ [Next]_vars => FillIsRead'
<1> SUFFICES ASSUME HandlersMatch, FillTyped, FillIsRead, [Next]_vars PROVE FillIsRead'
  OBVIOUS
<1> USE DEF calls, tasks, stores, TaskGoto, HandlersMatch, Lanes
<1>1. ASSUME UNCHANGED <<fillSong, request>>,
             \A c \in Calls : IsFill(c) =>
                 /\ task[c]["primary"] = "none" => task'[c]["primary"] = "none"
                 /\ task'[c]["cache"] = "index" => task[c]["cache"] = "index"
      PROVE  FillIsRead'
  BY <1>1 DEF FillIsRead, IsFill
<1>2. ASSUME Terminate PROVE FillIsRead'
  BY <1>1, <1>2 DEF Terminate
<1>3. ASSUME NEW c \in Calls, SearchPrimary(c) PROVE FillIsRead'
  <2>1. task[c]["cache"] = "none"
    BY <1>3 DEF SearchPrimary, Matching, Early
  <2> QED
    BY <1>3, <2>1 DEF SearchPrimary, FillIsRead, IsFill, FillTyped
<1>4. ASSUME NEW c \in Calls, HandlerStep(c), ~SearchPrimary(c) PROVE FillIsRead'
  <2>1. CASE LoadFetch(c) \/ PurgeBegins(c)
    <3>1. ~IsFill(c)
      BY <2>1 DEF LoadFetch, PurgeBegins, IsFill, Matching
    <3> QED
      BY <1>1, <2>1, <3>1 DEF LoadFetch, PurgeBegins, IsFill
  <2>2. CASE ~(LoadFetch(c) \/ PurgeBegins(c))
    BY <1>1, <1>2, <1>4, <2>2 DEF HandlerStep, ClaimLook, ClaimInsert, ClaimThrows, LoadFails,
       SearchCache, SearchThrows, FindReturns, PurgeReturns, PurgeLate
  <2> QED
    BY <2>1, <2>2
<1>5. ASSUME NEW c \in Calls, NEW l \in Lanes, Start(c, l) PROVE FillIsRead'
  <2>1. /\ task' = [task EXCEPT ![c][l] = FirstTaskStep(request[c].op, l)] /\ UNCHANGED request
        /\ \A d \in Calls : d # c => fillSong'[d] = fillSong[d]
    BY <1>5 DEF Start, FillTyped
  <2>2. request[c].op = "find" => FirstTaskStep(request[c].op, l) # "index"
    BY DEF FirstTaskStep
  <2>3. request[c].op # "find" => ~IsFill(c)'
    BY <2>1 DEF IsFill
  <2>4. CASE l = "cache"
    <3>1. ~(task'[c]["cache"] = "index" /\ IsFill(c)')
      BY <2>1, <2>2, <2>3, <2>4
    <3> QED
      BY <2>1, <2>4, <3>1 DEF FillIsRead, IsFill
  <2>5. CASE l = "primary"
    <3>1. request[c].op # "find"
      BY <1>5, <2>5 DEF Start, FillIsRead, IsFill
    <3> QED
      BY <1>5, <2>1, <2>5, <3>1 DEF Start, FillIsRead, IsFill
  <2> QED
    BY <2>4, <2>5
<1>6. ASSUME NEW c \in Calls, NEW l \in Lanes, TaskFrame(c, l), ~Start(c, l) PROVE FillIsRead'
  BY <1>1, <1>2, <1>6 DEF TaskFrame, End, Notify, StartLate
<1>7. ASSUME NEW c \in Calls, FillSelect(c) PROVE FillIsRead'
  BY <1>7 DEF FillSelect, FillIsRead, IsFill, FillTyped
<1>8. ASSUME NEW c \in Calls, TaskWork(c), ~FillSelect(c) PROVE FillIsRead'
  BY <1>1, <1>8 DEF TaskWork, InsertPrint, InsertThrows, CleanClaim, CleanThrows, PurgePrimary,
     PurgePrimaryThrows, FillCount, FillThrows, IndexDocs, IndexThrows, PurgeCache,
     PurgeCacheThrows, Throw
<1>9. ASSUME NEW c \in Calls, NEW r \in Requests, Begin(c, r) PROVE FillIsRead'
  <2>1. task[c]["cache"] = "none" /\ task[c]["primary"] = "none"
    BY <1>9 DEF Begin, Matching, Early
  <2> QED
    BY <1>9, <2>1 DEF Begin, FillIsRead, IsFill
<1>10. CASE Refresh \/ ShutDown \/ Destroy \/ Crash \/ UNCHANGED vars
  BY <1>1, <1>2, <1>10 DEF Refresh, ShutDown, Destroy, Crash, vars
<1> QED
  BY <1>3, <1>4, <1>5, <1>6, <1>7, <1>8, <1>9, <1>10, TaskCases DEF Next

LEMMA StepTypesDocs ==
    HandlersMatch /\ FillTyped /\ FillIsRead /\ DocsTyped /\ [Next]_vars => DocsTyped'
<1> SUFFICES ASSUME HandlersMatch, FillTyped, FillIsRead, DocsTyped, [Next]_vars PROVE DocsTyped'
  OBVIOUS
<1> USE DEF calls, tasks, stores
<1>1. ASSUME docs' \subseteq docs PROVE DocsTyped'
  BY <1>1 DEF DocsTyped
<1>2. ASSUME Terminate PROVE DocsTyped'
  BY <1>1, <1>2 DEF Terminate
<1>3. ASSUME NEW c \in Calls, HandlerStep(c) PROVE DocsTyped'
  BY <1>1, <1>2, <1>3 DEF HandlerStep, ClaimLook, ClaimInsert, ClaimThrows, LoadFetch, LoadFails,
     SearchCache, SearchPrimary, SearchThrows, FindReturns, PurgeBegins, PurgeReturns, PurgeLate
<1>4. ASSUME NEW c \in Calls, NEW l \in Lanes, TaskFrame(c, l) PROVE DocsTyped'
  BY <1>1, <1>2, <1>4 DEF TaskFrame, Start, End, Notify, StartLate
<1>5. ASSUME NEW c \in Calls, IndexDocs(c) PROVE DocsTyped'
  <2> DEFINE doc == [by |-> c, shown |-> FALSE,
                     song |-> IF IsFill(c) THEN fillSong[c] ELSE request[c].song,
                     rows |-> IF IsFill(c) THEN fetched[c] ELSE {request[c].print}]
  <2>1. task[c]["cache"] = "index" /\ docs' \subseteq docs \cup {doc}
    BY <1>5 DEF IndexDocs
  <2>2. pc[c] # "idle"
    BY <2>1 DEF HandlersMatch, Matching, Early, Lanes
  <2>3. request[c].song \in Songs /\ request[c].print \in Prints
    BY <2>2 DEF HandlersMatch, Matching, Requests
  <2>4. doc \in Docs
    BY <2>1, <2>3 DEF Docs, FillIsRead, FillTyped, Rows
  <2> QED
    BY <2>1, <2>4 DEF DocsTyped
<1>6. ASSUME NEW c \in Calls, TaskWork(c), ~IndexDocs(c) PROVE DocsTyped'
  BY <1>1, <1>6 DEF TaskWork, InsertPrint, InsertThrows, CleanClaim, CleanThrows, PurgePrimary,
     PurgePrimaryThrows, FillCount, FillSelect, FillThrows, IndexThrows, PurgeCache,
     PurgeCacheThrows
<1>7. CASE Refresh
  BY <1>7 DEF Refresh, DocsTyped, Docs
<1>8. CASE \/ \E c \in Calls, r \in Requests : Begin(c, r)
           \/ ShutDown \/ Destroy \/ Crash \/ UNCHANGED vars
  BY <1>1, <1>2, <1>8 DEF Begin, ShutDown, Destroy, Crash, vars
<1> QED
  BY <1>3, <1>4, <1>5, <1>6, <1>7, <1>8, TaskCases DEF Next

LEMMA StepTypesRest == HandlersMatch /\ RestTyped /\ [Next]_vars => RestTyped'
<1> SUFFICES ASSUME HandlersMatch, RestTyped, [Next]_vars PROVE RestTyped'
  OBVIOUS
<1> USE DEF calls, tasks, stores, process, Reply, RestTyped
<1>1. ASSUME NEW c \in Calls, SearchCache(c) \/ SearchPrimary(c) PROVE RestTyped'
  BY <1>1 DEF SearchCache, SearchPrimary, InCache, InPrimary
<1>2. ASSUME NEW c \in Calls, HandlerStep(c), ~(SearchCache(c) \/ SearchPrimary(c)) PROVE RestTyped'
  BY <1>2 DEF HandlerStep, ClaimLook, ClaimInsert, ClaimThrows, LoadFetch, LoadFails, Terminate,
     SearchThrows, FindReturns, PurgeBegins, PurgeReturns, PurgeLate
<1>3. ASSUME NEW c \in Calls, NEW l \in Lanes, TaskFrame(c, l) PROVE RestTyped'
  BY <1>3 DEF TaskFrame, Start, End, Notify, StartLate, Terminate
<1>4. ASSUME NEW c \in Calls, TaskWork(c) PROVE RestTyped'
  BY <1>4 DEF TaskWork, InsertPrint, InsertThrows, CleanClaim, CleanThrows, PurgePrimary,
     PurgePrimaryThrows, FillCount, FillSelect, FillThrows, IndexDocs, IndexThrows, PurgeCache,
     PurgeCacheThrows
<1>5. CASE \/ \E c \in Calls, r \in Requests : Begin(c, r)
           \/ Refresh \/ ShutDown \/ Destroy \/ Crash \/ UNCHANGED vars
  BY <1>5 DEF Begin, Refresh, ShutDown, Destroy, Crash, Terminate, vars
<1> QED
  BY <1>1, <1>2, <1>3, <1>4, <1>5, TaskCases DEF Next

Typed == /\ HandlersMatch /\ CountIsRight
         /\ RowsTyped /\ PoolTyped /\ FillTyped /\ FillIsRead /\ DocsTyped /\ RestTyped

LEMMA InitTyped == Init => Typed
<1> SUFFICES ASSUME Init PROVE Typed
  OBVIOUS
<1>1. HandlersMatch /\ CountIsRight /\ RowsTyped
  BY InitCounts, InitClaims
<1>2. PoolTyped
  BY FullTyped DEF Init, PoolTyped
<1>3. FillTyped /\ FillIsRead /\ DocsTyped /\ RestTyped
  BY DEF Init, FillTyped, FillIsRead, DocsTyped, RestTyped, Lanes
<1> QED
  BY <1>1, <1>2, <1>3 DEF Typed

LEMMA StepTyped == Typed /\ [Next]_vars => Typed'
BY StepMatches, StepCounts, StepTypesRows, StepTypesPools, StepTypesFills, StepReadsFills,
   StepTypesDocs, StepTypesRest, Zenon DEF Typed

\* The types, for any number of requests, songs and connections: the counter of
\* the tasks is never negative, and what is in the cache is about a song.
THEOREM TypesAreKept == Spec => []TypeOK
<1>1. Typed => TypeOK
  <2> SUFFICES ASSUME Typed PROVE TypeOK
    OBVIOUS
  <2>1. m_asyncCount \in Nat
    BY CountedIsFinite, FS_CardinalityType DEF Typed, CountIsRight
  <2> QED
    BY <2>1 DEF Typed, TypeOK, HandlersMatch, RowsTyped, PoolTyped, Kinds, FillTyped, DocsTyped,
       RestTyped
<1>2. Init => Typed
  BY InitTyped
<1>3. Typed /\ [Next]_vars => Typed'
  BY StepTyped
<1> QED
  BY <1>1, <1>2, <1>3, PTL DEF Spec

-----------------------------------------------------------------------------
(* Clients that wait, databases that work, and nothing that ends a task or   *)
(* the process before its time: what is left when all is done.               *)

\* Nobody has killed the process or torn it down, and no task has thrown.
Undisturbed == /\ crashes = 0 /\ engine # "gone"
               /\ \A c \in Calls, l \in Lanes : task[c][l] # "thrown"

IsUnderWay(c) == pc[c] \notin {"idle", "over"} \/ ~IsDone(c)

\* The rows of a song that nobody is at work on.
IsStored(s) == primary[s] = {} \/ \E f \in Prints : primary[s] = {f}

\* The cache has a copy of these rows, or has nothing of the song.
HasCopy(s, rows) ==
    /\ \A d \in docs : d.song = s => d.rows = rows
    /\ \A d, e \in docs : d.song = s /\ e.song = s => d = e
HasNone(s) == \A d \in docs : d.song # s

IsKept(s) ==
    /\ IsStored(s)
    /\ HasCopy(s, primary[s])
    /\ primary[s] = {} => HasNone(s)

Ended == {"end", "notify", "over"}

\* Where the load of a track is, and what is then stored of the song.
LoadAt(c) ==
    LET s == request[c].song
        f == request[c].print
        p == task[c]["primary"]
        k == task[c]["cache"]
    IN  /\ pc[c] \in {"look", "claim", "fetch", "over"}
        /\ pc[c] = "look" => IsKept(s)
        /\ pc[c] = "claim" => primary[s] = {} /\ HasNone(s)
        /\ pc[c] = "fetch" => primary[s] = {Claim} /\ HasNone(s)
        /\ pc[c] = "over" /\ p = "none" => k = "none" /\ IsKept(s)
        /\ p \in {"none", "queued", "insert", "clean"} \cup Ended
        /\ k \in {"none", "queued", "index"} \cup Ended
        /\ p \in {"queued", "insert"} => primary[s] = {Claim}
        /\ p = "clean" => primary[s] = {Claim, f}
        /\ p \in Ended => primary[s] = {f}
        /\ p # "none" /\ k \notin Ended => HasNone(s)
        /\ k \in Ended => HasCopy(s, {f})

\* A search, and the fill of the cache that comes after it.
FindAt(c) ==
    LET k == task[c]["cache"] IN
    /\ pc[c] \in {"searchCache", "searchPrimary", "answered", "over"}
    /\ IsKept(request[c].song)
    /\ task[c]["primary"] = "none"
    /\ k \in {"none", "queued", "count", "select", "index"} \cup Ended
    /\ k \in {"none", "queued", "count"} => Refreshed
    /\ k \in {"select", "index"} => HasNone(fillSong[c])
    /\ k = "index" => fetched[c] = primary[fillSong[c]] /\ fetched[c] # {}

\* The purge of a song, from both stores in any order.
DeleteAt(c) ==
    LET s == request[c].song
        p == task[c]["primary"]
        k == task[c]["cache"]
    IN  /\ pc[c] \in {"purge", "wait", "over"}
        /\ pc[c] = "over" => IsDone(c)
        /\ p \in {"none", "queued", "purge"} \cup Ended
        /\ k \in {"none", "queued", "purge"} \cup Ended
        /\ pc[c] # "purge" => p # "none" /\ k # "none"
        /\ p \in Ended => primary[s] = {}
        /\ p \notin Ended => IsStored(s)
        /\ k \in Ended => HasNone(s)
        /\ k \notin Ended => Refreshed

IsAt(c) ==
    /\ request[c].op = "load" => LoadAt(c)
    /\ request[c].op = "find" => FindAt(c)
    /\ request[c].op = "delete" => DeleteAt(c)

\* The call that began last, and nobody else, is at work, on one song.
HasTurn(c) ==
    /\ pc[c] # "idle"
    /\ \A d \in Calls \ {c} : ~IsUnderWay(d)
    /\ \A s \in Songs \ {request[c].song} : IsKept(s)
    /\ IsAt(c)

AtRest == Settled /\ \A s \in Songs : IsKept(s)

InTurns == AtRest \/ \E c \in Calls : HasTurn(c)

\* A search is answered once.
NotYetAnswered ==
    \A c \in Calls : pc[c] \in {"idle", "searchCache", "searchPrimary"} => answer[c] = Unanswered

LEMMA NobodyElse ==
    ASSUME Settled
    PROVE  \A c \in Calls : ~IsUnderWay(c)
BY DEF Settled, IsUnderWay

\* When the last call is done with, its song is kept too.
LEMMA DoneIsKept ==
    ASSUME Typed, NEW c \in Calls, HasTurn(c), ~IsUnderWay(c)
    PROVE  AtRest
<1>1. request[c] \in Requests /\ request[c].op \in {"load", "find", "delete"} /\ request[c].song \in Songs
  BY EngineAssumption DEF Typed, HandlersMatch, Matching, HasTurn, Requests
<1>2. pc[c] = "over" /\ IsDone(c)
  BY DEF HasTurn, IsUnderWay
<1>3. Settled
  BY <1>2 DEF HasTurn, IsUnderWay, Settled
<1> DEFINE s == request[c].song
<1>4. ASSUME request[c].op = "load" PROVE IsKept(s)
  <2>1. LoadAt(c)
    BY <1>4 DEF HasTurn, IsAt
  <2>2. CASE task[c]["primary"] = "none"
    BY <1>2, <2>1, <2>2 DEF LoadAt
  <2>3. CASE task[c]["primary"] # "none"
    <3>1. task[c]["primary"] = "over" /\ task[c]["cache"] \in {"none", "over"}
      BY <1>2, <2>1, <2>3 DEF LoadAt, IsDone, Lanes, Ended
    <3>2. primary[s] = {request[c].print} /\ request[c].print \in Prints
      BY <1>1, <2>1, <3>1 DEF LoadAt, Ended, Requests
    <3>3. HasCopy(s, primary[s])
      BY <2>1, <3>1, <3>2 DEF LoadAt, Ended, HasNone, HasCopy
    <3> QED
      BY <3>2, <3>3 DEF IsKept, IsStored
  <2> QED
    BY <2>2, <2>3
<1>5. ASSUME request[c].op = "find" PROVE IsKept(s)
  BY <1>5 DEF HasTurn, IsAt, FindAt
<1>6. ASSUME request[c].op = "delete" PROVE IsKept(s)
  <2>1. DeleteAt(c)
    BY <1>6 DEF HasTurn, IsAt
  <2>2. task[c]["primary"] = "over" /\ task[c]["cache"] = "over"
    BY <1>2, <2>1 DEF DeleteAt, IsDone, Lanes, Ended
  <2> QED
    BY <2>1, <2>2 DEF DeleteAt, Ended, IsKept, IsStored, HasNone, HasCopy
<1>7. IsKept(s)
  BY <1>1, <1>4, <1>5, <1>6
<1> HIDE DEF s
<1> QED
  BY <1>3, <1>7 DEF HasTurn, AtRest, s

LEMMA SettledAtRest ==
    ASSUME Typed, InTurns, Settled
    PROVE  AtRest
<1>1. ASSUME NEW c \in Calls, HasTurn(c) PROVE AtRest
  BY <1>1, NobodyElse, DoneIsKept
<1> QED
  BY <1>1 DEF InTurns

\* Who takes a step has the turn.
LEMMA OnlyOne ==
    ASSUME Typed, engine # "gone", NEW d \in Calls, ~IsUnderWay(d)
    PROVE  ~(HandlerStep(d) \/ PrimaryStep(d) \/ CacheStep(d))
<1>1. pc[d] \in {"idle", "over"} /\ \A l \in Lanes : task[d][l] \in {"none", "over", "thrown"}
  BY DEF IsUnderWay, IsDone
<1>2. ~HandlerStep(d)
  BY <1>1 DEF HandlerStep, ClaimLook, ClaimInsert, ClaimThrows, LoadFetch, LoadFails, SearchCache,
     SearchPrimary, SearchThrows, FindReturns, PurgeBegins, PurgeReturns, PurgeLate
<1>3. ~PrimaryStep(d)
  BY <1>1 DEF PrimaryStep, Start, InsertPrint, InsertThrows, CleanClaim, CleanThrows, PurgePrimary,
     PurgePrimaryThrows, End, Notify, StartLate, Lanes
<1>4. ~CacheStep(d)
  BY <1>1 DEF CacheStep, Start, FillCount, FillSelect, FillThrows, IndexDocs, IndexThrows,
     PurgeCache, PurgeCacheThrows, End, Notify, StartLate, Lanes
<1> QED
  BY <1>2, <1>3, <1>4

-----------------------------------------------------------------------------
(* One step of the call whose turn it is.                                    *)

LEMMA KeptStays ==
    ASSUME NEW s, IsKept(s), primary'[s] = primary[s], \A d \in docs' : d.song = s => d \in docs
    PROVE  IsKept(s)'
BY DEF IsKept, IsStored, HasCopy, HasNone

LEMMA StaysAway ==
    ASSUME NEW s, HasNone(s), \A d \in docs' : d.song = s => d \in docs
    PROVE  HasNone(s)'
BY DEF HasNone

\* The others wait, and their songs are left alone.
OnlyHere(c) ==
    /\ UNCHANGED request
    /\ pc'[c] # "idle"
    /\ \A d \in Calls \ {c} : pc'[d] = pc[d] /\ task'[d] = task[d]
    /\ \A s \in Songs \ {request[c].song} : primary'[s] = primary[s]
    /\ \A d \in docs' : d \in docs \/ d.song = request[c].song

LEMMA GoesOn ==
    ASSUME NEW c \in Calls, HasTurn(c), OnlyHere(c), IsAt(c)'
    PROVE  HasTurn(c)'
<1>1. \A s \in Songs \ {request[c].song} : IsKept(s)'
  BY KeptStays DEF HasTurn, OnlyHere
<1>2. \A d \in Calls \ {c} : ~IsUnderWay(d)'
  BY DEF HasTurn, OnlyHere, IsUnderWay, IsDone
<1> QED
  BY <1>1, <1>2 DEF HasTurn, OnlyHere

\* What a call that is at work has been asked for.
LEMMA Asked ==
    ASSUME Typed, NEW c \in Calls, HasTurn(c)
    PROVE  /\ request[c] \in Requests /\ request[c].op \in {"load", "find", "delete"}
           /\ request[c].song \in Songs /\ request[c].print \in Prints
           /\ request[c].isCaching \in BOOLEAN
           /\ pc[c] \in Early => \A l \in Lanes : task[c][l] = "none"
           /\ pc[c] \in {"look", "claim", "fetch"} => request[c].op = "load"
           /\ pc[c] \in {"purge", "wait"} => request[c].op = "delete"
BY EngineAssumption DEF Typed, HandlersMatch, Matching, HasTurn, Requests

LEMMA LookGoesOn ==
    ASSUME Typed, NEW c \in Calls, HasTurn(c), ClaimLook(c)
    PROVE  HasTurn(c)'
<1> DEFINE s == request[c].song
<1>1. /\ pc[c] = "look" /\ request[c].op = "load" /\ UNCHANGED <<stores, request, answer, tasks>>
      /\ \A l \in Lanes : task[c][l] = "none"
  BY Asked DEF ClaimLook, Early
<1>2. IsKept(s)
  BY <1>1 DEF HasTurn, IsAt, LoadAt
<1>3. \/ primary[s] # {} /\ pc' = [pc EXCEPT ![c] = "over"]
      \/ primary[s] = {} /\ pc' = [pc EXCEPT ![c] = "claim"]
  BY DEF ClaimLook, Goto
<1>4. OnlyHere(c)
  BY <1>1, <1>3 DEF OnlyHere, Typed, HandlersMatch, stores, tasks
<1>5. LoadAt(c)'
  BY <1>1, <1>2, <1>3 DEF LoadAt, stores, tasks, Lanes, Ended, IsKept, IsStored, HasCopy, HasNone,
     Typed, HandlersMatch
<1> QED
  BY <1>1, <1>4, <1>5, GoesOn DEF IsAt

LEMMA ClaimGoesOn ==
    ASSUME Typed, NEW c \in Calls, HasTurn(c), ClaimInsert(c)
    PROVE  HasTurn(c)'
<1> DEFINE s == request[c].song
<1>1. /\ pc[c] = "claim" /\ request[c].op = "load" /\ UNCHANGED <<docs, request, tasks>>
      /\ \A l \in Lanes : task[c][l] = "none"
      /\ s \in Songs
  BY Asked DEF ClaimInsert, Early
<1>2. primary[s] = {} /\ HasNone(s)
  BY <1>1 DEF HasTurn, IsAt, LoadAt
<1>3. pc' = [pc EXCEPT ![c] = "fetch"] /\ primary' = [primary EXCEPT ![s] = {Claim}]
  BY <1>2 DEF ClaimInsert, Goto
<1>4. OnlyHere(c)
  BY <1>1, <1>3 DEF OnlyHere, Typed, HandlersMatch, RowsTyped, tasks
<1>5. LoadAt(c)'
  BY <1>1, <1>2, <1>3 DEF LoadAt, tasks, Lanes, Ended, HasNone, Typed, HandlersMatch, RowsTyped
<1> QED
  BY <1>1, <1>4, <1>5, GoesOn DEF IsAt

LEMMA FetchGoesOn ==
    ASSUME Typed, NEW c \in Calls, HasTurn(c), LoadFetch(c)
    PROVE  HasTurn(c)'
<1> DEFINE s == request[c].song
<1>1. /\ pc[c] = "fetch" /\ request[c].op = "load" /\ UNCHANGED <<stores, request>>
      /\ request[c].isCaching \in BOOLEAN
  BY Asked DEF LoadFetch, Early
<1>2. primary[s] = {Claim} /\ HasNone(s)
  BY <1>1 DEF HasTurn, IsAt, LoadAt
<1>3. /\ pc' = [pc EXCEPT ![c] = "over"]
      /\ \A d \in Calls \ {c} : task'[d] = task[d]
      /\ task'[c]["primary"] = "queued" /\ task'[c]["cache"] \in {"none", "queued"}
  BY <1>1 DEF LoadFetch, Goto, Typed, HandlersMatch
<1>4. OnlyHere(c)
  BY <1>1, <1>3 DEF OnlyHere, Typed, HandlersMatch, stores
<1>5. LoadAt(c)'
  BY <1>1, <1>2, <1>3 DEF LoadAt, stores, Ended, HasNone, Typed, HandlersMatch
<1> QED
  BY <1>1, <1>4, <1>5, GoesOn DEF IsAt

LEMMA SearchGoesOn ==
    ASSUME Typed, NEW c \in Calls, HasTurn(c),
           SearchCache(c) \/ SearchPrimary(c) \/ FindReturns(c)
    PROVE  HasTurn(c)'
<1>1. /\ pc[c] \in {"searchCache", "searchPrimary", "answered"}
      /\ UNCHANGED <<stores, request>>
  BY DEF SearchCache, SearchPrimary, FindReturns
<1>2. request[c].op = "find"
  <2>1. request[c].op # "load" /\ request[c].op # "delete"
    BY <1>1 DEF HasTurn, IsAt, LoadAt, DeleteAt
  <2> QED
    BY <2>1, Asked
<1>3. FindAt(c) /\ IsKept(request[c].song)
  BY <1>2 DEF HasTurn, IsAt, FindAt
<1>4. pc[c] \in {"searchCache", "searchPrimary"} => \A l \in Lanes : task[c][l] = "none"
  BY Asked DEF Early
<1>5. \E x \in {"searchPrimary", "answered", "over"} : pc' = [pc EXCEPT ![c] = x]
  BY DEF SearchCache, SearchPrimary, FindReturns, Goto
<1>6. \/ UNCHANGED <<task, fillSong, fetched>>
      \/ /\ pc[c] = "searchPrimary" /\ task' = [task EXCEPT ![c]["cache"] = "queued"]
         /\ UNCHANGED fetched
  BY DEF SearchCache, SearchPrimary, FindReturns, tasks, TaskGoto
<1>7. OnlyHere(c)
  BY <1>1, <1>5, <1>6 DEF OnlyHere, Typed, HandlersMatch, stores
<1>8. IsKept(request[c].song)'
  BY <1>1, <1>3 DEF IsKept, IsStored, HasCopy, HasNone, stores
<1>9. CASE UNCHANGED <<task, fillSong, fetched>>
  <2>1. FindAt(c)'
    BY <1>1, <1>3, <1>5, <1>8, <1>9 DEF FindAt, stores, Refreshed, HasNone, Typed, HandlersMatch
  <2> QED
    BY <1>1, <1>2, <1>7, <2>1, GoesOn DEF IsAt
<1>10. CASE /\ pc[c] = "searchPrimary" /\ task' = [task EXCEPT ![c]["cache"] = "queued"]
            /\ UNCHANGED fetched
  <2>1. task'[c]["cache"] = "queued" /\ task'[c]["primary"] = "none" /\ Refreshed
    BY <1>3, <1>4, <1>10 DEF FindAt, Lanes, Typed, HandlersMatch
  <2>2. FindAt(c)'
    BY <1>1, <1>3, <1>5, <1>8, <2>1 DEF FindAt, stores, Refreshed, Ended, Typed, HandlersMatch
  <2> QED
    BY <1>1, <1>2, <1>7, <2>2, GoesOn DEF IsAt
<1> QED
  BY <1>6, <1>9, <1>10

LEMMA PurgeBeginsGoesOn ==
    ASSUME Typed, NEW c \in Calls, HasTurn(c), PurgeBegins(c) \/ PurgeReturns(c)
    PROVE  HasTurn(c)'
<1>1. request[c].op = "delete" /\ UNCHANGED <<stores, request>>
  BY Asked DEF PurgeBegins, PurgeReturns
<1>2. DeleteAt(c)
  BY <1>1 DEF HasTurn, IsAt
<1>3. \A d \in Calls \ {c} : pc'[d] = pc[d] /\ task'[d] = task[d]
  BY DEF PurgeBegins, PurgeReturns, Goto, tasks, Typed, HandlersMatch
<1>4. CASE PurgeBegins(c)
  <2>1. /\ pc[c] = "purge" /\ pc'[c] = "wait"
        /\ task'[c]["primary"] = "queued" /\ task'[c]["cache"] = "queued"
    BY <1>4 DEF PurgeBegins, Goto, Typed, HandlersMatch, Lanes
  <2>2. \A l \in Lanes : task[c][l] = "none"
    BY <2>1, Asked DEF Early
  <2>3. OnlyHere(c)
    BY <1>1, <1>3, <2>1 DEF OnlyHere, stores
  <2>4. DeleteAt(c)'
    BY <1>1, <1>2, <2>1, <2>2 DEF DeleteAt, Ended, Lanes, stores, IsStored, Refreshed
  <2> QED
    BY <1>1, <2>3, <2>4, GoesOn DEF IsAt
<1>5. CASE PurgeReturns(c)
  <2>1. /\ pc[c] = "wait" /\ pc'[c] = "over" /\ UNCHANGED task /\ IsDone(c)
    BY <1>5 DEF PurgeReturns, Goto, Typed, HandlersMatch, tasks
  <2>2. OnlyHere(c)
    BY <1>1, <1>3, <2>1 DEF OnlyHere, stores
  <2>3. DeleteAt(c)'
    BY <1>1, <1>2, <2>1 DEF DeleteAt, Ended, IsDone, stores, IsStored, Refreshed, HasNone
  <2> QED
    BY <1>1, <2>2, <2>3, GoesOn DEF IsAt
<1> QED
  BY <1>4, <1>5

-----------------------------------------------------------------------------
(* One step of a task of that call.                                          *)

LEMMA NobodyElseStarts ==
    ASSUME Typed, NEW c \in Calls, HasTurn(c), NEW l \in Lanes, task[c][l] # "none"
    PROVE  pc[c] \notin {"idle", "look", "claim", "fetch", "searchCache", "searchPrimary", "purge"}
BY DEF Typed, HandlersMatch, Matching, Early

LEMMA StartGoesOn ==
    ASSUME Typed, NEW c \in Calls, HasTurn(c), NEW l \in Lanes, Start(c, l)
    PROVE  HasTurn(c)'
<1> DEFINE x == FirstTaskStep(request[c].op, l)
<1>1. /\ task[c][l] = "queued" /\ task' = [task EXCEPT ![c][l] = x]
      /\ UNCHANGED <<stores, request, pc, fetched>>
  BY DEF Start, TaskGoto, calls
<1>2. OnlyHere(c)
  BY <1>1 DEF OnlyHere, Typed, HandlersMatch, stores, HasTurn
<1>3. /\ task'[c][l] = x
      /\ \A k \in Lanes \ {l} : task'[c][k] = task[c][k]
  BY <1>1 DEF Typed, HandlersMatch
<1>4. CASE request[c].op = "load"
  <2>1. LoadAt(c)
    BY <1>4 DEF HasTurn, IsAt
  <2>2. x = IF l = "primary" THEN "insert" ELSE "index"
    BY <1>4 DEF FirstTaskStep
  <2> HIDE DEF x
  <2>3. LoadAt(c)'
    BY <1>1, <1>3, <2>1, <2>2 DEF LoadAt, Lanes, Ended, stores, IsKept, IsStored, HasCopy, HasNone
  <2> QED
    BY <1>1, <1>2, <1>4, <2>3, GoesOn DEF IsAt
<1>5. CASE request[c].op = "find"
  <2>1. FindAt(c)
    BY <1>5 DEF HasTurn, IsAt
  <2>2. x = "count" /\ l = "cache"
    BY <1>1, <1>5, <2>1 DEF FirstTaskStep, FindAt, Lanes
  <2> HIDE DEF x
  <2>3. FindAt(c)'
    BY <1>1, <1>3, <2>1, <2>2 DEF FindAt, Lanes, Ended, stores, IsKept, IsStored, HasCopy, HasNone,
       Refreshed
  <2> QED
    BY <1>1, <1>2, <1>5, <2>3, GoesOn DEF IsAt
<1>6. CASE request[c].op = "delete"
  <2>1. DeleteAt(c)
    BY <1>6 DEF HasTurn, IsAt
  <2>2. x = "purge"
    BY <1>6 DEF FirstTaskStep
  <2> HIDE DEF x
  <2>3. pc[c] # "over"
    BY <1>1, <2>1 DEF DeleteAt, IsDone
  <2>4. DeleteAt(c)'
    BY <1>1, <1>3, <2>1, <2>2, <2>3 DEF DeleteAt, Lanes, Ended, stores, IsStored, HasNone, Refreshed
  <2> QED
    BY <1>1, <1>2, <1>6, <2>4, GoesOn DEF IsAt
<1> QED
  BY <1>4, <1>5, <1>6, Asked

\* A task that has done its work stays in Ended.
LEMMA EndGoesOn ==
    ASSUME Typed, NEW c \in Calls, HasTurn(c), NEW l \in Lanes, End(c, l) \/ Notify(c, l)
    PROVE  HasTurn(c)'
<1>1. PICK x \in {"notify", "over"} : task' = [task EXCEPT ![c][l] = x]
  BY DEF End, Notify, TaskGoto
<1>2. task[c][l] \in {"end", "notify"} /\ UNCHANGED <<stores, request, pc, fillSong, fetched>>
  BY DEF End, Notify, calls
<1>3. OnlyHere(c)
  BY <1>1, <1>2 DEF OnlyHere, Typed, HandlersMatch, stores, HasTurn
<1>4. /\ task'[c][l] = x
      /\ \A k \in Lanes \ {l} : task'[c][k] = task[c][k]
  BY <1>1 DEF Typed, HandlersMatch
<1>5. CASE request[c].op = "load"
  <2>1. LoadAt(c)
    BY <1>5 DEF HasTurn, IsAt
  <2>2. LoadAt(c)'
    BY <1>2, <1>4, <2>1 DEF LoadAt, Lanes, Ended, stores, IsKept, IsStored, HasCopy, HasNone
  <2> QED
    BY <1>2, <1>3, <1>5, <2>2, GoesOn DEF IsAt
<1>6. CASE request[c].op = "find"
  <2>1. FindAt(c)
    BY <1>6 DEF HasTurn, IsAt
  <2>2. FindAt(c)'
    BY <1>2, <1>4, <2>1 DEF FindAt, Lanes, Ended, stores, IsKept, IsStored, HasCopy, HasNone, Refreshed
  <2> QED
    BY <1>2, <1>3, <1>6, <2>2, GoesOn DEF IsAt
<1>7. CASE request[c].op = "delete"
  <2>1. DeleteAt(c)
    BY <1>7 DEF HasTurn, IsAt
  <2>2. pc[c] # "over"
    BY <1>2, <2>1 DEF DeleteAt, IsDone
  <2>3. DeleteAt(c)'
    BY <1>2, <1>4, <2>1, <2>2 DEF DeleteAt, Lanes, Ended, stores, IsStored, HasNone, Refreshed
  <2> QED
    BY <1>2, <1>3, <1>7, <2>3, GoesOn DEF IsAt
<1> QED
  BY <1>5, <1>6, <1>7, Asked

LEMMA InsertPrintGoesOn ==
    ASSUME Typed, NEW c \in Calls, HasTurn(c), InsertPrint(c) \/ CleanClaim(c)
    PROVE  HasTurn(c)'
<1> DEFINE s == request[c].song
           f == request[c].print
<1>1. /\ task[c]["primary"] \in {"insert", "clean"} /\ UNCHANGED <<docs, request, pc, fillSong, fetched>>
      /\ request[c].op = "load" /\ s \in Songs /\ f \in Prints
  BY Asked DEF InsertPrint, CleanClaim, calls, HasTurn, IsAt, FindAt, DeleteAt, Ended
<1>2. LoadAt(c)
  BY <1>1 DEF HasTurn, IsAt
<1>3. \/ /\ task[c]["primary"] = "insert" /\ primary' = [primary EXCEPT ![s] = {Claim, f}]
         /\ task' = [task EXCEPT ![c]["primary"] = "clean"]
      \/ /\ task[c]["primary"] = "clean" /\ primary' = [primary EXCEPT ![s] = {f}]
         /\ task' = [task EXCEPT ![c]["primary"] = "end"]
  <2>1. CASE InsertPrint(c)
    <3>1. primary[s] = {Claim}
      BY <1>2, <2>1 DEF InsertPrint, LoadAt
    <3>2. primary[s] \cup {f} = {Claim, f}
      BY <3>1
    <3> QED
      BY <2>1, <3>2 DEF InsertPrint, TaskGoto
  <2>2. CASE CleanClaim(c)
    <3>1. primary[s] = {Claim, f} /\ Claim # f
      BY <1>1, <1>2, <2>2, EngineAssumption DEF CleanClaim, LoadAt
    <3>2. primary[s] \ {Claim} = {f}
      BY <3>1
    <3> QED
      BY <2>2, <3>2 DEF CleanClaim, TaskGoto
  <2> QED
    BY <2>1, <2>2
<1>4. OnlyHere(c)
  BY <1>1, <1>3 DEF OnlyHere, Typed, HandlersMatch, RowsTyped, HasTurn
<1>5. task'[c]["cache"] = task[c]["cache"] /\ task[c]["primary"] # "none"
  BY <1>3 DEF Typed, HandlersMatch, Lanes
<1>6. \/ /\ task[c]["primary"] = "insert" /\ task'[c]["primary"] = "clean" /\ primary'[s] = {Claim, f}
      \/ /\ task[c]["primary"] = "clean" /\ task'[c]["primary"] = "end" /\ primary'[s] = {f}
  BY <1>1, <1>3 DEF Typed, HandlersMatch, RowsTyped, Lanes
<1>7. pc[c] = "over"
  <2>1. pc[c] \notin Early
    BY <1>5 DEF Typed, HandlersMatch, Matching, Lanes
  <2> QED
    BY <1>2, <2>1 DEF LoadAt, Early
<1>8. LoadAt(c)'
  BY <1>1, <1>2, <1>5, <1>6, <1>7 DEF LoadAt, Ended, HasNone, HasCopy
<1> QED
  BY <1>1, <1>4, <1>8, GoesOn DEF IsAt

LEMMA PurgePrimaryGoesOn ==
    ASSUME Typed, NEW c \in Calls, HasTurn(c), PurgePrimary(c)
    PROVE  HasTurn(c)'
<1> DEFINE s == request[c].song
<1>1. /\ task[c]["primary"] = "purge" /\ UNCHANGED <<docs, request, pc, fillSong, fetched>>
      /\ request[c].op = "delete" /\ s \in Songs
  BY Asked DEF PurgePrimary, calls, HasTurn, IsAt, FindAt, LoadAt, Ended
<1>2. DeleteAt(c)
  BY <1>1 DEF HasTurn, IsAt
<1>3. /\ primary' = [primary EXCEPT ![s] = {}] /\ task' = [task EXCEPT ![c]["primary"] = "end"]
  BY DEF PurgePrimary, TaskGoto
<1>4. OnlyHere(c)
  BY <1>1, <1>3 DEF OnlyHere, Typed, HandlersMatch, RowsTyped, HasTurn
<1>5. /\ task'[c]["primary"] = "end" /\ task'[c]["cache"] = task[c]["cache"]
      /\ primary'[s] = {}
  BY <1>1, <1>3 DEF Typed, HandlersMatch, RowsTyped, Lanes
<1>6. pc[c] = "wait"
  <2>1. pc[c] # "purge" /\ pc[c] # "over"
    BY <1>1, <1>2, NobodyElseStarts DEF DeleteAt, IsDone, Lanes
  <2> QED
    BY <1>2, <2>1 DEF DeleteAt
<1>7. DeleteAt(c)'
  BY <1>1, <1>2, <1>5, <1>6 DEF DeleteAt, Ended, HasNone, Refreshed
<1> QED
  BY <1>1, <1>4, <1>7, GoesOn DEF IsAt

\* All documents are shown while a purge looks for them.
LEMMA PurgeCacheGoesOn ==
    ASSUME Typed, ~Faults, NEW c \in Calls, HasTurn(c), PurgeCache(c)
    PROVE  HasTurn(c)'
<1> DEFINE s == request[c].song
<1>1. /\ task[c]["cache"] = "purge" /\ UNCHANGED <<primary, request, pc, fillSong, fetched>>
      /\ request[c].op = "delete" /\ s \in Songs
  BY Asked DEF PurgeCache, calls, HasTurn, IsAt, FindAt, LoadAt, Ended
<1>2. DeleteAt(c)
  BY <1>1 DEF HasTurn, IsAt
<1>3. /\ docs' = docs \ Purged(s) /\ task' = [task EXCEPT ![c]["cache"] = "end"]
  BY DEF PurgeCache, TaskGoto
<1>4. OnlyHere(c)
  BY <1>1, <1>3 DEF OnlyHere, Typed, HandlersMatch, HasTurn
<1>5. /\ task'[c]["cache"] = "end" /\ task'[c]["primary"] = task[c]["primary"]
  BY <1>1, <1>3 DEF Typed, HandlersMatch, Lanes
<1>6. pc[c] = "wait"
  <2>1. pc[c] # "purge" /\ pc[c] # "over"
    BY <1>1, <1>2, NobodyElseStarts DEF DeleteAt, IsDone, Lanes
  <2> QED
    BY <1>2, <2>1 DEF DeleteAt
<1>7. Refreshed
  BY <1>1, <1>2 DEF DeleteAt, Ended
<1>8. HasNone(s)'
  BY <1>1, <1>3, <1>7 DEF HasNone, Refreshed, Purged
<1>9. DeleteAt(c)'
  BY <1>1, <1>2, <1>5, <1>6, <1>8 DEF DeleteAt, Ended, IsStored
<1> QED
  BY <1>1, <1>4, <1>9, GoesOn DEF IsAt

LEMMA FillGoesOn ==
    ASSUME Typed, ~Faults, NEW c \in Calls, HasTurn(c), FillCount(c) \/ FillSelect(c)
    PROVE  HasTurn(c)'
<1>1. /\ task[c]["cache"] \in {"count", "select"} /\ UNCHANGED <<stores, request, pc, fillSong>>
      /\ request[c].op = "find"
  BY Asked DEF FillCount, FillSelect, calls, HasTurn, IsAt, DeleteAt, LoadAt, Ended
<1>2. FindAt(c)
  BY <1>1 DEF HasTurn, IsAt
<1>3. \E x \in {"end", "select", "index"} : task' = [task EXCEPT ![c]["cache"] = x]
  BY DEF FillCount, FillSelect, TaskGoto
<1>4. OnlyHere(c)
  BY <1>1, <1>3 DEF OnlyHere, Typed, HandlersMatch, HasTurn, stores
<1>5. pc[c] \in {"answered", "over"} /\ IsKept(request[c].song)'
  <2>1. pc[c] \notin Early
    BY <1>1, NobodyElseStarts DEF Lanes, Early
  <2> QED
    BY <1>1, <1>2, <2>1 DEF FindAt, Early, IsKept, IsStored, HasCopy, HasNone, stores
<1>6. task'[c]["primary"] = task[c]["primary"]
  BY <1>3 DEF Typed, HandlersMatch, Lanes
<1>7. CASE FillCount(c)
  <2>1. Refreshed
    BY <1>2, <1>7 DEF FillCount, FindAt
  <2>2. \/ task'[c]["cache"] = "end"
        \/ task'[c]["cache"] = "select" /\ HasNone(fillSong[c])
    BY <1>7, <2>1 DEF FillCount, TaskGoto, Refreshed, HasNone, Typed, HandlersMatch, Lanes
  <2>3. FindAt(c)'
    BY <1>1, <1>2, <1>5, <1>6, <2>2 DEF FindAt, Ended, stores, HasNone
  <2> QED
    BY <1>1, <1>4, <2>3, GoesOn DEF IsAt
<1>8. CASE FillSelect(c)
  <2>1. HasNone(fillSong[c])
    BY <1>2, <1>8 DEF FillSelect, FindAt
  <2>2. \/ task'[c]["cache"] = "end"
        \/ /\ task'[c]["cache"] = "index"
           /\ fetched'[c] = primary[fillSong[c]] /\ fetched'[c] # {}
    BY <1>8 DEF FillSelect, TaskGoto, Typed, HandlersMatch, FillTyped, Lanes
  <2>3. FindAt(c)'
    BY <1>1, <1>2, <1>5, <1>6, <2>1, <2>2 DEF FindAt, Ended, stores, HasNone
  <2> QED
    BY <1>1, <1>4, <2>3, GoesOn DEF IsAt
<1> QED
  BY <1>7, <1>8

\* What a load puts into the cache is what it puts into the primary storage.
LEMMA IndexGoesOn ==
    ASSUME Typed, ~Faults, NEW c \in Calls, HasTurn(c), IndexDocs(c), request[c].op = "load"
    PROVE  HasTurn(c)'
<1> DEFINE s == request[c].song
           f == request[c].print
           doc == [by |-> c, shown |-> FALSE, song |-> s, rows |-> {f}]
<1>1. /\ task[c]["cache"] = "index" /\ UNCHANGED <<primary, request, pc, fillSong, fetched>>
      /\ docs' = docs \cup {doc}
      /\ task' = [task EXCEPT ![c]["cache"] = "end"]
  BY DEF IndexDocs, calls, IsFill, TaskGoto
<1>2. doc.song = s /\ doc.rows = {f}
  OBVIOUS
<1> HIDE DEF doc
<1>3. OnlyHere(c)
  BY <1>1, <1>2 DEF OnlyHere, Typed, HandlersMatch, HasTurn
<1>4. LoadAt(c)
  BY DEF HasTurn, IsAt
<1>5. pc[c] = "over" /\ task[c]["primary"] # "none"
  <2>1. pc[c] \notin Early
    BY <1>1, NobodyElseStarts DEF Lanes, Early
  <2> QED
    BY <1>1, <1>4, <2>1 DEF LoadAt, Early
<1>6. HasNone(s)
  BY <1>1, <1>4, <1>5 DEF LoadAt, Ended
<1>7. HasCopy(s, {f})'
  BY <1>1, <1>2, <1>6 DEF HasNone, HasCopy
<1>8. task'[c]["cache"] = "end" /\ task'[c]["primary"] = task[c]["primary"]
  BY <1>1 DEF Typed, HandlersMatch, Lanes
<1>9. LoadAt(c)'
  BY <1>1, <1>4, <1>5, <1>7, <1>8 DEF LoadAt, Ended
<1> QED
  BY <1>1, <1>3, <1>9, GoesOn DEF IsAt

\* What a fill puts into the cache is what the primary storage has, of the song
\* it was given or of any other.
LEMMA FillIndexGoesOn ==
    ASSUME Typed, ~Faults, NEW c \in Calls, HasTurn(c), IndexDocs(c), request[c].op = "find"
    PROVE  HasTurn(c)'
<1> DEFINE t == fillSong[c]
           doc == [by |-> c, shown |-> FALSE, song |-> t, rows |-> fetched[c]]
<1>1. /\ task[c]["cache"] = "index" /\ UNCHANGED <<primary, request, pc, fillSong, fetched>>
      /\ docs' = docs \cup {doc}
      /\ task' = [task EXCEPT ![c]["cache"] = "end"]
  BY DEF IndexDocs, calls, IsFill, TaskGoto
<1>2. doc.song = t /\ doc.rows = fetched[c]
  OBVIOUS
<1> HIDE DEF doc
<1>3. FindAt(c)
  BY DEF HasTurn, IsAt
<1>4. HasNone(t) /\ fetched[c] = primary[t] /\ fetched[c] # {}
  BY <1>1, <1>3 DEF FindAt
<1>5. \A s \in Songs : IsKept(s)
  BY <1>3 DEF FindAt, HasTurn
<1>6. \A s \in Songs : IsKept(s)'
  <2> SUFFICES ASSUME NEW s \in Songs PROVE IsKept(s)'
    OBVIOUS
  <2>1. CASE s # t
    BY <1>1, <1>2, <1>5, <2>1, KeptStays
  <2>2. CASE s = t
    <3>1. HasCopy(t, primary[t])'
      BY <1>1, <1>2, <1>4 DEF HasNone, HasCopy
    <3>2. IsStored(s)' /\ primary'[s] # {}
      BY <1>1, <1>4, <1>5, <2>2 DEF IsKept, IsStored
    <3> QED
      BY <1>1, <2>2, <3>1, <3>2 DEF IsKept
  <2> QED
    BY <2>1, <2>2
<1>7. /\ task'[c]["cache"] = "end" /\ task'[c]["primary"] = task[c]["primary"]
      /\ \A d \in Calls \ {c} : pc'[d] = pc[d] /\ task'[d] = task[d]
  BY <1>1 DEF Typed, HandlersMatch, Lanes
<1>8. pc[c] \in {"answered", "over"} /\ request[c].song \in Songs
  <2>1. pc[c] \notin Early
    BY <1>1, NobodyElseStarts DEF Lanes, Early
  <2> QED
    BY <1>3, <2>1, Asked DEF FindAt, Early
<1>9. FindAt(c)'
  BY <1>1, <1>3, <1>6, <1>7, <1>8 DEF FindAt, Ended
<1>10. \A d \in Calls \ {c} : ~IsUnderWay(d)'
  BY <1>7 DEF HasTurn, IsUnderWay, IsDone
<1> QED
  BY <1>1, <1>6, <1>9, <1>10 DEF HasTurn, IsAt

-----------------------------------------------------------------------------
(* One step of anybody.                                                      *)

LEMMA RefreshGoesOn ==
    ASSUME Typed, InTurns, Refresh
    PROVE  InTurns'
<1>1. /\ UNCHANGED <<primary, request, pc, task, fillSong, fetched>>
      /\ docs' = {[d EXCEPT !.shown = TRUE] : d \in docs}
  BY DEF Refresh, calls, tasks
<1>2. \A d \in docs' : \E e \in docs : d.song = e.song /\ d.rows = e.rows /\ d = [e EXCEPT !.shown = TRUE]
  BY <1>1 DEF Typed, DocsTyped, Docs
<1>3. Refreshed'
  BY <1>1 DEF Refreshed, Typed, DocsTyped, Docs
<1>4. \A s : HasNone(s) => HasNone(s)'
  BY <1>2 DEF HasNone
<1>5. \A s, rows : HasCopy(s, rows) => HasCopy(s, rows)'
  <2> SUFFICES ASSUME NEW s, NEW rows, HasCopy(s, rows),
                      NEW d \in docs', NEW e \in docs', d.song = s, e.song = s
               PROVE  d.rows = rows /\ d = e
    BY DEF HasCopy
  <2>1. PICK d0 \in docs : d.song = d0.song /\ d.rows = d0.rows /\ d = [d0 EXCEPT !.shown = TRUE]
    BY <1>2
  <2>2. PICK e0 \in docs : e.song = e0.song /\ e = [e0 EXCEPT !.shown = TRUE]
    BY <1>2
  <2>3. d0 = e0
    BY <2>1, <2>2 DEF HasCopy
  <2> QED
    BY <2>1, <2>2, <2>3 DEF HasCopy
<1>6. \A s : IsKept(s) => IsKept(s)'
  BY <1>1, <1>4, <1>5 DEF IsKept, IsStored
<1>7. AtRest => AtRest'
  BY <1>1, <1>6 DEF AtRest, Settled, IsDone
<1>8. ASSUME NEW c \in Calls, HasTurn(c) PROVE HasTurn(c)'
  <2>1. LoadAt(c) => LoadAt(c)'
    BY <1>1, <1>4, <1>5, <1>6 DEF LoadAt
  <2>2. FindAt(c) => FindAt(c)'
    BY <1>1, <1>3, <1>4, <1>6 DEF FindAt
  <2>3. DeleteAt(c) => DeleteAt(c)'
    BY <1>1, <1>3, <1>4 DEF DeleteAt, IsDone, IsStored
  <2>4. \A d : IsUnderWay(d)' => IsUnderWay(d)
    BY <1>1 DEF IsUnderWay, IsDone
  <2> QED
    BY <1>1, <1>6, <1>8, <2>1, <2>2, <2>3, <2>4 DEF HasTurn, IsAt
<1> QED
  BY <1>7, <1>8 DEF InTurns

\* A call begins when nothing is under way: it has the turn.
LEMMA BeginGoesOn ==
    ASSUME Typed, Paced, InTurns, NEW c \in Calls, NEW r \in Requests, Begin(c, r)
    PROVE  HasTurn(c)'
<1>1. AtRest /\ Refreshed
  BY SettledAtRest DEF Begin
<1>2. /\ UNCHANGED <<primary, docs, task, fillSong, fetched>>
      /\ request' = [request EXCEPT ![c] = r] /\ pc' = [pc EXCEPT ![c] = FirstStep(r.op)]
  BY DEF Begin, Goto, stores, tasks
<1>3. /\ r.op \in {"load", "find", "delete"} /\ r.song \in Songs
      /\ \A l \in Lanes : task[c][l] = "none"
  BY EngineAssumption DEF Requests, Begin, Typed, HandlersMatch, Matching, Early
<1>4. request'[c] = r /\ pc'[c] = FirstStep(r.op)
  BY <1>2 DEF Typed, HandlersMatch
<1>5. pc'[c] \in {"look", "searchCache", "purge"}
  BY <1>3, <1>4 DEF FirstStep
<1>6. \A d \in Calls \ {c} : ~IsUnderWay(d)'
  BY <1>1, <1>2 DEF AtRest, Settled, IsUnderWay, IsDone, Typed, HandlersMatch
<1>7. \A s \in Songs : IsKept(s)'
  BY <1>1, <1>2 DEF AtRest, IsKept, IsStored, HasCopy, HasNone
<1>8. task'[c]["primary"] = "none" /\ task'[c]["cache"] = "none" /\ Refreshed'
  BY <1>1, <1>2, <1>3 DEF Lanes, Refreshed
<1>9. IsKept(r.song)' /\ IsStored(r.song)'
  BY <1>3, <1>7 DEF IsKept
<1>10. CASE r.op = "load"
  <2>1. LoadAt(c)'
    BY <1>4, <1>8, <1>9, <1>10 DEF LoadAt, FirstStep, Ended
  <2> QED
    BY <1>4, <1>5, <1>6, <1>7, <1>10, <2>1 DEF HasTurn, IsAt
<1>11. CASE r.op = "find"
  <2>1. FindAt(c)'
    BY <1>4, <1>8, <1>9, <1>11 DEF FindAt, FirstStep, Ended
  <2> QED
    BY <1>4, <1>5, <1>6, <1>7, <1>11, <2>1 DEF HasTurn, IsAt
<1>12. CASE r.op = "delete"
  <2>1. DeleteAt(c)'
    BY <1>4, <1>8, <1>9, <1>12 DEF DeleteAt, FirstStep, Ended
  <2> QED
    BY <1>4, <1>5, <1>6, <1>7, <1>12, <2>1 DEF HasTurn, IsAt
<1> QED
  BY <1>3, <1>10, <1>11, <1>12

\* A search that has found a connection to the wrong database ends the process,
\* and leaves nothing behind.
LEMMA SearchThrowsAway ==
    ASSUME Typed, NEW c \in Calls, HasTurn(c), SearchThrows(c)
    PROVE  AtRest'
<1>1. pc[c] \in {"searchCache", "searchPrimary"} /\ Terminate
  BY DEF SearchThrows
<1>2. request[c].op = "find"
  <2>1. request[c].op # "load" /\ request[c].op # "delete"
    BY <1>1 DEF HasTurn, IsAt, LoadAt, DeleteAt
  <2> QED
    BY <2>1, Asked
<1>3. \A s \in Songs : IsKept(s)
  BY <1>2 DEF HasTurn, IsAt, FindAt
<1>4. \A s \in Songs : IsKept(s)'
  BY <1>1, <1>3 DEF Terminate, stores, IsKept, IsStored, HasCopy, HasNone
<1>5. Settled'
  BY <1>1 DEF Terminate, Settled, IsDone, Typed, HandlersMatch
<1> QED
  BY <1>4, <1>5 DEF AtRest

\* What does not happen when databases work and one call is made at a time.
LEMMA NothingFails ==
    ASSUME Typed, ~Faults, engine # "gone", NEW c \in Calls, HasTurn(c)
    PROVE  /\ ~ClaimThrows(c) /\ ~LoadFails(c) /\ ~PurgeLate(c)
           /\ ~InsertThrows(c) /\ ~CleanThrows(c) /\ ~PurgePrimaryThrows(c)
           /\ \A l \in Lanes : ~StartLate(c, l)
<1>1. ~ClaimThrows(c)
  <2> SUFFICES ASSUME ClaimThrows(c) PROVE FALSE
    OBVIOUS
  <2>1. pc[c] = "claim" /\ Claim \in primary[request[c].song]
    BY DEF ClaimThrows, ClaimIsFree
  <2>2. LoadAt(c)
    BY <2>1, Asked DEF HasTurn, IsAt
  <2> QED
    BY <2>1, <2>2 DEF LoadAt
<1>2. ~InsertThrows(c)
  <2> SUFFICES ASSUME InsertThrows(c) PROVE FALSE
    OBVIOUS
  <2>1. task[c]["primary"] = "insert" /\ primary[request[c].song] # {Claim}
    BY DEF InsertThrows
  <2>2. LoadAt(c)
    BY <2>1, Asked DEF HasTurn, IsAt, FindAt, DeleteAt, Ended
  <2> QED
    BY <2>1, <2>2 DEF LoadAt
<1> QED
  BY <1>1, <1>2 DEF LoadFails, PurgeLate, CleanThrows, PurgePrimaryThrows, StartLate

\* A request to Elasticsearch that is made with a connection to PostgreSQL.
CacheThrows(c) == FillThrows(c) \/ IndexThrows(c) \/ PurgeCacheThrows(c)

LEMMA CacheThrowsThrow ==
    ASSUME Typed, NEW c \in Calls, CacheThrows(c)
    PROVE  ~Undisturbed'
<1>1. task' = [task EXCEPT ![c]["cache"] = "thrown"]
  BY DEF CacheThrows, FillThrows, IndexThrows, PurgeCacheThrows, Throw, TaskGoto
<1>2. task'[c]["cache"] = "thrown"
  BY <1>1 DEF Typed, HandlersMatch, Lanes
<1> QED
  BY <1>2 DEF Undisturbed, Lanes

LEMMA StepInTurns ==
    ASSUME Typed, Paced, ~Faults, InTurns, Undisturbed, Undisturbed', [Next]_vars
    PROVE  InTurns'
<1>1. ASSUME NEW c \in Calls, HandlerStep(c) \/ PrimaryStep(c) \/ CacheStep(c)
      PROVE  InTurns'
  <2>1. HasTurn(c)
    <3>1. IsUnderWay(c)
      BY <1>1, OnlyOne DEF Undisturbed
    <3> QED
      BY <3>1, NobodyElse DEF InTurns, AtRest, HasTurn
  <2>2. /\ ~ClaimThrows(c) /\ ~LoadFails(c) /\ ~PurgeLate(c)
        /\ ~InsertThrows(c) /\ ~CleanThrows(c) /\ ~PurgePrimaryThrows(c)
        /\ \A l \in Lanes : ~StartLate(c, l)
        /\ ~CacheThrows(c)
    BY <2>1, NothingFails, CacheThrowsThrow DEF Undisturbed
  <2>3. CASE HandlerStep(c)
    BY <2>1, <2>2, <2>3, LookGoesOn, ClaimGoesOn, FetchGoesOn, SearchGoesOn, PurgeBeginsGoesOn,
       SearchThrowsAway DEF HandlerStep, InTurns
  <2>4. CASE PrimaryStep(c)
    BY <2>1, <2>2, <2>4, StartGoesOn, EndGoesOn, InsertPrintGoesOn, PurgePrimaryGoesOn
       DEF PrimaryStep, InTurns, Lanes
  <2>5. CASE CacheStep(c)
    <3>1. IndexDocs(c) => request[c].op = "load" \/ request[c].op = "find"
      BY <2>1, Asked DEF IndexDocs, HasTurn, IsAt, DeleteAt, Ended
    <3> QED
      BY <2>1, <2>2, <2>5, <3>1, StartGoesOn, EndGoesOn, FillGoesOn, IndexGoesOn, FillIndexGoesOn,
         PurgeCacheGoesOn DEF CacheStep, CacheThrows, InTurns, Lanes
  <2> QED
    BY <1>1, <2>3, <2>4, <2>5
<1>2. ASSUME NEW c \in Calls, NEW r \in Requests, Begin(c, r) PROVE InTurns'
  BY <1>2, BeginGoesOn DEF InTurns
<1>3. CASE Refresh
  BY <1>3, RefreshGoesOn
<1>4. ~Crash
  BY DEF Crash, Undisturbed
<1>5. CASE ShutDown \/ Destroy \/ UNCHANGED vars
  <2>1. UNCHANGED <<stores, calls, tasks>>
    BY <1>5 DEF ShutDown, Destroy, vars
  <2>2. AtRest => AtRest'
    BY <2>1 DEF AtRest, Settled, IsDone, IsKept, IsStored, HasCopy, HasNone, stores, calls, tasks
  <2>3. ASSUME NEW c \in Calls, HasTurn(c) PROVE HasTurn(c)'
    BY <2>1, <2>3 DEF HasTurn, IsAt, LoadAt, FindAt, DeleteAt, IsUnderWay, IsDone, IsKept, IsStored,
       HasCopy, HasNone, Refreshed, stores, calls, tasks
  <2> QED
    BY <2>2, <2>3 DEF InTurns
<1> QED
  BY <1>1, <1>2, <1>3, <1>4, <1>5 DEF Next

LEMMA InitInTurns == Init => InTurns /\ NotYetAnswered
<1> SUFFICES ASSUME Init PROVE InTurns /\ NotYetAnswered
  OBVIOUS
<1>1. AtRest
  BY DEF Init, AtRest, Settled, IsDone, Lanes, IsKept, IsStored, HasCopy, HasNone
<1> QED
  BY <1>1 DEF InTurns, Init, NotYetAnswered

LEMMA StepNotYetAnswered == Typed /\ NotYetAnswered /\ [Next]_vars => NotYetAnswered'
<1> SUFFICES ASSUME Typed, NotYetAnswered, [Next]_vars PROVE NotYetAnswered'
  OBVIOUS
<1> USE DEF calls, NotYetAnswered, Goto, Reply, Typed, HandlersMatch, RestTyped
<1>1. ASSUME UNCHANGED answer,
             \A c \in Calls : pc'[c] \in {"idle", "searchCache", "searchPrimary"} =>
                 pc[c] \in {"idle", "searchCache", "searchPrimary"}
      PROVE  NotYetAnswered'
  BY <1>1
<1>2. ASSUME Terminate PROVE NotYetAnswered'
  BY <1>1, <1>2 DEF Terminate
<1>3. ASSUME NEW c \in Calls, SearchCache(c) \/ SearchPrimary(c) PROVE NotYetAnswered'
  BY <1>3 DEF SearchCache, SearchPrimary
<1>4. ASSUME NEW c \in Calls, HandlerStep(c), ~(SearchCache(c) \/ SearchPrimary(c))
      PROVE  NotYetAnswered'
  BY <1>1, <1>2, <1>4 DEF HandlerStep, ClaimLook, ClaimInsert, ClaimThrows, LoadFetch, LoadFails,
     SearchThrows, FindReturns, PurgeBegins, PurgeReturns, PurgeLate
<1>5. ASSUME NEW c \in Calls, NEW r \in Requests, Begin(c, r) PROVE NotYetAnswered'
  BY <1>5 DEF Begin
<1>6. ASSUME NEW c \in Calls, NEW l \in Lanes, TaskFrame(c, l) PROVE NotYetAnswered'
  BY <1>1, <1>2, <1>6 DEF TaskFrame, Start, End, Notify, StartLate
<1>7. ASSUME NEW c \in Calls, TaskWork(c) PROVE NotYetAnswered'
  BY <1>1, <1>7 DEF TaskWork, InsertPrint, InsertThrows, CleanClaim, CleanThrows, PurgePrimary,
     PurgePrimaryThrows, FillCount, FillSelect, FillThrows, IndexDocs, IndexThrows, PurgeCache,
     PurgeCacheThrows
<1>8. CASE Refresh \/ ShutDown \/ Destroy \/ Crash \/ UNCHANGED vars
  BY <1>1, <1>2, <1>8 DEF Refresh, ShutDown, Destroy, Crash, vars
<1> QED
  BY <1>3, <1>4, <1>5, <1>6, <1>7, <1>8, TaskCases DEF Next

InOrder == Typed /\ InTurns /\ NotYetAnswered

LEMMA InitInOrder == Init => InOrder
BY InitTyped, InitInTurns DEF InOrder

LEMMA StepInOrder ==
    ASSUME Paced, ~Faults, InOrder, Undisturbed, Undisturbed', [Next]_vars
    PROVE  InOrder'
BY StepTyped, StepInTurns, StepNotYetAnswered DEF InOrder

LEMMA OrderIsConsistent == InOrder => SettledIsConsistent
<1> SUFFICES ASSUME InOrder, Settled, NEW s \in Songs
             PROVE  /\ Claim \notin primary[s]
                    /\ Cardinality(primary[s]) <= 1
                    /\ \A d \in docs : d.song = s => d.rows = primary[s]
                    /\ \A d, e \in docs : d.song = s /\ e.song = s => d = e
  BY DEF SettledIsConsistent
<1>1. IsKept(s)
  BY SettledAtRest DEF InOrder, AtRest
<1>2. CASE primary[s] = {}
  BY <1>1, <1>2, FS_EmptySet DEF IsKept, HasCopy
<1>3. ASSUME NEW f \in Prints, primary[s] = {f}
      PROVE  Claim \notin primary[s] /\ Cardinality(primary[s]) <= 1
  BY <1>3, FS_Singleton, EngineAssumption
<1> QED
  BY <1>1, <1>2, <1>3 DEF IsKept, IsStored, HasCopy

\* For clients that wait and databases that work, and as long as no task throws
\* and nobody ends the process: what is left when all is done is consistent.
THEOREM SettledAgrees ==
    ASSUME Paced, ~Faults
    PROVE  Spec /\ []Undisturbed => []SettledIsConsistent
<1>1. Init => InOrder
  BY InitInOrder
<1>2. InOrder /\ Undisturbed /\ Undisturbed' /\ [Next]_vars => InOrder'
  BY StepInOrder
<1>3. InOrder => SettledIsConsistent
  BY OrderIsConsistent
<1> QED
  BY <1>1, <1>2, <1>3, PTL DEF Spec

-----------------------------------------------------------------------------
(* The engine implements FingerprintStore.                                   *)

Stored == [s \in Songs |-> primary[s] \ {Claim}]

LEMMA InitStore == Init => Store!Init
BY DEF Init, Store!Init

LEMMA Stutters == UNCHANGED <<primary, answer>> => UNCHANGED <<Stored, answer>>
BY DEF Stored

\* The claim is not part of what is stored.
LEMMA ClaimsDoNotCount ==
    ASSUME Typed, NEW c \in Calls, ClaimInsert(c) \/ CleanClaim(c)
    PROVE  UNCHANGED <<Stored, answer>>
<1>1. \A s \in Songs : primary'[s] \ {Claim} = primary[s] \ {Claim}
  BY DEF ClaimInsert, CleanClaim, Typed, RowsTyped
<1> QED
  BY <1>1 DEF Stored, ClaimInsert, CleanClaim, calls

LEMMA InsertIsLoad ==
    ASSUME Typed, NEW c \in Calls, HasTurn(c), InsertPrint(c)
    PROVE  Store!Next
<1>1. PICK s \in Songs : s = request[c].song
  BY Asked
<1>2. PICK f \in Prints : f = request[c].print
  BY Asked
<1>3. LoadAt(c) /\ Claim # f
  BY Asked, EngineAssumption DEF InsertPrint, HasTurn, IsAt, FindAt, DeleteAt, Ended
<1>4. primary[s] = {Claim} /\ primary' = [primary EXCEPT ![s] = @ \cup {f}] /\ UNCHANGED answer
  BY <1>1, <1>2, <1>3 DEF InsertPrint, LoadAt, calls
<1>5. Stored[s] = {} /\ Stored' = [Stored EXCEPT ![s] = {f}]
  <2>1. primary'[s] = {Claim, f} /\ \A t \in Songs \ {s} : primary'[t] = primary[t]
    BY <1>4 DEF Typed, RowsTyped
  <2>2. primary[s] \ {Claim} = {} /\ primary'[s] \ {Claim} = {f}
    BY <1>3, <1>4, <2>1
  <2> QED
    BY <2>1, <2>2 DEF Stored
<1>6. Store!Load(s, f)
  BY <1>4, <1>5 DEF Store!Load, Stored
<1> QED
  BY <1>6, Zenon DEF Store!Next

LEMMA PurgeIsPurge ==
    ASSUME Typed, NEW c \in Calls, HasTurn(c), PurgePrimary(c)
    PROVE  Store!Next
<1>1. PICK s \in Songs : s = request[c].song
  BY Asked
<1>2. primary' = [primary EXCEPT ![s] = {}] /\ UNCHANGED answer
  BY <1>1 DEF PurgePrimary, calls
<1>3. Stored' = [Stored EXCEPT ![s] = {}]
  BY <1>2 DEF Stored, Typed, RowsTyped
<1>4. Store!Purge(s)
  BY <1>2, <1>3 DEF Store!Purge, Stored
<1> QED
  BY <1>4, Zenon DEF Store!Next

\* What an answer is about is stored: so says the primary storage, and what is
\* in the cache is a copy.
LEMMA SearchIsAnswer ==
    ASSUME Typed, ~Faults, NotYetAnswered, NEW c \in Calls, HasTurn(c),
           SearchCache(c) \/ SearchPrimary(c)
    PROVE  Store!Next \/ UNCHANGED <<Stored, answer>>
<1>1. PICK f \in Prints : f = request[c].print
  BY Asked
<1>2. answer[c] = Unanswered /\ UNCHANGED primary /\ request[c].op = "find"
  BY Asked DEF SearchCache, SearchPrimary, NotYetAnswered, stores, HasTurn, IsAt, LoadAt, DeleteAt
<1>3. \A s \in Songs : IsKept(s)
  BY <1>2 DEF HasTurn, IsAt, FindAt
<1>4. UNCHANGED Stored
  BY <1>2 DEF Stored
<1>5. \A s \in InCache(f) \cup InPrimary(f) : s \in Songs /\ f \in Stored[s]
  BY <1>2, <1>3, EngineAssumption DEF InCache, InPrimary, Stored, IsKept, HasCopy
<1>6. \/ UNCHANGED answer
      \/ \E s \in InCache(f) \cup InPrimary(f) \cup {NoSong} : answer' = [answer EXCEPT ![c] = s]
  BY <1>1 DEF SearchCache, SearchPrimary, Reply
<1>7. ASSUME NEW s \in InCache(f) \cup InPrimary(f), answer' = [answer EXCEPT ![c] = s]
      PROVE  Store!Next
  <2>1. s \in Songs /\ f \in Stored[s]
    BY <1>5
  <2>2. Store!Answer(c, f, s)
    BY <1>2, <1>4, <1>7, <2>1 DEF Store!Answer, Stored
  <2> QED
    BY <1>2, <2>1, <2>2 DEF Store!Next
<1>8. ASSUME answer' = [answer EXCEPT ![c] = NoSong]
      PROVE  Store!Next
  <2>1. Store!Answer(c, f, NoSong)
    BY <1>2, <1>4, <1>8 DEF Store!Answer, Stored
  <2> QED
    BY <1>2, <2>1 DEF Store!Next
<1> QED
  BY <1>4, <1>6, <1>7, <1>8

LEMMA StepStore ==
    ASSUME ~Faults, InOrder, Undisturbed, [Next]_vars
    PROVE  Store!Next \/ UNCHANGED <<Stored, answer>>
<1> USE DEF InOrder
<1>1. ASSUME Terminate PROVE UNCHANGED <<Stored, answer>>
  BY <1>1, Stutters DEF Terminate, stores
<1>2. ASSUME NEW c \in Calls, HandlerStep(c) \/ PrimaryStep(c) \/ CacheStep(c)
      PROVE  HasTurn(c)
  <2>1. IsUnderWay(c)
    BY <1>2, OnlyOne DEF Undisturbed
  <2> QED
    BY <2>1, NobodyElse DEF InTurns, AtRest, HasTurn
<1>3. ASSUME NEW c \in Calls, HandlerStep(c)
      PROVE  Store!Next \/ UNCHANGED <<Stored, answer>>
  <2>1. HasTurn(c)
    BY <1>2, <1>3
  <2>2. CASE SearchCache(c) \/ SearchPrimary(c)
    BY <2>1, <2>2, SearchIsAnswer
  <2>3. CASE ClaimInsert(c)
    BY <2>3, ClaimsDoNotCount
  <2>4. CASE ~(SearchCache(c) \/ SearchPrimary(c) \/ ClaimInsert(c))
    BY <1>1, <1>3, <2>4, Stutters DEF HandlerStep, ClaimLook, ClaimThrows, LoadFetch, LoadFails,
       SearchThrows, FindReturns, PurgeBegins, PurgeReturns, PurgeLate, stores
  <2> QED
    BY <2>2, <2>3, <2>4
<1>4. ASSUME NEW c \in Calls, PrimaryStep(c) \/ CacheStep(c), TaskWork(c)
      PROVE  Store!Next \/ UNCHANGED <<Stored, answer>>
  <2>1. HasTurn(c)
    BY <1>2, <1>4
  <2>2. CASE InsertPrint(c) \/ PurgePrimary(c) \/ CleanClaim(c)
    BY <2>1, <2>2, InsertIsLoad, PurgeIsPurge, ClaimsDoNotCount
  <2>3. CASE ~(InsertPrint(c) \/ PurgePrimary(c) \/ CleanClaim(c))
    BY <1>4, <2>3, Stutters DEF TaskWork, InsertThrows, CleanThrows, PurgePrimaryThrows, FillCount,
       FillSelect, FillThrows, IndexDocs, IndexThrows, PurgeCache, PurgeCacheThrows, stores, calls
  <2> QED
    BY <2>2, <2>3
<1>5. ASSUME NEW c \in Calls, NEW l \in Lanes, TaskFrame(c, l)
      PROVE  UNCHANGED <<Stored, answer>>
  BY <1>1, <1>5, Stutters DEF TaskFrame, Start, End, Notify, StartLate, stores, calls
<1>6. CASE \/ \E c \in Calls, r \in Requests : Begin(c, r)
           \/ Refresh \/ ShutDown \/ Destroy \/ Crash \/ UNCHANGED vars
  BY <1>1, <1>6, Stutters DEF Begin, Refresh, ShutDown, Destroy, Crash, vars, stores, calls
<1> QED
  BY <1>3, <1>4, <1>5, <1>6, TaskCases DEF Next

\* For the same clients the engine is a store of one fingerprint for a song: a
\* load is the transaction that inserts, a purge the one that deletes, and an
\* answer is about a song that is stored, whichever database gave it.
THEOREM StoreImplemented ==
    ASSUME Paced, ~Faults
    PROVE  Spec /\ []Undisturbed => ImplementsStore
<1>1. Init => InOrder /\ Store!Init
  BY InitInOrder, InitStore
<1>2. InOrder /\ Undisturbed /\ Undisturbed' /\ [Next]_vars => InOrder'
  BY StepInOrder
<1>3. InOrder /\ Undisturbed /\ [Next]_vars
        => [Store!Next]_<<[s \in Songs |-> primary[s] \ {Claim}], answer>>
  BY StepStore DEF Stored
<1> QED
  BY <1>1, <1>2, <1>3, PTL DEF Spec, ImplementsStore, Store!Spec

-----------------------------------------------------------------------------
(* A purge gives a connection to PostgreSQL to the pool of the cache, where  *)
(* it waits behind the others: with a connection for each of the three       *)
(* requests a call may make to Elasticsearch, its turn does not come.        *)

\* The requests to Elasticsearch that have been made, or need not be made.
Counts == {"select", "index", "end", "notify", "over", "thrown"}
Indexes == {"end", "notify", "over", "thrown"}
Used == {p \in Calls \X (1..3) :
            \/ p[2] = 1 /\ pc[p[1]] \notin {"idle", "searchCache"}
            \/ p[2] = 2 /\ task[p[1]]["cache"] \in Counts
            \/ p[2] = 3 /\ task[p[1]]["cache"] \in Indexes}

InLine(q, n) == /\ CacheSize - n <= Len(q)
                /\ \A i \in 1 .. (CacheSize - n) : q[i] = "es"
IsInLine == InLine(pool["cache"], Cardinality(Used))

LEMMA UsedIsFinite ==
    /\ IsFiniteSet(Used) /\ Cardinality(Used) \in Nat
    /\ \A p \in (Calls \X (1..3)) \ Used : Cardinality(Used) < 3 * Cardinality(Calls)
<1> DEFINE All == Calls \X (1..3)
<1>1. IsFiniteSet(1..3) /\ Cardinality(1..3) = 3
  <2>1. 1 \in Int /\ 3 \in Int /\ ~(1 > 3) /\ 3 - 1 + 1 = 3
    OBVIOUS
  <2>2. IsFiniteSet(1..3) /\ Cardinality(1..3) = IF 1 > 3 THEN 0 ELSE 3 - 1 + 1
    BY <2>1, FS_Interval, Zenon
  <2> QED
    BY <2>1, <2>2
<1>2. IsFiniteSet(All) /\ Cardinality(All) = Cardinality(Calls) * 3 /\ Cardinality(Calls) \in Nat
  BY <1>1, FS_Product, FS_CardinalityType, EngineAssumption
<1>3. Used \subseteq All
  BY DEF Used
<1> HIDE DEF All
<1>4. IsFiniteSet(Used) /\ Cardinality(Used) \in Nat
  BY <1>2, <1>3, FS_Subset, FS_CardinalityType
<1>5. ASSUME NEW p \in All \ Used PROVE Cardinality(Used) < 3 * Cardinality(Calls)
  <2>1. Used # All
    BY <1>5
  <2>2. Cardinality(Used) <= Cardinality(All) /\ Cardinality(All) # Cardinality(Used)
    BY <1>2, <1>3, <2>1, FS_Subset
  <2> QED
    BY <1>2, <1>4, <2>2
<1> QED
  BY <1>4, <1>5 DEF All

\* A request moves the line by one.
LEMMA LineMoves ==
    ASSUME NEW q \in Seq(Kinds), NEW n \in Nat, NEW m \in Nat, InLine(q, n)
    PROVE  /\ n <= m => InLine(q, m)
           /\ \A k \in Kinds : InLine(Append(q, k), n)
           /\ n < m /\ q # <<>> => InLine(Append(Tail(q), Head(q)), m)
           /\ n < m /\ q = <<>> => \A k \in Kinds : InLine(<<k>>, m)
<1> USE EngineAssumption DEF InLine
<1>1. n <= m => InLine(q, m)
  OBVIOUS
<1>2. \A k \in Kinds : InLine(Append(q, k), n)
  OBVIOUS
<1>3. n < m /\ q # <<>> => InLine(Append(Tail(q), Head(q)), m)
  <2> SUFFICES ASSUME n < m, q # <<>> PROVE InLine(Append(Tail(q), Head(q)), m)
    OBVIOUS
  <2> DEFINE t == Append(Tail(q), Head(q))
  <2>1. Tail(q) \in Seq(Kinds) /\ Len(Tail(q)) = Len(q) - 1 /\ Len(t) = Len(q)
    OBVIOUS
  <2>2. \A i \in 1 .. (Len(q) - 1) : t[i] = q[i + 1]
    BY <2>1
  <2> HIDE DEF t
  <2>3. \A i \in 1 .. (CacheSize - m) : i \in 1 .. (Len(q) - 1) /\ i + 1 \in 1 .. (CacheSize - n)
    OBVIOUS
  <2>4. InLine(t, m)
    BY <2>1, <2>2, <2>3
  <2> QED
    BY <2>4 DEF t
<1>4. n < m /\ q = <<>> => \A k \in Kinds : InLine(<<k>>, m)
  <2> SUFFICES ASSUME n < m, q = <<>>, NEW k \in Kinds PROVE InLine(<<k>>, m)
    OBVIOUS
  <2>1. CacheSize - m < 1 /\ Len(<<k>>) = 1
    OBVIOUS
  <2> QED
    BY <2>1
<1> QED
  BY <1>1, <1>2, <1>3, <1>4

\* Requests are not taken back.
LEMMA UsedGrows ==
    ASSUME Typed, [Next]_vars
    PROVE  Used \subseteq Used'
<1> USE DEF Counts, Indexes, Goto, TaskGoto, calls, tasks, stores, Lanes, HandlersMatch
<1>0. HandlersMatch
  BY DEF Typed
<1> DEFINE Grows(c) ==
             /\ pc[c] \notin {"idle", "searchCache"} => pc'[c] \notin {"idle", "searchCache"}
             /\ task[c]["cache"] \in Counts => task'[c]["cache"] \in Counts
             /\ task[c]["cache"] \in Indexes => task'[c]["cache"] \in Indexes
<1>1. ASSUME \A c \in Calls : Grows(c) PROVE Used \subseteq Used'
  BY <1>1 DEF Used
<1>2. ASSUME UNCHANGED <<pc, task>> PROVE Used \subseteq Used'
  BY <1>2 DEF Used
<1>3. ASSUME Terminate PROVE Used \subseteq Used'
  BY <1>0, <1>1, <1>3 DEF Terminate
<1>4. ASSUME NEW c \in Calls, NEW r \in Requests, Begin(c, r) PROVE Used \subseteq Used'
  BY <1>0, <1>1, <1>4 DEF Begin
<1>5. ASSUME NEW c \in Calls, LoadFetch(c) \/ PurgeBegins(c) \/ SearchPrimary(c)
      PROVE  Used \subseteq Used'
  <2>1. pc[c] \in Early /\ task[c]["cache"] = "none"
    BY <1>0, <1>5 DEF Matching, Early, LoadFetch, PurgeBegins, SearchPrimary
  <2>2. \A d \in Calls : Grows(d)
    BY <1>0, <1>5, <2>1 DEF LoadFetch, PurgeBegins, SearchPrimary
  <2> QED
    BY <1>1, <2>2
<1>6. ASSUME NEW c \in Calls, HandlerStep(c), ~(LoadFetch(c) \/ PurgeBegins(c) \/ SearchPrimary(c))
      PROVE  Used \subseteq Used'
  <2>1. CASE Terminate
    BY <1>3, <2>1
  <2>2. CASE ~Terminate
    <3>1. UNCHANGED task /\ \E x \in HandlerPc \ {"idle", "searchCache"} : pc' = [pc EXCEPT ![c] = x]
      BY <1>6, <2>2 DEF HandlerStep, ClaimLook, ClaimInsert, ClaimThrows, LoadFails, SearchCache,
         SearchThrows, FindReturns, PurgeReturns, PurgeLate, HandlerPc
    <3>2. \A d \in Calls : Grows(d)
      BY <1>0, <3>1
    <3> QED
      BY <1>1, <3>2
  <2> QED
    BY <2>1, <2>2
<1>7. ASSUME NEW c \in Calls, NEW l \in Lanes, TaskFrame(c, l) PROVE Used \subseteq Used'
  <2>1. CASE Terminate
    BY <1>3, <2>1
  <2>2. CASE ~Terminate
    <3>1. \A d \in Calls : Grows(d)
      BY <1>0, <1>7, <2>2 DEF TaskFrame, Start, End, Notify, StartLate
    <3> QED
      BY <1>1, <3>1
  <2> QED
    BY <2>1, <2>2
<1>8. ASSUME NEW c \in Calls, TaskWork(c) PROVE Used \subseteq Used'
  <2>1. \A d \in Calls : Grows(d)
    BY <1>0, <1>8 DEF TaskWork, InsertPrint, InsertThrows, CleanClaim, CleanThrows, PurgePrimary,
       PurgePrimaryThrows, FillCount, FillSelect, FillThrows, IndexDocs, IndexThrows, PurgeCache,
       PurgeCacheThrows, Throw
  <2> QED
    BY <1>1, <2>1
<1>9. CASE Refresh \/ ShutDown \/ Destroy \/ Crash \/ UNCHANGED vars
  BY <1>2, <1>3, <1>9 DEF Refresh, ShutDown, Destroy, Crash, vars
<1> QED
  BY <1>4, <1>5, <1>6, <1>7, <1>8, <1>9, TaskCases DEF Next

\* Who is about to make a request has one left, and finds the right connection.
AboutToAsk(c) == pc[c] = "searchCache" \/ task[c]["cache"] \in {"count", "index", "purge"}

LEMMA NotMisplaced ==
    ASSUME Typed, IsInLine, 3 * Cardinality(Calls) <= CacheSize, NEW c \in Calls, AboutToAsk(c)
    PROVE  ~IsMisplaced("cache")
<1>1. PICK p \in Calls \X (1..3) : p \notin Used
  <2>1. CASE pc[c] = "searchCache"
    <3>1. <<c, 1>> \in (Calls \X (1..3)) \ Used
      BY <2>1 DEF Used
    <3> QED
      BY <3>1
  <2>2. CASE task[c]["cache"] \in {"count", "index", "purge"}
    <3>1. <<c, 3>> \in (Calls \X (1..3)) \ Used
      BY <2>2 DEF Used, Indexes
    <3> QED
      BY <3>1
  <2> QED
    BY <2>1, <2>2 DEF AboutToAsk
<1>2. Cardinality(Used) \in Nat /\ Cardinality(Used) < CacheSize
  BY <1>1, UsedIsFinite, FS_CardinalityType, EngineAssumption
<1>3. pool["cache"] \in Seq(Kinds)
  BY DEF Typed, PoolTyped, Lanes
<1>4. pool["cache"] # <<>> /\ pool["cache"][1] = "es"
  BY <1>2, <1>3, EngineAssumption DEF IsInLine, InLine
<1> QED
  BY <1>3, <1>4 DEF IsMisplaced, First

LEMMA StepInLine ==
    ASSUME Typed, IsInLine, 3 * Cardinality(Calls) <= CacheSize, [Next]_vars
    PROVE  IsInLine'
<1> DEFINE n == Cardinality(Used)
           m == Cardinality(Used')
           q == pool["cache"]
<1>1. Used \subseteq Used' /\ Typed'
  BY UsedGrows, StepTyped
<1>2. IsFiniteSet(Used') /\ IsFiniteSet(Used) /\ n \in Nat /\ m \in Nat
  <2>1. \A S : IsFiniteSet(S) => Cardinality(S) \in Nat
    BY FS_CardinalityType
  <2>2. IsFiniteSet(Used) /\ Used' \subseteq Calls \X (1..3) /\ IsFiniteSet(Calls \X (1..3))
    <3>1. 1 \in Int /\ 3 \in Int
      OBVIOUS
    <3>2. IsFiniteSet(1..3)
      BY <3>1, FS_Interval, Zenon
    <3> QED
      BY <3>2, UsedIsFinite, FS_Product, EngineAssumption DEF Used
  <2>3. IsFiniteSet(Used')
    BY <2>2, FS_Subset
  <2> QED
    BY <2>1, <2>2, <2>3
<1>3. n <= m
  BY <1>1, <1>2, FS_Subset
<1>4. q \in Seq(Kinds) /\ InLine(q, n)
  BY DEF Typed, PoolTyped, Lanes, IsInLine
<1>5. IsInLine' = InLine(pool'["cache"], m)
  BY DEF IsInLine, InLine
<1> HIDE DEF n, m, q
<1>6. ASSUME pool'["cache"] = q PROVE IsInLine'
  BY <1>2, <1>3, <1>4, <1>5, <1>6, LineMoves
<1>7. ASSUME NEW k \in Kinds, pool'["cache"] = Append(q, k) PROVE IsInLine'
  <2>1. InLine(q, m)
    BY <1>2, <1>3, <1>4, LineMoves
  <2>2. InLine(Append(q, k), m)
    BY <1>2, <1>4, <2>1, LineMoves
  <2> QED
    BY <1>5, <1>7, <2>2
<1>8. ASSUME Terminate PROVE IsInLine'
  <2>1. pool'["cache"] = [i \in 1..CacheSize |-> "es"]
    BY <1>8 DEF Terminate, FullPools
  <2>2. InLine([i \in 1..CacheSize |-> "es"], m)
    BY <1>2, EngineAssumption DEF InLine
  <2> QED
    BY <1>5, <2>1, <2>2
\* A request uses one of its turns and moves the line by one.
<1>9. ASSUME NEW p \in Used', p \notin Used, pool'["cache"] = Append(Rest("cache"), First("cache"))
      PROVE  IsInLine'
  <2>1. n < m
    <3>1. Used # Used'
      BY <1>9
    <3>2. n # m
      BY <1>1, <1>2, <3>1, FS_Subset DEF n, m
    <3> QED
      BY <1>2, <1>3, <3>2
  <2>2. CASE q = <<>>
    <3>1. First("cache") \in Kinds /\ Append(Rest("cache"), First("cache")) = <<First("cache")>>
      BY <2>2 DEF First, Rest, q, Kinds
    <3>2. \A k \in Kinds : InLine(<<k>>, m)
      BY <1>2, <1>4, <2>1, <2>2, LineMoves
    <3> QED
      BY <1>5, <1>9, <3>1, <3>2
  <2>3. CASE q # <<>>
    <3>1. First("cache") = Head(q) /\ Rest("cache") = Tail(q)
      BY <2>3 DEF First, Rest, q
    <3>2. InLine(Append(Tail(q), Head(q)), m)
      BY <1>2, <1>4, <2>1, <2>3, LineMoves
    <3> QED
      BY <1>5, <1>9, <3>1, <3>2
  <2> QED
    BY <2>2, <2>3
<1>10. pool \in [Lanes -> Seq(Kinds)] /\ First("primary") \in Kinds /\ HandlersMatch
  BY ConnectionsTyped DEF Typed, PoolTyped, Lanes
<1> USE DEF Take, TakeAndGive, Give, Goto, TaskGoto, Lanes
<1>11. ASSUME NEW c \in Calls, HandlerStep(c) PROVE IsInLine'
  <2>1. CASE SearchCache(c)
    <3>1. pc[c] = "searchCache" /\ pc'[c] \in {"over", "searchPrimary"}
      BY <1>10, <2>1 DEF SearchCache, HandlersMatch
    <3>2. <<c, 1>> \in Used' /\ <<c, 1>> \notin Used
      BY <3>1 DEF Used
    <3>3. pool'["cache"] = Append(Rest("cache"), First("cache"))
      BY <1>10, <2>1 DEF SearchCache
    <3> QED
      BY <1>9, <3>2, <3>3
  <2>2. CASE ~SearchCache(c) /\ ~Terminate
    <3>1. pool'["cache"] = pool["cache"]
      BY <1>10, <1>11, <2>2 DEF HandlerStep, ClaimLook, ClaimInsert, ClaimThrows, LoadFetch, LoadFails,
         SearchPrimary, SearchThrows, FindReturns, PurgeBegins, PurgeReturns, PurgeLate
    <3> QED
      BY <1>6, <3>1 DEF q
  <2> QED
    BY <1>8, <2>1, <2>2
<1>12. ASSUME NEW c \in Calls, NEW l \in Lanes, TaskFrame(c, l) PROVE IsInLine'
  BY <1>6, <1>8, <1>12 DEF TaskFrame, Start, End, Notify, StartLate, q
<1>13. ASSUME NEW c \in Calls, FillCount(c) \/ IndexDocs(c) \/ PurgeCache(c) PROVE IsInLine'
  <2>1. pool'["cache"] = Append(Rest("cache"), First("cache"))
    BY <1>10, <1>13 DEF FillCount, IndexDocs, PurgeCache
  <2>2. \/ task[c]["cache"] \in {"index", "purge"} /\ task'[c]["cache"] = "end"
        \/ task[c]["cache"] = "count" /\ task'[c]["cache"] \in {"end", "select"}
    BY <1>10, <1>13 DEF FillCount, IndexDocs, PurgeCache, HandlersMatch
  <2>3. \E k \in 1..3 : <<c, k>> \in Used' /\ <<c, k>> \notin Used
    <3>1. CASE task[c]["cache"] \in {"index", "purge"}
      <4>1. <<c, 3>> \in Used' /\ <<c, 3>> \notin Used
        BY <2>2, <3>1 DEF Used, Indexes
      <4> QED
        BY <4>1
    <3>2. CASE task[c]["cache"] = "count"
      <4>1. <<c, 2>> \in Used' /\ <<c, 2>> \notin Used
        BY <2>2, <3>2 DEF Used, Counts
      <4> QED
        BY <4>1
    <3> QED
      BY <2>2, <3>1, <3>2
  <2> QED
    BY <1>9, <2>1, <2>3
<1>14. ASSUME NEW c \in Calls, CacheThrows(c) PROVE IsInLine'
  <2>1. \/ FillThrows(c) /\ task[c]["cache"] = "select" /\ pool'["cache"] = pool["cache"]
        \/ AboutToAsk(c) /\ IsMisplaced("cache")
    BY <1>10, <1>14 DEF CacheThrows, FillThrows, IndexThrows, PurgeCacheThrows, AboutToAsk, Throw
  <2> QED
    BY <1>6, <2>1, NotMisplaced DEF q
<1>15. ASSUME NEW c \in Calls, PurgePrimary(c) PROVE IsInLine'
  <2>1. pool'["cache"] = Append(q, First("primary"))
    BY <1>15 DEF PurgePrimary, q
  <2> QED
    BY <1>7, <1>10, <2>1
<1>16. ASSUME NEW c \in Calls, TaskWork(c), ~(FillCount(c) \/ IndexDocs(c) \/ PurgeCache(c)),
              ~CacheThrows(c), ~PurgePrimary(c)
       PROVE  IsInLine'
  <2>1. pool'["cache"] = pool["cache"]
    BY <1>10, <1>16 DEF TaskWork, CacheThrows, InsertPrint, InsertThrows, CleanClaim, CleanThrows,
       PurgePrimaryThrows, FillSelect, Throw
  <2> QED
    BY <1>6, <2>1 DEF q
<1>17. CASE \/ \E c \in Calls, r \in Requests : Begin(c, r)
            \/ Refresh \/ ShutDown \/ Destroy \/ Crash \/ UNCHANGED vars
  BY <1>6, <1>8, <1>17 DEF Begin, Refresh, ShutDown, Destroy, Crash, vars, q
<1> QED
  BY <1>11, <1>12, <1>13, <1>14, <1>15, <1>16, <1>17, TaskCases DEF Next

\* The process is left to run.
IsUp == engine = "up" /\ crashes = 0

LEMMA StaysUndisturbed ==
    ASSUME ~Faults, ~Stops, MaxCrashes = 0, 3 * Cardinality(Calls) <= CacheSize,
           InOrder, Undisturbed, IsInLine, IsUp, [Next]_vars
    PROVE  Undisturbed' /\ IsUp'
<1> USE DEF InOrder, process, Goto, TaskGoto
<1>1. IsUp'
  BY EngineAssumption DEF IsUp, Next, Begin, HandlerStep, ClaimLook, ClaimInsert, ClaimThrows,
     LoadFetch, LoadFails, SearchCache, SearchPrimary, SearchThrows, FindReturns, PurgeBegins,
     PurgeReturns, PurgeLate, PrimaryStep, CacheStep, Start, End, Notify, StartLate, InsertPrint,
     InsertThrows, CleanClaim, CleanThrows, PurgePrimary, PurgePrimaryThrows, FillCount, FillSelect,
     FillThrows, IndexDocs, IndexThrows, PurgeCache, PurgeCacheThrows, Refresh, ShutDown, Destroy,
     Crash, Terminate, vars
<1>2. ASSUME NEW c \in Calls, HandlerStep(c) \/ PrimaryStep(c) \/ CacheStep(c)
      PROVE  HasTurn(c)
  <2>1. IsUnderWay(c)
    BY <1>2, OnlyOne DEF Undisturbed
  <2> QED
    BY <2>1, NobodyElse DEF InTurns, AtRest, HasTurn
<1>3. ASSUME NEW c \in Calls PROVE ~CacheThrows(c)
  <2>1. CacheThrows(c) => AboutToAsk(c) /\ IsMisplaced("cache")
    BY DEF CacheThrows, FillThrows, IndexThrows, PurgeCacheThrows, AboutToAsk
  <2> QED
    BY <2>1, NotMisplaced
<1> DEFINE NoThrow == \A c \in Calls, l \in Lanes : task'[c][l] # "thrown"
<1>4. ASSUME UNCHANGED task PROVE NoThrow
  BY <1>4 DEF Undisturbed
<1>5. ASSUME Terminate PROVE NoThrow
  BY <1>5 DEF Terminate
<1>6. ASSUME NEW c \in Calls, HandlerStep(c) PROVE NoThrow
  <2>1. CASE LoadFetch(c) \/ PurgeBegins(c) \/ SearchPrimary(c)
    BY <2>1 DEF LoadFetch, PurgeBegins, SearchPrimary, Undisturbed, Typed, HandlersMatch, Lanes, tasks
  <2>2. CASE ~(LoadFetch(c) \/ PurgeBegins(c) \/ SearchPrimary(c))
    <3>1. UNCHANGED task \/ Terminate
      BY <1>6, <2>2 DEF HandlerStep, ClaimLook, ClaimInsert, ClaimThrows, LoadFails, SearchCache,
         SearchThrows, FindReturns, PurgeReturns, PurgeLate, tasks
    <3> QED
      BY <1>4, <1>5, <3>1, Zenon
  <2> QED
    BY <2>1, <2>2
<1>7. ASSUME NEW c \in Calls, NEW l \in Lanes, TaskFrame(c, l) PROVE NoThrow
  BY <1>5, <1>7 DEF TaskFrame, Start, End, Notify, StartLate, FirstTaskStep, Undisturbed, Typed,
     HandlersMatch
<1>8. ASSUME NEW c \in Calls, TaskWork(c), PrimaryStep(c) \/ CacheStep(c) PROVE NoThrow
  <2>1. ~InsertThrows(c) /\ ~CleanThrows(c) /\ ~PurgePrimaryThrows(c) /\ ~CacheThrows(c)
    BY <1>2, <1>3, <1>8, NothingFails DEF Undisturbed
  <2> QED
    BY <1>8, <2>1 DEF TaskWork, CacheThrows, InsertPrint, CleanClaim, PurgePrimary, FillCount,
       FillSelect, IndexDocs, PurgeCache, Undisturbed, Typed, HandlersMatch
<1> HIDE DEF NoThrow
<1>9. ASSUME \/ \E c \in Calls, r \in Requests : Begin(c, r)
             \/ Refresh \/ ShutDown \/ Destroy \/ Crash \/ UNCHANGED vars
      PROVE  NoThrow
  <2>1. UNCHANGED task \/ Terminate
    BY <1>9 DEF Begin, Refresh, ShutDown, Destroy, Crash, vars, tasks
  <2> QED
    BY <1>4, <1>5, <2>1, Zenon
<1>10. ASSUME NEW c \in Calls, PrimaryStep(c) \/ CacheStep(c) PROVE NoThrow
  <2>1. TaskWork(c) \/ \E l \in Lanes : TaskFrame(c, l)
    BY <1>10, TaskCases
  <2> QED
    BY <1>7, <1>8, <1>10, <2>1
<1>11. NoThrow
  <2>1. \/ \E c \in Calls : HandlerStep(c) \/ PrimaryStep(c) \/ CacheStep(c)
        \/ \E c \in Calls, r \in Requests : Begin(c, r)
        \/ Refresh \/ ShutDown \/ Destroy \/ Crash \/ UNCHANGED vars
    BY DEF Next
  <2> QED
    BY <1>6, <1>9, <1>10, <2>1
<1> QED
  BY <1>1, <1>11 DEF IsUp, Undisturbed, NoThrow

LEMMA InitUndisturbed == Init => Undisturbed /\ IsInLine /\ IsUp
<1> SUFFICES ASSUME Init PROVE Undisturbed /\ IsInLine /\ IsUp
  OBVIOUS
<1>1. Undisturbed /\ IsUp
  BY DEF Init, Undisturbed, IsUp
<1>2. Used = {}
  BY DEF Init, Used, Counts, Indexes, Lanes
<1>3. Cardinality(Used) = 0 /\ pool["cache"] = [i \in 1..CacheSize |-> "es"]
  BY <1>2, FS_EmptySet DEF Init, FullPools
<1>4. IsInLine
  BY <1>3, EngineAssumption DEF IsInLine, InLine
<1> QED
  BY <1>1, <1>4

\* Nothing disturbs a process that is left to run and whose pool has three
\* connections for each call it will get: it is that store.
THEOREM ShortLivedStore ==
    ASSUME Paced, ~Faults, ~Stops, MaxCrashes = 0, 3 * Cardinality(Calls) <= CacheSize
    PROVE  Spec => []Undisturbed /\ []SettledIsConsistent /\ ImplementsStore
<1>1. Init => InOrder /\ Undisturbed /\ IsInLine /\ IsUp
  BY InitInOrder, InitUndisturbed
<1>2. InOrder /\ Undisturbed /\ IsInLine /\ IsUp /\ [Next]_vars
        => (InOrder /\ Undisturbed /\ IsInLine /\ IsUp)'
  <2> SUFFICES ASSUME InOrder, Undisturbed, IsInLine, IsUp, [Next]_vars
               PROVE  (InOrder /\ Undisturbed /\ IsInLine /\ IsUp)'
    OBVIOUS
  <2>1. Undisturbed' /\ IsUp'
    BY StaysUndisturbed
  <2>2. InOrder'
    BY <2>1, StepInOrder
  <2>3. IsInLine'
    BY StepInLine DEF InOrder
  <2> QED
    BY <2>1, <2>2, <2>3
<1>3. Spec => []Undisturbed
  BY <1>1, <1>2, PTL DEF Spec
<1> QED
  BY <1>3, SettledAgrees, StoreImplemented, PTL

=============================================================================
