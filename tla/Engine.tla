------------------------------- MODULE Engine -------------------------------
(***************************************************************************)
(* Engine (fingerprint/src/engine/engine.cpp): a call loads a track, finds *)
(* a song or purges one, against PostgreSQL (the primary storage) and      *)
(* Elasticsearch (the cache), and leaves part of its work to tasks of the  *)
(* AsyncManager.  One step is one round trip to a database.                *)
(*                                                                         *)
(* An exception in a task ends the task: the packaged_task keeps it and    *)
(* nobody looks.  An exception in a handler ends the process, for no frame *)
(* of a thread of SirenServer::HandleRpcs catches it; the databases        *)
(* survive, and a new process starts with full pools.                      *)
(*                                                                         *)
(* A fingerprint is one value: its rows are inserted by one transaction.   *)
(* A pool is a queue of kinds of connections (ConnectionPool has the       *)
(* detail): a request takes one, or makes one if there is none.            *)
(***************************************************************************)
EXTENDS Integers, Sequences, FiniteSets

CONSTANTS Calls,        \* the requests of the clients, each made once
          Songs,        \* song ids
          Prints,       \* fingerprints of different audio
          Claim,        \* the row (-1, song_id, -1)
          NoSong,       \* no song, or an id no song has
          Unanswered,
          PrimarySize, CacheSize,  \* sizes of the two pools
          Operations,   \* the kinds of requests there are
          Paced,        \* clients wait until all is done and Elasticsearch has refreshed
          Faults,       \* databases and downloads may fail
          Stops,        \* the process may be shut down
          MaxCrashes    \* bound of the model: how often the process is killed

ASSUME EngineAssumption ==
    /\ Claim \notin Prints
    /\ NoSong \notin Songs
    /\ Unanswered \notin Songs \cup {NoSong}
    /\ PrimarySize \in Nat \ {0} /\ CacheSize \in Nat \ {0}
    /\ IsFiniteSet(Calls)
    /\ Operations \subseteq {"load", "find", "delete"}
    /\ Paced \in BOOLEAN /\ Faults \in BOOLEAN /\ Stops \in BOOLEAN
    /\ MaxCrashes \in Nat

VARIABLES primary,   \* primary[s]: the rows of song s
          docs,      \* what Elasticsearch has indexed, not all of it searchable (shown)
          pool,      \* the queues of the pools, "primary" and "cache"
          request,   \* what a call asks for
          pc,        \* where its handler is
          answer,    \* what it was answered
          task,      \* task[c]: its tasks on the two databases
          fillSong,  \* the song its cache fill is about
          fetched,   \* the rows its cache fill has read
          m_asyncCount,
          engine,    \* up, closing (the server is shut down, ~Engine waits) or gone
          crashes

stores == <<primary, docs>>
calls == <<request, pc, answer>>
tasks == <<task, fillSong, fetched, m_asyncCount>>
process == <<engine, crashes>>
vars == <<stores, pool, calls, tasks, process>>

Lanes == {"primary", "cache"}
Rows == Prints \cup {Claim}
Requests == [op : Operations, song : Songs, print : Prints, isCaching : BOOLEAN]
Docs == [by : Calls, song : Songs, rows : SUBSET Rows, shown : BOOLEAN]
HandlerPc == {"idle", "look", "claim", "fetch", "searchCache", "searchPrimary", "answered",
              "purge", "wait", "over"}
TaskPc == {"none", "queued", "insert", "clean", "count", "select", "index", "purge", "end",
           "notify", "over", "thrown"}
NoRequest == [op |-> "none"]
FullPools == [primary |-> [i \in 1..PrimarySize |-> "pg"], cache |-> [i \in 1..CacheSize |-> "es"]]

TypeOK ==
    /\ primary \in [Songs -> SUBSET Rows]
    /\ docs \subseteq Docs
    /\ pool \in [Lanes -> Seq({"pg", "es"})]
    /\ request \in [Calls -> Requests \cup {NoRequest}]
    /\ pc \in [Calls -> HandlerPc]
    /\ answer \in [Calls -> Songs \cup {NoSong, Unanswered}]
    /\ task \in [Calls -> [Lanes -> TaskPc]]
    /\ fillSong \in [Calls -> Songs \cup {NoSong}]
    /\ fetched \in [Calls -> SUBSET Rows]
    /\ m_asyncCount \in Nat
    /\ engine \in {"up", "closing", "gone"}
    /\ crashes \in Nat

Init ==
    /\ primary = [s \in Songs |-> {}]
    /\ docs = {}
    /\ pool = FullPools
    /\ request = [c \in Calls |-> NoRequest]
    /\ pc = [c \in Calls |-> "idle"]
    /\ answer = [c \in Calls |-> Unanswered]
    /\ task = [c \in Calls |-> [l \in Lanes |-> "none"]]
    /\ fillSong = [c \in Calls |-> NoSong]
    /\ fetched = [c \in Calls |-> {}]
    /\ m_asyncCount = 0
    /\ engine = "up"
    /\ crashes = 0

-----------------------------------------------------------------------------
(* Connections, handlers and tasks. *)

First(p) == IF pool[p] # <<>> THEN Head(pool[p]) ELSE IF p = "primary" THEN "pg" ELSE "es"
Rest(p) == IF pool[p] # <<>> THEN Tail(pool[p]) ELSE <<>>

\* getConnection(), getConnection() and releaseConnection(), releaseConnection().
Take(p) == pool' = [pool EXCEPT ![p] = Rest(p)]
TakeAndGive(p) == pool' = [pool EXCEPT ![p] = Append(Rest(p), First(p))]
Give(p, kind) == pool' = [pool EXCEPT ![p] = Append(@, kind)]

\* A request to Elasticsearch on a connection to PostgreSQL throws.
IsMisplaced(p) == p = "cache" /\ First(p) = "pg"

Goto(c, label) == pc' = [pc EXCEPT ![c] = label]
TaskGoto(c, l, label) == task' = [task EXCEPT ![c][l] = label]
Reply(c, s) == answer' = [answer EXCEPT ![c] = s]

\* An exception out of a task; the connection it has taken is gone with it.
Throw(c, l, p) ==
    /\ TaskGoto(c, l, "thrown")
    /\ Take(p)

\* The end of the process and the start of the next.
Terminate ==
    /\ pc' = [c \in Calls |-> IF pc[c] = "idle" THEN "idle" ELSE "over"]
    /\ task' = [c \in Calls |-> [l \in Lanes |-> IF task[c][l] = "none" THEN "none" ELSE "over"]]
    /\ pool' = FullPools
    /\ m_asyncCount' = 0
    /\ engine' = "up"
    /\ UNCHANGED <<stores, request, answer, fillSong, fetched>>

IsDone(c) == \A l \in Lanes : task[c][l] \in {"none", "over", "thrown"}
Settled == \A c \in Calls : pc[c] \in {"idle", "over"} /\ IsDone(c)
Refreshed == \A d \in docs : d.shown

-----------------------------------------------------------------------------
(* A request arrives. *)

FirstStep(op) == IF op = "load" THEN "look" ELSE IF op = "find" THEN "searchCache" ELSE "purge"

Begin(c, r) ==
    /\ pc[c] = "idle" /\ engine = "up"
    /\ Paced => Settled /\ Refreshed
    /\ request' = [request EXCEPT ![c] = r]
    /\ Goto(c, FirstStep(r.op))
    /\ UNCHANGED <<stores, pool, answer, tasks, process>>

-----------------------------------------------------------------------------
(* loadTrackByUrl() *)

\* isSongIdValid(): find_song_id looks for any row of the song ...
ClaimLook(c) ==
    LET s == request[c].song IN
    /\ pc[c] = "look"
    /\ IF primary[s] # {}
         THEN TakeAndGive("primary") /\ Goto(c, "over")
         ELSE Take("primary") /\ Goto(c, "claim")
    /\ UNCHANGED <<stores, request, answer, tasks, process>>

\* Mutant: an index that is not unique.
ClaimIsAlwaysFree(s) == TRUE

\* ... and inserts the claim; ROW EXCLUSIVE does not exclude another call, but
\* the unique index turns the second row down, and the handler throws.
ClaimIsFree(s) == Claim \notin primary[s]

ClaimInsert(c) ==
    LET s == request[c].song IN
    /\ pc[c] = "claim"
    /\ ClaimIsFree(s)
    /\ primary' = [primary EXCEPT ![s] = @ \cup {Claim}]
    /\ Give("primary", "pg")
    /\ Goto(c, "fetch")
    /\ UNCHANGED <<docs, request, answer, tasks, process>>

ClaimThrows(c) ==
    /\ \/ pc[c] = "claim" /\ (Faults \/ ~ClaimIsFree(request[c].song))
       \/ pc[c] = "look" /\ Faults
    /\ Terminate
    /\ UNCHANGED crashes

\* The download and the fingerprint; the tasks that will store it.
LoadFetch(c) ==
    /\ pc[c] = "fetch"
    /\ task' = [task EXCEPT ![c] = [primary |-> "queued",
                                    cache |-> IF request[c].isCaching THEN "queued" ELSE "none"]]
    /\ Goto(c, "over")
    /\ UNCHANGED <<stores, pool, request, answer, fillSong, fetched, m_asyncCount, process>>

\* No file, no download, no fingerprint: the call returns false, its claim stays.
LoadFails(c) ==
    /\ Faults
    /\ pc[c] = "fetch"
    /\ Goto(c, "over")
    /\ UNCHANGED <<stores, pool, request, answer, tasks, process>>

-----------------------------------------------------------------------------
(* findSongIdByFingerprint(): a histogram names one of the songs that match *)
(* the snippet, or none.                                                    *)

InCache(f) == {s \in Songs : \E d \in docs : d.shown /\ d.song = s /\ f \in d.rows}
InPrimary(f) == {s \in Songs : f \in primary[s]}

SearchCache(c) ==
    /\ pc[c] = "searchCache"
    /\ ~IsMisplaced("cache")
    /\ TakeAndGive("cache")
    /\ \/ \E s \in InCache(request[c].print) : Reply(c, s) /\ Goto(c, "over")
       \/ Goto(c, "searchPrimary") /\ UNCHANGED answer
       \/ Faults /\ Reply(c, NoSong) /\ Goto(c, "over")
    /\ UNCHANGED <<stores, request, tasks, process>>

\* What was found in the primary storage is cached by a task.
SearchPrimary(c) ==
    /\ pc[c] = "searchPrimary"
    /\ TakeAndGive("primary")
    /\ \/ \E s \in InPrimary(request[c].print) :
             /\ Reply(c, s)
             /\ fillSong' = [fillSong EXCEPT ![c] = s]
             /\ TaskGoto(c, "cache", "queued")
             /\ Goto(c, "answered")
       \/ Reply(c, NoSong) /\ Goto(c, "over") /\ UNCHANGED <<fillSong, task>>
    /\ UNCHANGED <<stores, request, fetched, m_asyncCount, process>>

SearchThrows(c) ==
    /\ \/ pc[c] = "searchCache" /\ IsMisplaced("cache")
       \/ pc[c] = "searchPrimary" /\ Faults
    /\ Terminate
    /\ UNCHANGED crashes

FindReturns(c) ==
    /\ pc[c] = "answered"
    /\ Goto(c, "over")
    /\ UNCHANGED <<stores, pool, request, answer, tasks, process>>

-----------------------------------------------------------------------------
(* purgeFingerprintBySongId(), called by a task: two more tasks, and a wait *)
(* for both.                                                                *)

PurgeBegins(c) ==
    /\ pc[c] = "purge" /\ engine # "gone"
    /\ task' = [task EXCEPT ![c] = [l \in Lanes |-> "queued"]]
    /\ Goto(c, "wait")
    /\ UNCHANGED <<stores, pool, request, answer, fillSong, fetched, m_asyncCount, process>>

\* Mutant: the purge waits for tasks that succeed.
PurgeReturnsGood(c) ==
    /\ pc[c] = "wait"
    /\ \A l \in Lanes : task[c][l] = "over"
    /\ Goto(c, "over")
    /\ UNCHANGED <<stores, pool, request, answer, tasks, process>>

PurgeReturns(c) ==
    /\ pc[c] = "wait"
    /\ IsDone(c)
    /\ Goto(c, "over")
    /\ UNCHANGED <<stores, pool, request, answer, tasks, process>>

-----------------------------------------------------------------------------
(* The tasks, between markAsyncStart() and markAsyncEnd(). *)

FirstTaskStep(op, l) ==
    IF op = "delete" THEN "purge"
    ELSE IF op = "find" THEN "count"
    ELSE IF l = "primary" THEN "insert" ELSE "index"

\* The task of a search reads the song id through a reference to a local
\* variable of its handler: once that has returned, it may be any.
Start(c, l) ==
    /\ task[c][l] = "queued" /\ engine # "gone"
    /\ m_asyncCount' = m_asyncCount + 1
    /\ TaskGoto(c, l, FirstTaskStep(request[c].op, l))
    /\ IF request[c].op = "find" /\ pc[c] # "answered"
         THEN \E s \in Songs \cup {NoSong} : fillSong' = [fillSong EXCEPT ![c] = s]
         ELSE UNCHANGED fillSong
    /\ UNCHANGED <<stores, pool, calls, fetched, process>>

\* markAsyncEnd() counts without the mutex ~Engine waits with, and notifies.
End(c, l) ==
    /\ task[c][l] = "end"
    /\ m_asyncCount' = m_asyncCount - 1
    /\ TaskGoto(c, l, "notify")
    /\ UNCHANGED <<stores, pool, calls, fillSong, fetched, process>>

Notify(c, l) ==
    /\ task[c][l] = "notify"
    /\ TaskGoto(c, l, "over")
    /\ UNCHANGED <<stores, pool, calls, fillSong, fetched, m_asyncCount, process>>

\* loadFingerprintIntoPrimary(): one transaction for the fingerprint ...
InsertPrint(c) ==
    LET s == request[c].song IN
    /\ task[c]["primary"] = "insert"
    /\ request[c].print \notin primary[s]
    /\ primary' = [primary EXCEPT ![s] = @ \cup {request[c].print}]
    /\ Take("primary")
    /\ TaskGoto(c, "primary", "clean")
    /\ UNCHANGED <<docs, calls, fillSong, fetched, m_asyncCount, process>>

\* The unique index is on (hash, song_id): the same print is turned down, and
\* another may be, for two recordings may have hashes in common.
InsertThrows(c) ==
    /\ task[c]["primary"] = "insert"
    /\ Faults \/ primary[request[c].song] \ {Claim} # {}
    /\ Throw(c, "primary", "primary")
    /\ UNCHANGED <<stores, calls, fillSong, fetched, m_asyncCount, process>>

\* Mutant: a clean-up that matches no row.
CleanNothing(c) ==
    /\ task[c]["primary"] = "clean"
    /\ Give("primary", "pg")
    /\ TaskGoto(c, "primary", "end")
    /\ UNCHANGED <<stores, calls, fillSong, fetched, m_asyncCount, process>>

\* ... and another for the claim.
CleanClaim(c) ==
    LET s == request[c].song IN
    /\ task[c]["primary"] = "clean"
    /\ primary' = [primary EXCEPT ![s] = @ \ {Claim}]
    /\ Give("primary", "pg")
    /\ TaskGoto(c, "primary", "end")
    /\ UNCHANGED <<docs, calls, fillSong, fetched, m_asyncCount, process>>

CleanThrows(c) ==
    /\ Faults
    /\ task[c]["primary"] = "clean"
    /\ TaskGoto(c, "primary", "thrown")
    /\ UNCHANGED <<stores, pool, calls, fillSong, fetched, m_asyncCount, process>>

\* cacheFingerprintBySongId(): is the song in the cache ...
FillCount(c) ==
    /\ task[c]["cache"] = "count"
    /\ ~IsMisplaced("cache")
    /\ TakeAndGive("cache")
    /\ IF \E d \in docs : d.shown /\ d.song = fillSong[c]
         THEN TaskGoto(c, "cache", "end")
         ELSE \/ TaskGoto(c, "cache", "select")
              \/ Faults /\ TaskGoto(c, "cache", "end")
    /\ UNCHANGED <<stores, calls, fillSong, fetched, m_asyncCount, process>>

\* ... which are its rows, whatever they are; the connection is kept ...
FillSelect(c) ==
    LET rows == IF fillSong[c] = NoSong THEN {} ELSE primary[fillSong[c]] IN
    /\ task[c]["cache"] = "select"
    /\ IF rows = {}
         THEN TakeAndGive("primary") /\ TaskGoto(c, "cache", "end") /\ UNCHANGED fetched
         ELSE /\ Take("primary")
              /\ TaskGoto(c, "cache", "index")
              /\ fetched' = [fetched EXCEPT ![c] = rows]
    /\ UNCHANGED <<stores, calls, fillSong, m_asyncCount, process>>

FillThrows(c) ==
    /\ \/ task[c]["cache"] = "count" /\ IsMisplaced("cache") /\ Throw(c, "cache", "cache")
       \/ task[c]["cache"] = "select" /\ Faults /\ Throw(c, "cache", "primary")
    /\ UNCHANGED <<stores, calls, fillSong, fetched, m_asyncCount, process>>

\* ... until they are indexed; or loadFingerprintIntoCache().
IsFill(c) == request[c].op = "find"

IndexDocs(c) ==
    LET doc == [by |-> c, shown |-> FALSE,
                song |-> IF IsFill(c) THEN fillSong[c] ELSE request[c].song,
                rows |-> IF IsFill(c) THEN fetched[c] ELSE {request[c].print}]
    IN
    /\ task[c]["cache"] = "index"
    /\ ~IsMisplaced("cache")
    /\ \/ docs' = docs \cup {doc}
       \/ Faults /\ UNCHANGED docs
    /\ pool' = [primary |-> IF IsFill(c) THEN Append(pool.primary, "pg") ELSE pool.primary,
                cache |-> Append(Rest("cache"), First("cache"))]
    /\ TaskGoto(c, "cache", "end")
    /\ UNCHANGED <<primary, calls, fillSong, fetched, m_asyncCount, process>>

\* A fill that throws here loses both its connections.
IndexThrows(c) ==
    /\ task[c]["cache"] = "index"
    /\ IsMisplaced("cache")
    /\ Throw(c, "cache", "cache")
    /\ UNCHANGED <<stores, calls, fillSong, fetched, m_asyncCount, process>>

\* purgeTrackFingerprintFromPrimary(): the connection goes to the other pool.
PurgePrimary(c) ==
    /\ task[c]["primary"] = "purge"
    /\ primary' = [primary EXCEPT ![request[c].song] = {}]
    /\ pool' = [primary |-> Rest("primary"), cache |-> Append(pool.cache, First("primary"))]
    /\ TaskGoto(c, "primary", "end")
    /\ UNCHANGED <<docs, calls, fillSong, fetched, m_asyncCount, process>>

PurgePrimaryThrows(c) ==
    /\ Faults
    /\ task[c]["primary"] = "purge"
    /\ Throw(c, "primary", "primary")
    /\ UNCHANGED <<stores, calls, fillSong, fetched, m_asyncCount, process>>

\* Mutant: a purge that matches no document.
NothingPurged(s) == {}

\* purgeTrackFingerprintFromCache(): _delete_by_query deletes what it finds.
Purged(s) == {d \in docs : d.shown /\ d.song = s}

PurgeCache(c) ==
    /\ task[c]["cache"] = "purge"
    /\ ~IsMisplaced("cache")
    /\ \/ docs' = docs \ Purged(request[c].song)
       \/ Faults /\ UNCHANGED docs
    /\ TakeAndGive("cache")
    /\ TaskGoto(c, "cache", "end")
    /\ UNCHANGED <<primary, calls, fillSong, fetched, m_asyncCount, process>>

PurgeCacheThrows(c) ==
    /\ task[c]["cache"] = "purge"
    /\ IsMisplaced("cache")
    /\ Throw(c, "cache", "cache")
    /\ UNCHANGED <<stores, calls, fillSong, fetched, m_asyncCount, process>>

-----------------------------------------------------------------------------
(* Elasticsearch makes searchable what it has indexed; somebody kills the   *)
(* process.                                                                 *)

Refresh ==
    /\ ~Refreshed
    /\ docs' = {[d EXCEPT !.shown = TRUE] : d \in docs}
    /\ UNCHANGED <<primary, pool, calls, tasks, process>>

\* SirenServer::ShutDown() has waited for the handlers (the purge is a task).
ShutDown ==
    /\ Stops
    /\ engine = "up"
    /\ \A c \in Calls : pc[c] \in {"idle", "over", "purge", "wait"}
    /\ engine' = "closing"
    /\ UNCHANGED <<stores, pool, calls, tasks, crashes>>

\* Mutant: nobody is waited for.
NobodyCounts == TRUE

NobodyIsCounted == m_asyncCount = 0

\* ~Engine; it may also sleep for ever, for it may miss the notification.
Destroy ==
    /\ engine = "closing"
    /\ NobodyIsCounted
    /\ engine' = "gone"
    /\ UNCHANGED <<stores, pool, calls, tasks, crashes>>

\* ~AsyncManager comes after that and runs the tasks that have not begun: on
\* an engine that is gone, which ends the process or them.
StartLate(c, l) ==
    /\ engine = "gone"
    /\ task[c][l] = "queued"
    /\ \/ Terminate
       \/ /\ TaskGoto(c, l, "over")
          /\ UNCHANGED <<stores, pool, calls, fillSong, fetched, m_asyncCount, engine>>
    /\ UNCHANGED crashes

PurgeLate(c) ==
    /\ engine = "gone"
    /\ pc[c] = "purge"
    /\ \/ Terminate
       \/ /\ Goto(c, "over")
          /\ UNCHANGED <<stores, pool, request, answer, tasks, engine>>
    /\ UNCHANGED crashes

Crash ==
    /\ crashes < MaxCrashes
    /\ crashes' = crashes + 1
    /\ Terminate

HandlerStep(c) ==
    \/ ClaimLook(c) \/ ClaimInsert(c) \/ ClaimThrows(c) \/ LoadFetch(c) \/ LoadFails(c)
    \/ SearchCache(c) \/ SearchPrimary(c) \/ SearchThrows(c) \/ FindReturns(c)
    \/ PurgeBegins(c) \/ PurgeReturns(c) \/ PurgeLate(c)

PrimaryStep(c) ==
    \/ Start(c, "primary") \/ InsertPrint(c) \/ InsertThrows(c) \/ CleanClaim(c) \/ CleanThrows(c)
    \/ PurgePrimary(c) \/ PurgePrimaryThrows(c)
    \/ End(c, "primary") \/ Notify(c, "primary") \/ StartLate(c, "primary")

CacheStep(c) ==
    \/ Start(c, "cache") \/ FillCount(c) \/ FillSelect(c) \/ FillThrows(c)
    \/ IndexDocs(c) \/ IndexThrows(c) \/ PurgeCache(c) \/ PurgeCacheThrows(c)
    \/ End(c, "cache") \/ Notify(c, "cache") \/ StartLate(c, "cache")

Next ==
    \/ \E c \in Calls : \/ \E r \in Requests : Begin(c, r)
                        \/ HandlerStep(c) \/ PrimaryStep(c) \/ CacheStep(c)
    \/ Refresh
    \/ ShutDown \/ Destroy
    \/ Crash

Spec == Init /\ [][Next]_vars

\* Handlers and tasks have a thread each, so each goes on; no request has to
\* arrive, nothing has to be refreshed, and ~Engine need not return.
FairSpec ==
    /\ Spec
    /\ \A c \in Calls : /\ WF_vars(HandlerStep(c))
                        /\ WF_vars(PrimaryStep(c)) /\ WF_vars(CacheStep(c))

-----------------------------------------------------------------------------
(***************************************************************************)
(* The engine outlives the tasks that are between markAsyncStart() and     *)
(* markAsyncEnd(), whatever fails and however the shutdown comes in        *)
(* between.  It does not outlive those that have not begun (StartLate), nor *)
(* the notification of the last one, which may find m_cv destroyed         *)
(* (engine.cpp:68-83, 500-584).                                            *)
(***************************************************************************)
EngineOutlivesItsTasks ==
    engine = "gone" => \A c \in Calls, l \in Lanes :
        task[c][l] \in {"none", "queued", "notify", "over"}

\* A load that has claimed its song and has not cleaned up yet.
Holds(c, s) ==
    /\ request[c] # NoRequest /\ request[c].op = "load" /\ request[c].song = s
    /\ pc[c] = "fetch" \/ task[c]["primary"] \in {"queued", "insert", "clean"}

NeverPurged(s) ==
    \A c \in Calls : request[c] # NoRequest => ~(request[c].op = "delete" /\ request[c].song = s)

(***************************************************************************)
(* The claim works as a lock: as long as nobody purges the song, one load  *)
(* at most is between the claim and the clean-up, and the row is there all *)
(* the time.  find_song_id takes no lock that excludes another call, so it *)
(* is the unique index alone that guarantees it, across crashes too        *)
(* (postgres_init.sh:31-45, engine.cpp:325-352, 399-416).                  *)
(***************************************************************************)
ClaimIsALock ==
    \A s \in Songs : NeverPurged(s) =>
        /\ \A c \in Calls : Holds(c, s) => Claim \in primary[s]
        /\ \A c, d \in Calls : Holds(c, s) /\ Holds(d, s) => c = d

(***************************************************************************)
(* With clients that wait and databases that work, what is left when all   *)
(* is done is consistent: no claim, one fingerprint at most for a song,    *)
(* and in the cache one copy at most of what the primary storage has.      *)
(***************************************************************************)
SettledIsConsistent ==
    Paced /\ ~Faults /\ Settled => \A s \in Songs :
        /\ Claim \notin primary[s]
        /\ Cardinality(primary[s]) <= 1
        /\ \A d \in docs : d.song = s => d.rows = primary[s]
        /\ \A d, e \in docs : d.song = s /\ e.song = s => d = e

(***************************************************************************)
(* With such clients the engine is the store they take it for: no answer   *)
(* out of the cache is about a song that was purged, and nothing is loaded *)
(* over what is stored (checked with Paced and without Faults).            *)
(***************************************************************************)
Store == INSTANCE FingerprintStore WITH stored <- [s \in Songs |-> primary[s] \ {Claim}]
ImplementsStore == Store!Spec

(***************************************************************************)
(* Every request is done with in the end, its tasks included, whatever     *)
(* fails and whoever dies: no handler and no task waits for another that   *)
(* waits for it.                                                           *)
(***************************************************************************)
CallsSettle ==
    \A c \in Calls : pc[c] # "idle" ~> pc[c] = "over" /\ IsDone(c)

-----------------------------------------------------------------------------
(* What comments, logs and tests of the repository say, and TLC refutes.    *)

(***************************************************************************)
(* A song already in storage is not loaded (engine.cpp:452).  Refuted: a   *)
(* load looks for the song, another runs from its claim to its clean-up,   *)
(* and the first inserts its claim after that.                             *)
(***************************************************************************)
NotLoadedTwice ==
    \A s \in Songs : Cardinality(primary[s] \ {Claim}) <= 1

(***************************************************************************)
(* When everybody has given back what he took, a pool has its initial size *)
(* (test/connection_pool.cpp:45).  Refuted: a purge gives its connection   *)
(* to the pool of the cache.                                               *)
(***************************************************************************)
PoolsKeepTheirSize ==
    Settled => Len(pool["primary"]) = PrimarySize /\ Len(pool["cache"]) = CacheSize

=============================================================================
