--------------------------- MODULE ConnectionPool ---------------------------
(***************************************************************************)
(* DBConnectionPool of fingerprint/src/storage/connection_pool.cpp.  The   *)
(* pool is a SafeQueue of idle connections and an atomic counter,          *)
(* m_poolSize, that follows the queue with a delay: getConnection() reads  *)
(* the counter, pops, and only then discounts; releaseConnection() pushes  *)
(* and only then counts.  Each of these is an action, so several borrowers *)
(* can stand between any two of them.  The queue itself appears with what  *)
(* BlockingFifo promises: a pop waits for a connection and takes the       *)
(* oldest one.                                                             *)
(***************************************************************************)
EXTENDS Integers, Sequences, FiniteSets

CONSTANTS Borrowers,    \* threads that run queries
          Connections,  \* names for connections, reused once one is destroyed
          NoConnection,
          PoolSize,     \* the size asked of the constructor
          Wrap,         \* the modulus of size_t, 2^64 in the build
          Faults,       \* TRUE when connections can break and queries throw
          MaxRequests   \* bound of the model: connections asked for by a borrower

MaxLive == IF PoolSize > Cardinality(Borrowers) THEN PoolSize ELSE Cardinality(Borrowers)

ASSUME PoolAssumption ==
    /\ IsFiniteSet(Borrowers)
    /\ IsFiniteSet(Connections)
    /\ PoolSize \in Nat
    /\ MaxRequests \in Nat
    /\ Faults \in BOOLEAN
    /\ NoConnection \notin Connections
    /\ MaxLive <= Cardinality(Connections)
    /\ Wrap \in Nat
    /\ Cardinality(Connections) + Cardinality(Borrowers) < Wrap

VARIABLES phase,      \* "init", "open", "failed", "closed" or "terminated"
          tried,      \* how many connections init() has asked for
          m_queue,    \* the idle connections
          m_poolSize, \* the counter
          live,       \* the connections that exist
          pc,         \* where each borrower stands
          conn,       \* conn[b]: the connection b has
          requests    \* how often b has called getConnection

vars == <<phase, tried, m_queue, m_poolSize, live, pc, conn, requests>>

initVars == <<phase, tried>>

(***************************************************************************)
(* A borrower is "out", has read a counter other than 0 and is in or       *)
(* before the pop ("pop"), has read 0 ("create"), has popped a connection  *)
(* it has not discounted ("popped"), runs its query ("held"), or has       *)
(* pushed the connection back without having counted it ("pushed").        *)
(***************************************************************************)
Labels == {"out", "pop", "create", "popped", "held", "pushed"}

\* How many borrowers stand at a label, f being pc or pc'.
CountAt(f, label) == Cardinality({b \in Borrowers : f[b] = label})

TypeOK ==
    /\ phase \in {"init", "open", "failed", "closed", "terminated"}
    /\ tried \in 0..PoolSize
    /\ m_queue \in Seq(Connections)
    /\ m_poolSize \in 0..(Wrap - 1)
    /\ live \subseteq Connections
    /\ pc \in [Borrowers -> Labels]
    /\ conn \in [Borrowers -> Connections \cup {NoConnection}]
    /\ requests \in [Borrowers -> Nat]

Init ==
    /\ phase = "init"
    /\ tried = 0
    /\ m_queue = <<>>
    /\ m_poolSize = PoolSize
    /\ live = {}
    /\ pc = [b \in Borrowers |-> "out"]
    /\ conn = [b \in Borrowers |-> NoConnection]
    /\ requests = [b \in Borrowers |-> 0]

Goto(b, label) == pc' = [pc EXCEPT ![b] = label]

\* Unsigned arithmetic on the counter.
Increment(n) == IF n = Wrap - 1 THEN 0 ELSE n + 1
Decrement(n) == IF n = 0 THEN Wrap - 1 ELSE n - 1

-----------------------------------------------------------------------------
\* The local isInitialized of init(): FALSE before the loop; a live connection
\* sets it and clears it again while more than one is missing, a dead one
\* leaves it and the queue as they are.
IsInitialized == tried > 0 /\ Len(m_queue) >= PoolSize - 1

\* One turn of the loop of init() that obtains a live connection.
InitConnect(c) ==
    /\ phase = "init"
    /\ tried < PoolSize
    /\ c \in Connections \ live
    /\ live' = live \cup {c}
    /\ m_queue' = Append(m_queue, c)
    /\ tried' = tried + 1
    /\ UNCHANGED <<phase, m_poolSize, pc, conn, requests>>

\* One turn that obtains a dead one.  The loop goes on only when the last but
\* one connection has already been judged enough; otherwise init() calls
\* close(), whose size check throws out of the constructor.
InitDead ==
    /\ phase = "init"
    /\ tried < PoolSize
    /\ Faults
    /\ IF IsInitialized
         THEN tried' = tried + 1 /\ UNCHANGED phase
         ELSE tried' = tried /\ phase' = "failed"
    /\ UNCHANGED <<m_queue, m_poolSize, live, pc, conn, requests>>

\* The loop is over; a pool of size 0 counts as a failure.
InitEnd ==
    /\ phase = "init"
    /\ tried = PoolSize
    /\ phase' = IF IsInitialized THEN "open" ELSE "failed"
    /\ m_poolSize' = Len(m_queue)
    /\ UNCHANGED <<tried, m_queue, live, pc, conn, requests>>

\* Mutant: a connection is created while one is left.
GetCheckEarly(b) ==
    /\ phase = "open"
    /\ pc[b] = "out"
    /\ requests[b] < MaxRequests
    /\ requests' = [requests EXCEPT ![b] = @ + 1]
    /\ Goto(b, IF m_poolSize <= 1 THEN "create" ELSE "pop")
    /\ UNCHANGED <<initVars, m_queue, m_poolSize, live, conn>>

\* getConnection(): the counter decides between the queue and a new connection.
GetCheck(b) ==
    /\ phase = "open"
    /\ pc[b] = "out"
    /\ requests[b] < MaxRequests
    /\ requests' = [requests EXCEPT ![b] = @ + 1]
    /\ Goto(b, IF m_poolSize = 0 THEN "create" ELSE "pop")
    /\ UNCHANGED <<initVars, m_queue, m_poolSize, live, conn>>

\* Mutant: front() without pop().
GetFront(b) ==
    /\ pc[b] = "pop"
    /\ m_queue # <<>>
    /\ conn' = [conn EXCEPT ![b] = Head(m_queue)]
    /\ Goto(b, "popped")
    /\ UNCHANGED <<initVars, m_queue, m_poolSize, live, requests>>

\* m_queue->pop(conn) waits until there is a connection.
GetPop(b) ==
    /\ pc[b] = "pop"
    /\ m_queue # <<>>
    /\ conn' = [conn EXCEPT ![b] = Head(m_queue)]
    /\ m_queue' = Tail(m_queue)
    /\ Goto(b, "popped")
    /\ UNCHANGED <<initVars, m_poolSize, live, requests>>

\* Mutant: a connection taken and not discounted.
GetUncounted(b) ==
    /\ pc[b] = "popped"
    /\ Goto(b, "held")
    /\ UNCHANGED <<initVars, m_queue, m_poolSize, live, conn, requests>>

\* m_poolSize--
GetDiscount(b) ==
    /\ pc[b] = "popped"
    /\ m_poolSize' = Decrement(m_poolSize)
    /\ Goto(b, "held")
    /\ UNCHANGED <<initVars, m_queue, live, conn, requests>>

GetCreate(b, c) ==
    /\ pc[b] = "create"
    /\ c \in Connections \ live
    /\ live' = live \cup {c}
    /\ conn' = [conn EXCEPT ![b] = c]
    /\ Goto(b, "held")
    /\ UNCHANGED <<initVars, m_queue, m_poolSize, requests>>

\* The connection created on the fly is dead: FATAL throws to the caller.
GetCreateFails(b) ==
    /\ Faults
    /\ pc[b] = "create"
    /\ Goto(b, "out")
    /\ UNCHANGED <<initVars, m_queue, m_poolSize, live, conn, requests>>

\* Mutant: a connection counted and not pushed.
ReleaseForgets(b) ==
    /\ pc[b] = "held"
    /\ conn' = [conn EXCEPT ![b] = NoConnection]
    /\ Goto(b, "pushed")
    /\ UNCHANGED <<initVars, m_queue, m_poolSize, live, requests>>

\* releaseConnection(): the push comes first ...
ReleasePush(b) ==
    /\ pc[b] = "held"
    /\ m_queue' = Append(m_queue, conn[b])
    /\ conn' = [conn EXCEPT ![b] = NoConnection]
    /\ Goto(b, "pushed")
    /\ UNCHANGED <<initVars, m_poolSize, live, requests>>

\* Mutant: a connection returned and not counted.
ReleaseUncounted(b) ==
    /\ pc[b] = "pushed"
    /\ Goto(b, "out")
    /\ UNCHANGED <<initVars, m_queue, m_poolSize, live, conn, requests>>

\* ... and m_poolSize++ after it.
ReleaseCount(b) ==
    /\ pc[b] = "pushed"
    /\ m_poolSize' = Increment(m_poolSize)
    /\ Goto(b, "out")
    /\ UNCHANGED <<initVars, m_queue, live, conn, requests>>

\* The query throws and nobody releases the connection, or the connection
\* cannot be revived and FATAL throws out of releaseConnection().  The last
\* pointer to it is gone either way.
Lose(b) ==
    /\ Faults
    /\ pc[b] = "held"
    /\ live' = live \ {conn[b]}
    /\ conn' = [conn EXCEPT ![b] = NoConnection]
    /\ Goto(b, "out")
    /\ UNCHANGED <<initVars, m_queue, m_poolSize, requests>>

\* The destructor runs when the last user has dropped the pool: close() checks
\* the counter, and FATAL inside a destructor ends the process.
Close ==
    /\ phase = "open"
    /\ \A b \in Borrowers : pc[b] = "out"
    /\ IF m_poolSize # Len(m_queue)
         THEN phase' = "terminated" /\ UNCHANGED <<m_queue, m_poolSize, live>>
         ELSE phase' = "closed" /\ m_queue' = <<>> /\ m_poolSize' = 0 /\ live' = {}
    /\ UNCHANGED <<tried, pc, conn, requests>>

-----------------------------------------------------------------------------
Construct == (\E c \in Connections : InitConnect(c)) \/ InitDead \/ InitEnd

getConnection(b) ==
    \/ GetCheck(b) \/ GetPop(b) \/ GetDiscount(b)
    \/ (\E c \in Connections : GetCreate(b, c)) \/ GetCreateFails(b)

releaseConnection(b) == ReleasePush(b) \/ ReleaseCount(b)

Next ==
    \/ Construct
    \/ \E b \in Borrowers : getConnection(b) \/ releaseConnection(b) \/ Lose(b)
    \/ Close

Spec == Init /\ [][Next]_vars

(***************************************************************************)
(* A thread that can run runs, and a query ends.  Nobody has to ask for a  *)
(* connection.  A pop that could go on is not promised that it will be the *)
(* one that goes on: weak fairness only.                                   *)
(***************************************************************************)
FairSpec ==
    /\ Spec
    /\ WF_vars(Construct)
    /\ \A b \in Borrowers :
          /\ WF_vars(GetPop(b) \/ GetDiscount(b) \/ (\E c \in Connections : GetCreate(b, c)))
          /\ WF_vars(releaseConnection(b))

-----------------------------------------------------------------------------
(***************************************************************************)
(* What the counter is worth: the idle connections, plus those a borrower  *)
(* has popped and not discounted, minus those it has pushed and not        *)
(* counted, modulo the width of size_t (connection_pool.cpp:45-56, 69-70). *)
(* A counter that is below zero reads as a huge number of connections.     *)
(***************************************************************************)
Balance == Len(m_queue) + CountAt(pc, "popped") - CountAt(pc, "pushed")

CounterFollowsQueue ==
    phase = "open" => m_poolSize = IF Balance >= 0 THEN Balance ELSE Balance + Wrap

(***************************************************************************)
(* Creating connections on the fly (connection_pool.cpp:45-49) does not    *)
(* run away: although the counter that triggers it is stale, the pool      *)
(* never owns more connections than it began with or than it has           *)
(* concurrent borrowers, counting those that are about to create one.      *)
(***************************************************************************)
GrowthIsBounded == Cardinality(live) + CountAt(pc, "create") <= MaxLive

(***************************************************************************)
(* The check of close() (connection_pool.cpp:123-126, "m_poolSize !=       *)
(* m_pool.size()") never fails when the pool is destroyed, whatever was    *)
(* borrowed, created on the fly, lost or returned before.                  *)
(***************************************************************************)
CloseCheckHolds == phase # "terminated"

(***************************************************************************)
(* A borrower that was sent to the queue gets a connection although the    *)
(* counter it trusted may have been stale (connection_pool.cpp:45-51):     *)
(* somebody returns one, as long as not all of them are lost.              *)
(***************************************************************************)
GetReturns ==
    \A b \in Borrowers : pc[b] = "pop" ~> pc[b] = "held" \/ live = {}

\* Queue and counter together lend every connection to one borrower at a time
\* (connection_pool.cpp:27-73).
Elements(s) == {s[i] : i \in DOMAIN s}

Lend == INSTANCE Lending WITH idle <- Elements(m_queue), lent <- conn

ImplementsLending == Lend!Spec

\* How the constructor relates what it tried to what it has.
InitInv ==
    /\ phase # "open" => \A b \in Borrowers : pc[b] = "out"
    /\ phase = "init" => Len(m_queue) <= tried /\ tried <= Len(m_queue) + 1
    /\ phase = "init" /\ tried < PoolSize => Len(m_queue) = tried

\* Every connection that exists is idle once or held by one borrower.
OnePlace ==
    /\ \A i, j \in DOMAIN m_queue : m_queue[i] = m_queue[j] => i = j
    /\ \A i \in DOMAIN m_queue : m_queue[i] \in live
    /\ \A b \in Borrowers :
          /\ conn[b] # NoConnection <=> pc[b] \in {"popped", "held"}
          /\ conn[b] # NoConnection =>
                conn[b] \in live /\ \A i \in DOMAIN m_queue : m_queue[i] # conn[b]
    /\ \A a, b \in Borrowers : conn[a] = conn[b] /\ conn[a] # NoConnection => a = b

LiveCount ==
    Cardinality(live) = Len(m_queue) + CountAt(pc, "popped") + CountAt(pc, "held")
=============================================================================
