----------------------------- MODULE GrpcServer -----------------------------
(***************************************************************************)
(* SirenServer, CallData and CallDataCollector (fingerprint/src/grpc).     *)
(* Every queue of completed operations is read by threads of its own.  For *)
(* each method a thread creates a CallData that waits for a request; when  *)
(* it gets one it creates its successor, handles the request, answers, and *)
(* is destroyed when the queue says that the answer is out.  The tag of an *)
(* operation is a plain pointer to the CallData.                           *)
(*                                                                         *)
(* gRPC is external: an operation ends once, as ok or failed, and its tag  *)
(* comes out of its queue once.  What a handler does with the engine is in *)
(* Engine; here a request is handled in one step.                          *)
(***************************************************************************)
EXTENDS Integers, FiniteSets

CONSTANTS Methods,    \* the CallData types the server is instantiated with
          Threads,
          Queues,
          QueueOf,    \* QueueOf[t]: the queue thread t reads
          None,
          MaxCalls    \* bound of the model: calls of the clients

ASSUME ServerAssumption ==
    /\ IsFiniteSet(Methods) /\ Methods # {}
    /\ IsFiniteSet(Threads)
    /\ QueueOf \in [Threads -> Queues]
    /\ MaxCalls \in Nat
    /\ None \notin Nat /\ None \notin Threads

\* The objects that can be created: those the threads begin with, and a
\* successor for each call.
Datas == 1..(Cardinality(Threads) * Cardinality(Methods) + MaxCalls)

VARIABLES created,     \* how many CallData there have been
          alive,       \* those not destroyed
          method,      \* method[d]: the type of d
          queue,       \* the queue it uses
          m_status,
          m_registry,  \* the set of the collector
          op,          \* its operation: under way ("request", "finish"), in the queue
                       \* ("ok", "failed") or none
          call,        \* the call it stands for: "none", "open" or "closed"
          pc,          \* where each thread is in HandleRpcs()
          todo,        \* the methods it has not begun to listen for
          tag,         \* the CallData it works on
          fresh,       \* the CallData it has created and not registered
          m_activeTaskCount,
          mpc,         \* where the main thread is in ShutDown()
          waiting,     \* whether it is blocked on m_cv
          closed       \* the queues that are shut down

dataVars == <<created, alive, method, queue, m_status, m_registry>>
grpcVars == <<op, call>>
threadVars == <<pc, todo, tag, fresh>>
mainVars == <<mpc, waiting, closed>>
vars == <<dataVars, grpcVars, threadVars, m_activeTaskCount, mainVars>>

ThreadPc == {"listen", "insert", "next", "count", "proceed", "handle", "finish", "uncount",
             "notify", "gone"}
MainPc == {"run", "server", "test", "block", "asleep", "close", "join", "done", "aborted"}

TypeOK ==
    /\ created \in 0..Cardinality(Datas)
    /\ alive \subseteq 1..created
    /\ method \in [Datas -> Methods \cup {None}]
    /\ queue \in [Datas -> Queues \cup {None}]
    /\ m_status \in [Datas -> {"PROCESS", "FINISH", "none"}]
    /\ m_registry \subseteq 1..created
    /\ op \in [Datas -> {"none", "request", "finish", "ok", "failed"}]
    /\ call \in [Datas -> {"none", "open", "closed"}]
    /\ pc \in [Threads -> ThreadPc]
    /\ todo \in [Threads -> SUBSET Methods]
    /\ tag \in [Threads -> Datas \cup {None}]
    /\ fresh \in [Threads -> Datas \cup {None}]
    /\ m_activeTaskCount \in 0..Cardinality(Threads)
    /\ mpc \in MainPc
    /\ waiting \in BOOLEAN
    /\ closed \subseteq Queues

\* Run() has started the threads.
Init ==
    /\ created = 0
    /\ alive = {}
    /\ method = [d \in Datas |-> None]
    /\ queue = [d \in Datas |-> None]
    /\ m_status = [d \in Datas |-> "none"]
    /\ m_registry = {}
    /\ op = [d \in Datas |-> "none"]
    /\ call = [d \in Datas |-> "none"]
    /\ pc = [t \in Threads |-> "listen"]
    /\ todo = [t \in Threads |-> Methods]
    /\ tag = [t \in Threads |-> None]
    /\ fresh = [t \in Threads |-> None]
    /\ m_activeTaskCount = 0
    /\ mpc = "run"
    /\ waiting = FALSE
    /\ closed = {}

Goto(t, label) == pc' = [pc EXCEPT ![t] = label]

-----------------------------------------------------------------------------
(* createNewCallData(): the constructor already waits for a request, before *)
(* the object is in the registry.                                           *)

Construct(t, m) ==
    LET d == created + 1 IN
    /\ QueueOf[t] \notin closed
    /\ created' = d
    /\ alive' = alive \cup {d}
    /\ method' = [method EXCEPT ![d] = m]
    /\ queue' = [queue EXCEPT ![d] = QueueOf[t]]
    /\ m_status' = [m_status EXCEPT ![d] = "PROCESS"]
    /\ op' = [op EXCEPT ![d] = "request"]
    /\ fresh' = [fresh EXCEPT ![t] = d]
    /\ UNCHANGED <<m_registry, call, tag, m_activeTaskCount, mainVars>>

\* HandleRpcs() begins with one object for each method.
Listen(t, m) ==
    /\ pc[t] = "listen"
    /\ m \in todo[t]
    /\ Construct(t, m)
    /\ todo' = [todo EXCEPT ![t] = @ \ {m}]
    /\ Goto(t, "insert")

Insert(t) ==
    /\ pc[t] = "insert"
    /\ m_registry' = m_registry \cup {fresh[t]}
    /\ fresh' = [fresh EXCEPT ![t] = None]
    /\ Goto(t, IF tag[t] # None THEN "handle" ELSE IF todo[t] # {} THEN "listen" ELSE "next")
    /\ UNCHANGED <<created, alive, method, queue, m_status, grpcVars, todo, tag,
                   m_activeTaskCount, mainVars>>

-----------------------------------------------------------------------------
(* The loop of HandleRpcs(). *)

Next_(t) ==
    /\ pc[t] = "next"
    /\ \E d \in Datas :
          /\ queue[d] = QueueOf[t] /\ op[d] = "ok"
          /\ op' = [op EXCEPT ![d] = "none"]
          /\ tag' = [tag EXCEPT ![t] = d]
    /\ Goto(t, "count")
    /\ UNCHANGED <<dataVars, call, todo, fresh, m_activeTaskCount, mainVars>>

\* A failed operation is logged; its object stays in the registry.
NextFailed(t) ==
    /\ pc[t] = "next"
    /\ \E d \in Datas :
          /\ queue[d] = QueueOf[t] /\ op[d] = "failed"
          /\ op' = [op EXCEPT ![d] = "none"]
    /\ UNCHANGED <<dataVars, call, threadVars, m_activeTaskCount, mainVars>>

\* Next() returns false when the queue is shut down and nothing is left in it.
NextEnds(t) ==
    /\ pc[t] = "next"
    /\ QueueOf[t] \in closed
    /\ \A d \in Datas : queue[d] = QueueOf[t] => op[d] = "none"
    /\ Goto(t, "gone")
    /\ UNCHANGED <<dataVars, grpcVars, todo, tag, fresh, m_activeTaskCount, mainVars>>

Count(t) ==
    /\ pc[t] = "count"
    /\ m_activeTaskCount' = m_activeTaskCount + 1
    /\ Goto(t, "proceed")
    /\ UNCHANGED <<dataVars, grpcVars, todo, tag, fresh, mainVars>>

\* Mutant: no successor.
AddNothing(t) ==
    /\ pc[t] = "proceed"
    /\ m_status[tag[t]] = "PROCESS"
    /\ Goto(t, "handle")
    /\ UNCHANGED <<dataVars, grpcVars, todo, tag, fresh, m_activeTaskCount, mainVars>>

\* proceed(), PROCESS: addNext() ...
AddNext(t) ==
    /\ pc[t] = "proceed"
    /\ m_status[tag[t]] = "PROCESS"
    /\ Construct(t, method[tag[t]])
    /\ Goto(t, "insert")
    /\ UNCHANGED todo

\* Mutant: a request that fails is not answered.
HandleForgets(t) ==
    /\ pc[t] = "handle"
    /\ m_status' = [m_status EXCEPT ![tag[t]] = "FINISH"]
    /\ Goto(t, "uncount")
    /\ UNCHANGED <<created, alive, method, queue, m_registry, grpcVars, todo, tag, fresh,
                   m_activeTaskCount, mainVars>>

\* ... handleRequest(), and the status before ...
Handle(t) ==
    /\ pc[t] = "handle"
    /\ m_status' = [m_status EXCEPT ![tag[t]] = "FINISH"]
    /\ Goto(t, "finish")
    /\ UNCHANGED <<created, alive, method, queue, m_registry, grpcVars, todo, tag, fresh,
                   m_activeTaskCount, mainVars>>

\* Mutant: the object is destroyed once the answer is under way.
FinishFrees(t) ==
    /\ pc[t] = "finish"
    /\ op' = [op EXCEPT ![tag[t]] = "finish"]
    /\ alive' = alive \ {tag[t]}
    /\ m_registry' = m_registry \ {tag[t]}
    /\ Goto(t, "uncount")
    /\ UNCHANGED <<created, method, queue, m_status, call, todo, tag, fresh, m_activeTaskCount,
                   mainVars>>

\* ... the answer: from here on another thread may be at work on the object.
Finish(t) ==
    /\ pc[t] = "finish"
    /\ op' = [op EXCEPT ![tag[t]] = "finish"]
    /\ Goto(t, "uncount")
    /\ UNCHANGED <<dataVars, call, todo, tag, fresh, m_activeTaskCount, mainVars>>

\* Mutant: the object is destroyed whether it is registered or not.
CleanUpAnyway(t) ==
    /\ pc[t] = "proceed"
    /\ m_status[tag[t]] = "FINISH"
    /\ m_registry' = m_registry \ {tag[t]}
    /\ alive' = alive \ {tag[t]}
    /\ Goto(t, "uncount")
    /\ UNCHANGED <<created, method, queue, m_status, grpcVars, todo, tag, fresh,
                   m_activeTaskCount, mainVars>>

\* FINISH: requestCleanUpByThis() drops the only owner of a registered object;
\* one that its creator has not registered yet is only logged.
CleanUp(t) ==
    /\ pc[t] = "proceed"
    /\ m_status[tag[t]] = "FINISH"
    /\ m_registry' = m_registry \ {tag[t]}
    /\ alive' = alive \ (m_registry \cap {tag[t]})
    /\ Goto(t, "uncount")
    /\ UNCHANGED <<created, method, queue, m_status, grpcVars, todo, tag, fresh,
                   m_activeTaskCount, mainVars>>

Uncount(t) ==
    /\ pc[t] = "uncount"
    /\ m_activeTaskCount' = m_activeTaskCount - 1
    /\ tag' = [tag EXCEPT ![t] = None]
    /\ Goto(t, "notify")
    /\ UNCHANGED <<dataVars, grpcVars, todo, fresh, mainVars>>

\* notify_one() without m_mtx.
Notify(t) ==
    /\ pc[t] = "notify"
    /\ waiting' = FALSE
    /\ Goto(t, "next")
    /\ UNCHANGED <<dataVars, grpcVars, todo, tag, fresh, m_activeTaskCount, mpc, closed>>

\* gRPC ends the process when an operation is started on a closed queue.
Starts(t) ==
    \/ pc[t] \in {"listen", "finish"}
    \/ pc[t] = "proceed" /\ m_status[tag[t]] = "PROCESS"

Abort(t) ==
    /\ QueueOf[t] \in closed
    /\ Starts(t)
    /\ mpc' = "aborted"
    /\ pc' = [u \in Threads |-> "gone"]
    /\ UNCHANGED <<dataVars, grpcVars, todo, tag, fresh, m_activeTaskCount, waiting, closed>>

-----------------------------------------------------------------------------
(* gRPC and its clients. *)

\* A client's call meets an object that waits for one.
Match(d) ==
    /\ mpc = "run"
    /\ Cardinality({e \in Datas : call[e] # "none"}) < MaxCalls
    /\ op[d] = "request"
    /\ op' = [op EXCEPT ![d] = "ok"]
    /\ call' = [call EXCEPT ![d] = "open"]
    /\ UNCHANGED <<dataVars, threadVars, m_activeTaskCount, mainVars>>

\* The answer is out, or the client has not waited for it.
Sent(d) ==
    /\ op[d] = "finish"
    /\ \E result \in {"ok", "failed"} : op' = [op EXCEPT ![d] = result]
    /\ call' = [call EXCEPT ![d] = "closed"]
    /\ UNCHANGED <<dataVars, threadVars, m_activeTaskCount, mainVars>>

\* After Server::Shutdown() no object gets a request any more.
Reject(d) ==
    /\ mpc \notin {"run", "aborted"}
    /\ op[d] = "request"
    /\ op' = [op EXCEPT ![d] = "failed"]
    /\ UNCHANGED <<dataVars, call, threadVars, m_activeTaskCount, mainVars>>

-----------------------------------------------------------------------------
(* ShutDown() *)

Main(label) == mpc' = label
others == <<dataVars, grpcVars, threadVars, m_activeTaskCount>>

ShutDown ==
    /\ mpc = "run"
    /\ Main("server")
    /\ UNCHANGED <<others, waiting, closed>>

\* Mutant: a Shutdown() with a deadline.
ServerDownAtOnce ==
    /\ mpc = "server"
    /\ Main("test")
    /\ UNCHANGED <<others, waiting, closed>>

\* Server::Shutdown() returns when every call has been answered.
ServerDown ==
    /\ mpc = "server"
    /\ \A d \in Datas : call[d] # "open"
    /\ Main("test")
    /\ UNCHANGED <<others, waiting, closed>>

\* m_cv.wait() for the handlers.
WaitTest ==
    /\ mpc = "test"
    /\ Main(IF m_activeTaskCount = 0 THEN "close" ELSE "block")
    /\ UNCHANGED <<others, waiting, closed>>

WaitBlock ==
    /\ mpc = "block"
    /\ Main("asleep")
    /\ waiting' = TRUE
    /\ UNCHANGED <<others, closed>>

WaitWake ==
    /\ mpc = "asleep"
    /\ ~waiting
    /\ Main("test")
    /\ UNCHANGED <<others, waiting, closed>>

SpuriousWakeup ==
    /\ waiting
    /\ waiting' = FALSE
    /\ UNCHANGED <<others, mpc, closed>>

\* Mutant: the threads are joined before the queues are shut down.
CloseLate ==
    /\ mpc = "close"
    /\ Main("join")
    /\ UNCHANGED <<others, waiting, closed>>

CloseQueue ==
    /\ mpc = "close"
    /\ \E q \in Queues \ closed :
          /\ closed' = closed \cup {q}
          /\ Main(IF closed' = Queues THEN "join" ELSE "close")
    /\ UNCHANGED <<others, waiting>>

\* CloseThreadPool()
JoinAll ==
    /\ mpc = "join"
    /\ \A t \in Threads : pc[t] = "gone"
    /\ Main("done")
    /\ UNCHANGED <<others, waiting, closed>>

-----------------------------------------------------------------------------
HandlerStep(t) ==
    \/ \E m \in Methods : Listen(t, m)
    \/ Insert(t) \/ Next_(t) \/ NextFailed(t) \/ NextEnds(t) \/ Count(t) \/ AddNext(t)
    \/ Handle(t) \/ Finish(t) \/ CleanUp(t) \/ Uncount(t) \/ Notify(t) \/ Abort(t)

ShutDownStep ==
    \/ ServerDown \/ WaitTest \/ WaitBlock \/ WaitWake \/ CloseQueue \/ JoinAll

Next ==
    \/ \E t \in Threads : HandlerStep(t)
    \/ \E d \in Datas : Match(d) \/ Sent(d) \/ Reject(d)
    \/ ShutDown \/ ShutDownStep \/ SpuriousWakeup

Spec == Init /\ [][Next]_vars

\* Threads go on, operations end, and waits do not end by themselves for ever.
\* No client has to call and nobody has to shut the server down.
FairSpec ==
    /\ Spec
    /\ \A t \in Threads : WF_vars(HandlerStep(t))
    /\ \A d \in Datas : WF_vars(Sent(d) \/ Reject(d))
    /\ WF_vars(ShutDownStep)
    /\ <>[][~SpuriousWakeup]_vars

-----------------------------------------------------------------------------
(***************************************************************************)
(* A tag is a plain pointer: an object is destroyed only when no operation *)
(* will bring its tag back, and two threads are at work on it only when    *)
(* one of them is done with it (calldata.h:72-100, collector.cpp:5-15).     *)
(***************************************************************************)
AtWork(t) == pc[t] \in {"insert", "count", "proceed", "handle", "finish"} /\ tag[t] # None

TagsAreValid ==
    /\ \A d \in Datas : op[d] # "none" => d \in alive
    /\ \A t \in Threads : AtWork(t) => tag[t] \in alive /\ op[tag[t]] = "none"
    /\ \A t, u \in Threads : AtWork(t) /\ AtWork(u) /\ tag[t] = tag[u] => t = u

(***************************************************************************)
(* Who owns an object: the registry, or its creator until it is there.     *)
(* An object that is answered before it is registered is not cleaned up,   *)
(* stays in the registry and leaks, but is not destroyed under its creator *)
(* (collector.h:10-16, collector.cpp:5-15).                                *)
(***************************************************************************)
ObjectsHaveOneOwner ==
    mpc # "aborted" =>
        /\ alive = m_registry \cup ({fresh[t] : t \in Threads} \ {None})
        /\ \A t \in Threads : fresh[t] \notin m_registry

(***************************************************************************)
(* No method goes deaf: on every queue each thread keeps one object of     *)
(* each method that waits for a request, or that has got one and whose     *)
(* handler has its successor yet to create (calldata.h:80-85,              *)
(* server.h:108-118).                                                      *)
(***************************************************************************)
Expecting(q, m) ==
    {d \in alive : /\ queue[d] = q /\ method[d] = m /\ m_status[d] = "PROCESS"
                   /\ \/ op[d] \in {"request", "ok"}
                      \/ \E t \in Threads : tag[t] = d /\ pc[t] \in {"count", "proceed"}}

NoMethodGoesDeaf ==
    mpc = "run" => \A q \in Queues, m \in Methods :
        Cardinality(Expecting(q, m)) =
            Cardinality({t \in Threads : QueueOf[t] = q /\ m \notin todo[t]})

(***************************************************************************)
(* A thread that has begun to serve never starts an operation on a queue   *)
(* that is shut down, which gRPC would not survive: ShutDown() has waited  *)
(* for it (server.h:52-66).  A thread that has not begun when the queue is *)
(* shut down does (Abort).                                                 *)
(***************************************************************************)
ClosedQueuesAreQuiet ==
    \A t \in Threads : QueueOf[t] \in closed /\ pc[t] # "listen" => ~Starts(t)

(***************************************************************************)
(* A call that has reached the server is answered, shut down or not.       *)
(***************************************************************************)
CallsAreAnswered ==
    \A d \in Datas : call[d] = "open" ~> call[d] = "closed"

(***************************************************************************)
(* Once the wait of ShutDown() is over it comes to its end: the queues run *)
(* dry and every thread leaves its loop (server.h:60-70, 116-133).         *)
(***************************************************************************)
ShutDownEnds == mpc = "close" ~> mpc \in {"done", "aborted"}

(***************************************************************************)
(* ShutDown() is graceful: it returns (main.cpp:13).  Refuted: a handler   *)
(* that counts down and notifies between the test and the block of the     *)
(* main thread is not heard, and if it was the last nobody is.             *)
(***************************************************************************)
ShutDownReturns == mpc # "run" ~> mpc \in {"done", "aborted"}

=============================================================================
