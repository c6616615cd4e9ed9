------------------------- MODULE GrpcServer_proofs -------------------------
(***************************************************************************)
(* For any number of methods, threads, queues and calls: the tags of gRPC  *)
(* point to objects that exist, each object has one owner, no method goes  *)
(* deaf before the shutdown, and no thread that serves starts an operation *)
(* on a queue that is shut down.                                           *)
(***************************************************************************)
EXTENDS GrpcServer, FiniteSetTheorems, TLAPS

\* With its successor created and its answer not yet under way.
Answering(t) == pc[t] \in {"handle", "finish"} \/ (pc[t] = "insert" /\ tag[t] # None)

\* The types, but for the bounds of the counters.
DataTypes ==
    /\ created \in Nat
    /\ alive \subseteq 1..created
    /\ method \in [Datas -> Methods \cup {None}]
    /\ queue \in [Datas -> Queues \cup {None}]
    /\ m_status \in [Datas -> {"PROCESS", "FINISH", "none"}]
    /\ m_registry \subseteq 1..created

GrpcTypes ==
    /\ op \in [Datas -> {"none", "request", "finish", "ok", "failed"}]
    /\ call \in [Datas -> {"none", "open", "closed"}]

ThreadTypes ==
    /\ pc \in [Threads -> ThreadPc]
    /\ todo \in [Threads -> SUBSET Methods]
    /\ tag \in [Threads -> Datas \cup {None}]
    /\ fresh \in [Threads -> Nat \cup {None}]

MainTypes ==
    /\ m_activeTaskCount \in Int
    /\ mpc \in MainPc
    /\ waiting \in BOOLEAN
    /\ closed \subseteq Queues

Types == DataTypes /\ GrpcTypes /\ ThreadTypes /\ MainTypes

\* An object exists from its constructor on; what its status says of its
\* operation and of its call.
Objects ==
    \A d \in Datas :
        /\ d > created => m_status[d] = "none" /\ op[d] = "none" /\ call[d] = "none"
        /\ d <= created => m_status[d] # "none"
        /\ op[d] # "none" => d \in alive
        /\ op[d] = "request" => m_status[d] = "PROCESS" /\ call[d] = "none"
        /\ op[d] = "finish" => m_status[d] = "FINISH" /\ call[d] = "open"
        /\ op[d] = "ok" /\ m_status[d] = "PROCESS" => call[d] = "open"

\* What thread t works on.
WorkingAt(t) ==
    /\ pc[t] \in {"count", "proceed", "handle", "finish", "uncount"} => tag[t] # None
    /\ tag[t] # None => tag[t] <= created /\ queue[tag[t]] = QueueOf[t]
    /\ AtWork(t) => tag[t] \in alive /\ op[tag[t]] = "none"
    /\ AtWork(t) /\ m_status[tag[t]] = "PROCESS" => call[tag[t]] = "open"
    /\ Answering(t) => call[tag[t]] = "open"
    /\ Answering(t) => m_status[tag[t]] = IF pc[t] = "finish" THEN "FINISH" ELSE "PROCESS"
    /\ pc[t] \in {"listen", "notify", "next"} => tag[t] = None

Working == \A t \in Threads : WorkingAt(t)

OneWorker == \A t, u \in Threads : AtWork(t) /\ AtWork(u) /\ tag[t] = tag[u] => t = u

\* Who owns an object.
Owners ==
    /\ alive = m_registry \cup ({fresh[t] : t \in Threads} \ {None})
    /\ \A t \in Threads :
        /\ pc[t] = "insert" => fresh[t] # None
        /\ fresh[t] # None => /\ pc[t] \in {"insert", "gone"}
                              /\ fresh[t] \in 1..created \ m_registry
                              /\ \A u \in Threads : fresh[u] = fresh[t] => u = t

\* After Server::Shutdown() no call is open.
Closing ==
    /\ closed # {} => mpc \notin {"run", "server"}
    /\ mpc \notin {"run", "server", "aborted"} => \A d \in Datas : call[d] # "open"
    /\ mpc = "aborted" => \A t \in Threads : pc[t] = "gone"

Inv == Types /\ Objects /\ Working /\ OneWorker /\ Owners /\ Closing

LEMMA DatasAreNumbers == Datas \subseteq Nat \ {0} /\ None \notin Datas
<1>1. Cardinality(Threads) * Cardinality(Methods) + MaxCalls \in Int
  BY FS_CardinalityType, ServerAssumption
<1> QED
  BY <1>1, ServerAssumption DEF Datas

LEMMA InitInv == Init => Inv
<1> SUFFICES ASSUME Init PROVE Inv
  OBVIOUS
<1> USE DEF Init
<1>1. Types
  <2>1. DataTypes
    BY DEF Types, DataTypes, Owners
  <2>2. GrpcTypes
    BY DEF Types, GrpcTypes
  <2>3. ThreadTypes
    BY DEF Types, ThreadTypes, ThreadPc
  <2>4. MainTypes
    <3>1. mpc \in MainPc /\ closed \subseteq Queues /\ m_activeTaskCount \in Int
      BY DEF MainPc
    <3> QED
      BY <3>1, Zenon DEF MainTypes
  <2> QED
    BY <2>1, <2>2, <2>3, <2>4 DEF Types
<1>2. Objects /\ Working
  BY DatasAreNumbers DEF Objects, Working, WorkingAt, AtWork, Answering
<1>3. OneWorker /\ Owners /\ Closing
  BY DEF OneWorker, Owners, Closing, AtWork
<1> QED
  BY <1>1, <1>2, <1>3 DEF Inv

LEMMA InsertKeepsInv ==
    ASSUME Inv, NEW t \in Threads, Insert(t)
    PROVE  Inv'
<1> USE DatasAreNumbers DEF Insert, Goto, dataVars, grpcVars, threadVars, mainVars, Inv
<1>1. Types'
  <2>1. DataTypes'
    BY DEF Types, DataTypes, Owners
  <2>2. GrpcTypes'
    BY DEF Types, GrpcTypes
  <2>3. ThreadTypes'
    BY DEF Types, ThreadTypes, ThreadPc
  <2>4. MainTypes'
    BY DEF Types, MainTypes, MainPc
  <2> QED
    BY <2>1, <2>2, <2>3, <2>4 DEF Types
<1>2. Objects'
  BY DEF Types, DataTypes, GrpcTypes, ThreadTypes, Objects, Working, WorkingAt, AtWork, Answering
<1>3. Working'
  BY DEF Types, DataTypes, GrpcTypes, ThreadTypes, Objects, Working, WorkingAt, OneWorker, AtWork,
     Answering
<1>4. OneWorker'
  BY DEF Types, GrpcTypes, ThreadTypes, Working, WorkingAt, OneWorker, AtWork
<1>5. Owners'
  BY DEF Types, DataTypes, ThreadTypes, Owners
<1>6. Closing'
  BY DEF Types, GrpcTypes, ThreadTypes, Closing
<1> QED
  BY <1>1, <1>2, <1>3, <1>4, <1>5, <1>6

LEMMA NextKeepsInv ==
    ASSUME Inv, NEW t \in Threads, Next_(t)
    PROVE  Inv'
<1> USE DatasAreNumbers DEF Next_, Goto, dataVars, grpcVars, threadVars, mainVars, Inv
<1>1. Types'
  <2>1. DataTypes'
    BY DEF Types, DataTypes, Owners
  <2>2. GrpcTypes'
    BY DEF Types, GrpcTypes
  <2>3. ThreadTypes'
    BY DEF Types, ThreadTypes, ThreadPc
  <2>4. MainTypes'
    BY DEF Types, MainTypes, MainPc
  <2> QED
    BY <2>1, <2>2, <2>3, <2>4 DEF Types
<1>2. Objects'
  <2>1. PICK d \in Datas : op[d] = "ok" /\ op' = [op EXCEPT ![d] = "none"]
    OBVIOUS
  <2>2. UNCHANGED <<created, alive, m_status, call>>
    OBVIOUS
  <2> QED
    BY <2>1, <2>2 DEF Types, GrpcTypes, Objects
<1>3. Working'
  BY DEF Types, DataTypes, GrpcTypes, ThreadTypes, Objects, Working, WorkingAt, OneWorker, AtWork,
     Answering
<1>4. OneWorker'
  BY DEF Types, GrpcTypes, ThreadTypes, Working, WorkingAt, OneWorker, AtWork
<1>5. Owners'
  BY DEF Types, DataTypes, ThreadTypes, Owners
<1>6. Closing'
  BY DEF Types, GrpcTypes, ThreadTypes, Closing
<1> QED
  BY <1>1, <1>2, <1>3, <1>4, <1>5, <1>6

LEMMA NextFailedKeepsInv ==
    ASSUME Inv, NEW t \in Threads, NextFailed(t)
    PROVE  Inv'
<1> USE DatasAreNumbers DEF NextFailed, Goto, dataVars, grpcVars, threadVars, mainVars, Inv
<1>1. Types'
  <2>1. DataTypes'
    BY DEF Types, DataTypes, Owners
  <2>2. GrpcTypes'
    BY DEF Types, GrpcTypes
  <2>3. ThreadTypes'
    BY DEF Types, ThreadTypes, ThreadPc
  <2>4. MainTypes'
    BY DEF Types, MainTypes, MainPc
  <2> QED
    BY <2>1, <2>2, <2>3, <2>4 DEF Types
<1>2. Objects'
  <2>1. PICK d \in Datas : op[d] = "failed" /\ op' = [op EXCEPT ![d] = "none"]
    OBVIOUS
  <2>2. UNCHANGED <<created, alive, m_status, call>>
    OBVIOUS
  <2> QED
    BY <2>1, <2>2 DEF Types, GrpcTypes, Objects
<1>3. Working'
  BY DEF Types, DataTypes, GrpcTypes, ThreadTypes, Objects, Working, WorkingAt, OneWorker, AtWork,
     Answering
<1>4. OneWorker'
  BY DEF Types, GrpcTypes, ThreadTypes, Working, WorkingAt, OneWorker, AtWork
<1>5. Owners'
  BY DEF Types, DataTypes, ThreadTypes, Owners
<1>6. Closing'
  BY DEF Types, GrpcTypes, ThreadTypes, Closing
<1> QED
  BY <1>1, <1>2, <1>3, <1>4, <1>5, <1>6

LEMMA NextEndsKeepsInv ==
    ASSUME Inv, NEW t \in Threads, NextEnds(t)
    PROVE  Inv'
<1> USE DatasAreNumbers DEF NextEnds, Goto, dataVars, grpcVars, threadVars, mainVars, Inv
<1>1. Types'
  <2>1. DataTypes'
    BY DEF Types, DataTypes, Owners
  <2>2. GrpcTypes'
    BY DEF Types, GrpcTypes
  <2>3. ThreadTypes'
    BY DEF Types, ThreadTypes, ThreadPc
  <2>4. MainTypes'
    BY DEF Types, MainTypes, MainPc
  <2> QED
    BY <2>1, <2>2, <2>3, <2>4 DEF Types
<1>2. Objects'
  BY DEF Types, DataTypes, GrpcTypes, ThreadTypes, Objects, Working, WorkingAt, AtWork, Answering
<1>3. Working'
  BY DEF Types, DataTypes, GrpcTypes, ThreadTypes, Objects, Working, WorkingAt, OneWorker, AtWork,
     Answering
<1>4. OneWorker'
  BY DEF Types, GrpcTypes, ThreadTypes, Working, WorkingAt, OneWorker, AtWork
<1>5. Owners'
  BY DEF Types, DataTypes, ThreadTypes, Owners
<1>6. Closing'
  BY DEF Types, GrpcTypes, ThreadTypes, Closing
<1> QED
  BY <1>1, <1>2, <1>3, <1>4, <1>5, <1>6

LEMMA CountKeepsInv ==
    ASSUME Inv, NEW t \in Threads, Count(t)
    PROVE  Inv'
<1> USE DatasAreNumbers DEF Count, Goto, dataVars, grpcVars, threadVars, mainVars, Inv
<1>1. Types'
  <2>1. DataTypes'
    BY DEF Types, DataTypes, Owners
  <2>2. GrpcTypes'
    BY DEF Types, GrpcTypes
  <2>3. ThreadTypes'
    BY DEF Types, ThreadTypes, ThreadPc
  <2>4. MainTypes'
    BY DEF Types, MainTypes, MainPc
  <2> QED
    BY <2>1, <2>2, <2>3, <2>4 DEF Types
<1>2. Objects'
  BY DEF Types, DataTypes, GrpcTypes, ThreadTypes, Objects, Working, WorkingAt, AtWork, Answering
<1>3. Working'
  BY DEF Types, DataTypes, GrpcTypes, ThreadTypes, Objects, Working, WorkingAt, OneWorker, AtWork,
     Answering
<1>4. OneWorker'
  BY DEF Types, GrpcTypes, ThreadTypes, Working, WorkingAt, OneWorker, AtWork
<1>5. Owners'
  BY DEF Types, DataTypes, ThreadTypes, Owners
<1>6. Closing'
  BY DEF Types, GrpcTypes, ThreadTypes, Closing
<1> QED
  BY <1>1, <1>2, <1>3, <1>4, <1>5, <1>6

LEMMA HandleKeepsInv ==
    ASSUME Inv, NEW t \in Threads, Handle(t)
    PROVE  Inv'
<1> USE DatasAreNumbers DEF Handle, Goto, dataVars, grpcVars, threadVars, mainVars, Inv
<1>1. Types'
  <2>1. DataTypes'
    BY DEF Types, DataTypes, Owners
  <2>2. GrpcTypes'
    BY DEF Types, GrpcTypes
  <2>3. ThreadTypes'
    BY DEF Types, ThreadTypes, ThreadPc
  <2>4. MainTypes'
    BY DEF Types, MainTypes, MainPc
  <2> QED
    BY <2>1, <2>2, <2>3, <2>4 DEF Types
<1>2. Objects'
  BY DEF Types, DataTypes, GrpcTypes, ThreadTypes, Objects, Working, WorkingAt, AtWork, Answering
<1>3. Working'
  BY DEF Types, DataTypes, GrpcTypes, ThreadTypes, Objects, Working, WorkingAt, OneWorker, AtWork,
     Answering
<1>4. OneWorker'
  BY DEF Types, GrpcTypes, ThreadTypes, Working, WorkingAt, OneWorker, AtWork
<1>5. Owners'
  BY DEF Types, DataTypes, ThreadTypes, Owners
<1>6. Closing'
  BY DEF Types, GrpcTypes, ThreadTypes, Closing
<1> QED
  BY <1>1, <1>2, <1>3, <1>4, <1>5, <1>6

LEMMA FinishKeepsInv ==
    ASSUME Inv, NEW t \in Threads, Finish(t)
    PROVE  Inv'
<1> USE DatasAreNumbers DEF Finish, Goto, dataVars, grpcVars, threadVars, mainVars, Inv
<1>1. Types'
  <2>1. DataTypes'
    BY DEF Types, DataTypes, Owners
  <2>2. GrpcTypes'
    BY DEF Types, GrpcTypes
  <2>3. ThreadTypes'
    BY DEF Types, ThreadTypes, ThreadPc
  <2>4. MainTypes'
    BY DEF Types, MainTypes, MainPc
  <2> QED
    BY <2>1, <2>2, <2>3, <2>4 DEF Types
<1>2. Objects'
  BY DEF Types, DataTypes, GrpcTypes, ThreadTypes, Objects, Working, WorkingAt, AtWork, Answering
<1>3. Working'
  BY DEF Types, DataTypes, GrpcTypes, ThreadTypes, Objects, Working, WorkingAt, OneWorker, AtWork,
     Answering
<1>4. OneWorker'
  BY DEF Types, GrpcTypes, ThreadTypes, Working, WorkingAt, OneWorker, AtWork
<1>5. Owners'
  BY DEF Types, DataTypes, ThreadTypes, Owners
<1>6. Closing'
  BY DEF Types, GrpcTypes, ThreadTypes, Closing
<1> QED
  BY <1>1, <1>2, <1>3, <1>4, <1>5, <1>6

LEMMA CleanUpKeepsInv ==
    ASSUME Inv, NEW t \in Threads, CleanUp(t)
    PROVE  Inv'
<1> USE DatasAreNumbers DEF CleanUp, Goto, dataVars, grpcVars, threadVars, mainVars, Inv
<1>1. Types'
  <2>1. DataTypes'
    BY DEF Types, DataTypes, Owners
  <2>2. GrpcTypes'
    BY DEF Types, GrpcTypes
  <2>3. ThreadTypes'
    BY DEF Types, ThreadTypes, ThreadPc
  <2>4. MainTypes'
    BY DEF Types, MainTypes, MainPc
  <2> QED
    BY <2>1, <2>2, <2>3, <2>4 DEF Types
<1>2. Objects'
  BY DEF Types, DataTypes, GrpcTypes, ThreadTypes, Objects, Working, WorkingAt, AtWork, Answering
<1>3. Working'
  BY DEF Types, DataTypes, GrpcTypes, ThreadTypes, Objects, Working, WorkingAt, OneWorker, AtWork,
     Answering
<1>4. OneWorker'
  BY DEF Types, GrpcTypes, ThreadTypes, Working, WorkingAt, OneWorker, AtWork
<1>5. Owners'
  BY DEF Types, DataTypes, ThreadTypes, Owners
<1>6. Closing'
  BY DEF Types, GrpcTypes, ThreadTypes, Closing
<1> QED
  BY <1>1, <1>2, <1>3, <1>4, <1>5, <1>6

LEMMA UncountKeepsInv ==
    ASSUME Inv, NEW t \in Threads, Uncount(t)
    PROVE  Inv'
<1> USE DatasAreNumbers DEF Uncount, Goto, dataVars, grpcVars, threadVars, mainVars, Inv
<1>1. Types'
  <2>1. DataTypes'
    BY DEF Types, DataTypes, Owners
  <2>2. GrpcTypes'
    BY DEF Types, GrpcTypes
  <2>3. ThreadTypes'
    BY DEF Types, ThreadTypes, ThreadPc
  <2>4. MainTypes'
    BY DEF Types, MainTypes, MainPc
  <2> QED
    BY <2>1, <2>2, <2>3, <2>4 DEF Types
<1>2. Objects'
  BY DEF Types, DataTypes, GrpcTypes, ThreadTypes, Objects, Working, WorkingAt, AtWork, Answering
<1>3. Working'
  BY DEF Types, DataTypes, GrpcTypes, ThreadTypes, Objects, Working, WorkingAt, OneWorker, AtWork,
     Answering
<1>4. OneWorker'
  BY DEF Types, GrpcTypes, ThreadTypes, Working, WorkingAt, OneWorker, AtWork
<1>5. Owners'
  BY DEF Types, DataTypes, ThreadTypes, Owners
<1>6. Closing'
  BY DEF Types, GrpcTypes, ThreadTypes, Closing
<1> QED
  BY <1>1, <1>2, <1>3, <1>4, <1>5, <1>6

LEMMA NotifyKeepsInv ==
    ASSUME Inv, NEW t \in Threads, Notify(t)
    PROVE  Inv'
<1> USE DatasAreNumbers DEF Notify, Goto, dataVars, grpcVars, threadVars, mainVars, Inv
<1>1. Types'
  <2>1. DataTypes'
    BY DEF Types, DataTypes, Owners
  <2>2. GrpcTypes'
    BY DEF Types, GrpcTypes
  <2>3. ThreadTypes'
    BY DEF Types, ThreadTypes, ThreadPc
  <2>4. MainTypes'
    BY DEF Types, MainTypes, MainPc
  <2> QED
    BY <2>1, <2>2, <2>3, <2>4 DEF Types
<1>2. Objects'
  BY DEF Types, DataTypes, GrpcTypes, ThreadTypes, Objects, Working, WorkingAt, AtWork, Answering
<1>3. Working'
  BY DEF Types, DataTypes, GrpcTypes, ThreadTypes, Objects, Working, WorkingAt, OneWorker, AtWork,
     Answering
<1>4. OneWorker'
  BY DEF Types, GrpcTypes, ThreadTypes, Working, WorkingAt, OneWorker, AtWork
<1>5. Owners'
  BY DEF Types, DataTypes, ThreadTypes, Owners
<1>6. Closing'
  BY DEF Types, GrpcTypes, ThreadTypes, Closing
<1> QED
  BY <1>1, <1>2, <1>3, <1>4, <1>5, <1>6

LEMMA AbortKeepsInv ==
    ASSUME Inv, NEW t \in Threads, Abort(t)
    PROVE  Inv'
<1> USE DatasAreNumbers DEF Abort, Goto, dataVars, grpcVars, threadVars, mainVars, Inv
<1>1. Types'
  <2>1. DataTypes'
    BY DEF Types, DataTypes, Owners
  <2>2. GrpcTypes'
    BY DEF Types, GrpcTypes
  <2>3. ThreadTypes'
    BY DEF Types, ThreadTypes, ThreadPc
  <2>4. MainTypes'
    BY DEF Types, MainTypes, MainPc
  <2> QED
    BY <2>1, <2>2, <2>3, <2>4 DEF Types
<1>2. Objects'
  BY DEF Types, DataTypes, GrpcTypes, ThreadTypes, Objects, Working, WorkingAt, AtWork, Answering
<1>3. Working'
  BY DEF Types, DataTypes, GrpcTypes, ThreadTypes, Objects, Working, WorkingAt, OneWorker, AtWork,
     Answering
<1>4. OneWorker'
  BY DEF Types, GrpcTypes, ThreadTypes, Working, WorkingAt, OneWorker, AtWork
<1>5. Owners'
  BY DEF Types, DataTypes, ThreadTypes, Owners
<1>6. Closing'
  BY DEF Types, GrpcTypes, ThreadTypes, Closing
<1> QED
  BY <1>1, <1>2, <1>3, <1>4, <1>5, <1>6

LEMMA MatchKeepsInv ==
    ASSUME Inv, NEW d \in Datas, Match(d)
    PROVE  Inv'
<1> USE DatasAreNumbers DEF Match, Goto, dataVars, grpcVars, threadVars, mainVars, Inv
<1>1. Types'
  <2>1. DataTypes'
    BY DEF Types, DataTypes, Owners
  <2>2. GrpcTypes'
    BY DEF Types, GrpcTypes
  <2>3. ThreadTypes'
    BY DEF Types, ThreadTypes, ThreadPc
  <2>4. MainTypes'
    BY DEF Types, MainTypes, MainPc
  <2> QED
    BY <2>1, <2>2, <2>3, <2>4 DEF Types
<1>2. Objects'
  BY DEF Types, DataTypes, GrpcTypes, ThreadTypes, Objects, Working, WorkingAt, AtWork, Answering
<1>3. Working'
  BY DEF Types, DataTypes, GrpcTypes, ThreadTypes, Objects, Working, WorkingAt, OneWorker, AtWork,
     Answering
<1>4. OneWorker'
  BY DEF Types, GrpcTypes, ThreadTypes, Working, WorkingAt, OneWorker, AtWork
<1>5. Owners'
  BY DEF Types, DataTypes, ThreadTypes, Owners
<1>6. Closing'
  BY DEF Types, GrpcTypes, ThreadTypes, Closing
<1> QED
  BY <1>1, <1>2, <1>3, <1>4, <1>5, <1>6

LEMMA SentKeepsInv ==
    ASSUME Inv, NEW d \in Datas, Sent(d)
    PROVE  Inv'
<1> USE DatasAreNumbers DEF Sent, Goto, dataVars, grpcVars, threadVars, mainVars, Inv
<1>1. Types'
  <2>1. DataTypes'
    BY DEF Types, DataTypes, Owners
  <2>2. GrpcTypes'
    BY DEF Types, GrpcTypes
  <2>3. ThreadTypes'
    BY DEF Types, ThreadTypes, ThreadPc
  <2>4. MainTypes'
    BY DEF Types, MainTypes, MainPc
  <2> QED
    BY <2>1, <2>2, <2>3, <2>4 DEF Types
<1>2. Objects'
  BY DEF Types, DataTypes, GrpcTypes, ThreadTypes, Objects, Working, WorkingAt, AtWork, Answering
<1>3. Working'
  BY DEF Types, DataTypes, GrpcTypes, ThreadTypes, Objects, Working, WorkingAt, OneWorker, AtWork,
     Answering
<1>4. OneWorker'
  BY DEF Types, GrpcTypes, ThreadTypes, Working, WorkingAt, OneWorker, AtWork
<1>5. Owners'
  BY DEF Types, DataTypes, ThreadTypes, Owners
<1>6. Closing'
  BY DEF Types, GrpcTypes, ThreadTypes, Closing
<1> QED
  BY <1>1, <1>2, <1>3, <1>4, <1>5, <1>6

LEMMA RejectKeepsInv ==
    ASSUME Inv, NEW d \in Datas, Reject(d)
    PROVE  Inv'
<1> USE DatasAreNumbers DEF Reject, Goto, dataVars, grpcVars, threadVars, mainVars, Inv
<1>1. Types'
  <2>1. DataTypes'
    BY DEF Types, DataTypes, Owners
  <2>2. GrpcTypes'
    BY DEF Types, GrpcTypes
  <2>3. ThreadTypes'
    BY DEF Types, ThreadTypes, ThreadPc
  <2>4. MainTypes'
    BY DEF Types, MainTypes, MainPc
  <2> QED
    BY <2>1, <2>2, <2>3, <2>4 DEF Types
<1>2. Objects'
  BY DEF Types, DataTypes, GrpcTypes, ThreadTypes, Objects, Working, WorkingAt, AtWork, Answering
<1>3. Working'
  BY DEF Types, DataTypes, GrpcTypes, ThreadTypes, Objects, Working, WorkingAt, OneWorker, AtWork,
     Answering
<1>4. OneWorker'
  BY DEF Types, GrpcTypes, ThreadTypes, Working, WorkingAt, OneWorker, AtWork
<1>5. Owners'
  BY DEF Types, DataTypes, ThreadTypes, Owners
<1>6. Closing'
  BY DEF Types, GrpcTypes, ThreadTypes, Closing
<1> QED
  BY <1>1, <1>2, <1>3, <1>4, <1>5, <1>6

LEMMA ListenKeepsInv ==
    ASSUME Inv, NEW t \in Threads, NEW m \in Methods, Listen(t, m)
    PROVE  Inv'
<1> USE DatasAreNumbers, ServerAssumption DEF Listen, Construct, Goto, mainVars, Inv
<1>1. Types'
  <2>1. DataTypes'
    <3>1. created \in Nat /\ created' = created + 1
      BY DEF Types, DataTypes
    <3>2. created' \in Nat /\ 1..created \subseteq 1..created' /\ created + 1 \in 1..created'
      BY <3>1
    <3>3. alive' \subseteq 1..created' /\ m_registry' \subseteq 1..created'
      BY <3>1, <3>2 DEF Types, DataTypes
    <3>4. /\ method' \in [Datas -> Methods \cup {None}]
          /\ queue' \in [Datas -> Queues \cup {None}]
          /\ m_status' \in [Datas -> {"PROCESS", "FINISH", "none"}]
      BY DEF Types, DataTypes, ThreadTypes, Working, WorkingAt, AtWork
    <3> QED
      BY <3>2, <3>3, <3>4 DEF DataTypes
  <2>2. GrpcTypes'
    BY DEF Types, DataTypes, GrpcTypes
  <2>3. ThreadTypes'
    BY DEF Types, DataTypes, ThreadTypes, ThreadPc
  <2>4. MainTypes'
    BY DEF Types, MainTypes, MainPc
  <2> QED
    BY <2>1, <2>2, <2>3, <2>4 DEF Types
<1>2. Objects'
  BY DEF Types, DataTypes, GrpcTypes, ThreadTypes, Objects, Working, WorkingAt, AtWork, Answering
<1>3. Working'
  <2>1. created \in Nat /\ created' = created + 1 /\ UNCHANGED <<call, tag>>
    BY DEF Types, DataTypes
  <2>2. \A d \in Datas : d <= created =>
           /\ d <= created' /\ queue'[d] = queue[d] /\ m_status'[d] = m_status[d] /\ op'[d] = op[d]
           /\ d \in alive => d \in alive'
    BY <2>1 DEF Types, DataTypes, GrpcTypes
  <2>3. pc' = [pc EXCEPT ![t] = "insert"] /\ tag[t] = None
    BY DEF Working, WorkingAt
  <2>4. WorkingAt(t)'
    BY <2>1, <2>3 DEF Types, ThreadTypes, WorkingAt, AtWork, Answering
  <2>5. ASSUME NEW u \in Threads, u # t PROVE WorkingAt(u)'
    <3>1. /\ WorkingAt(u) /\ pc'[u] = pc[u] /\ tag'[u] = tag[u]
          /\ tag[u] # None => tag[u] \in Datas
      BY <2>1, <2>3, <2>5 DEF Types, ThreadTypes, Working
    <3> QED
      BY <2>1, <2>2, <3>1 DEF WorkingAt, AtWork, Answering
  <2> QED
    BY <2>4, <2>5 DEF Working
<1>4. OneWorker'
  BY DEF Types, GrpcTypes, ThreadTypes, Working, WorkingAt, OneWorker, AtWork
<1>5. Owners'
  BY DEF Types, DataTypes, ThreadTypes, Owners
<1>6. Closing'
  BY DEF Types, GrpcTypes, ThreadTypes, Closing
<1> QED
  BY <1>1, <1>2, <1>3, <1>4, <1>5, <1>6

LEMMA AddNextKeepsInv ==
    ASSUME Inv, NEW t \in Threads, AddNext(t)
    PROVE  Inv'
<1> USE DatasAreNumbers, ServerAssumption DEF AddNext, Construct, Goto, mainVars, Inv
<1>1. Types'
  <2>1. DataTypes'
    <3>1. created \in Nat /\ created' = created + 1
      BY DEF Types, DataTypes
    <3>2. created' \in Nat /\ 1..created \subseteq 1..created' /\ created + 1 \in 1..created'
      BY <3>1
    <3>3. alive' \subseteq 1..created' /\ m_registry' \subseteq 1..created'
      BY <3>1, <3>2 DEF Types, DataTypes
    <3>4. method[tag[t]] \in Methods \cup {None} /\ QueueOf[t] \in Queues
      BY DEF Types, DataTypes, ThreadTypes, Working, WorkingAt
    <3>5. /\ method' \in [Datas -> Methods \cup {None}]
          /\ queue' \in [Datas -> Queues \cup {None}]
          /\ m_status' \in [Datas -> {"PROCESS", "FINISH", "none"}]
      BY <3>4 DEF Types, DataTypes
    <3> QED
      BY <3>2, <3>3, <3>5 DEF DataTypes
  <2>2. GrpcTypes'
    BY DEF Types, DataTypes, GrpcTypes
  <2>3. ThreadTypes'
    BY DEF Types, DataTypes, ThreadTypes, ThreadPc
  <2>4. MainTypes'
    BY DEF Types, MainTypes, MainPc
  <2> QED
    BY <2>1, <2>2, <2>3, <2>4 DEF Types
<1>2. Objects'
  BY DEF Types, DataTypes, GrpcTypes, ThreadTypes, Objects, Working, WorkingAt, AtWork, Answering
<1>3. Working'
  <2>1. created \in Nat /\ created' = created + 1 /\ UNCHANGED <<call, tag>>
    BY DEF Types, DataTypes
  <2>2. \A d \in Datas : d <= created =>
           /\ d <= created' /\ queue'[d] = queue[d] /\ m_status'[d] = m_status[d] /\ op'[d] = op[d]
           /\ d \in alive => d \in alive'
    BY <2>1 DEF Types, DataTypes, GrpcTypes
  <2>3. pc' = [pc EXCEPT ![t] = "insert"]
    OBVIOUS
  <2>4. /\ tag[t] \in Datas /\ tag[t] \in alive /\ op[tag[t]] = "none" /\ tag[t] <= created
        /\ m_status[tag[t]] = "PROCESS" /\ call[tag[t]] = "open" /\ queue[tag[t]] = QueueOf[t]
    BY DEF Types, ThreadTypes, Working, WorkingAt, AtWork
  <2>5. WorkingAt(t)'
    BY <2>1, <2>2, <2>3, <2>4 DEF Types, ThreadTypes, WorkingAt, AtWork, Answering
  <2>6. ASSUME NEW u \in Threads, u # t PROVE WorkingAt(u)'
    <3>1. /\ WorkingAt(u) /\ pc'[u] = pc[u] /\ tag'[u] = tag[u]
          /\ tag[u] # None => tag[u] \in Datas
      BY <2>1, <2>3, <2>6 DEF Types, ThreadTypes, Working
    <3> QED
      BY <2>1, <2>2, <3>1 DEF WorkingAt, AtWork, Answering
  <2> QED
    BY <2>5, <2>6 DEF Working
<1>4. OneWorker'
  BY DEF Types, GrpcTypes, ThreadTypes, Working, WorkingAt, OneWorker, AtWork
<1>5. Owners'
  BY DEF Types, DataTypes, ThreadTypes, Owners
<1>6. Closing'
  BY DEF Types, GrpcTypes, ThreadTypes, Closing
<1> QED
  BY <1>1, <1>2, <1>3, <1>4, <1>5, <1>6

\* ShutDown() changes nothing that the threads look at but the queues it closes.
LEMMA MainKeepsInv ==
    ASSUME Inv, ShutDown \/ ShutDownStep \/ SpuriousWakeup
    PROVE  Inv'
<1> USE DEF ShutDown, ShutDownStep, ServerDown, WaitTest, WaitBlock, WaitWake, CloseQueue, JoinAll,
            SpuriousWakeup, Main, others
<1>1. UNCHANGED <<dataVars, grpcVars, threadVars, m_activeTaskCount>>
  OBVIOUS
<1>2. DataTypes' /\ GrpcTypes' /\ ThreadTypes' /\ Objects' /\ Working' /\ OneWorker' /\ Owners'
  BY <1>1 DEF Inv, Types, DataTypes, GrpcTypes, ThreadTypes, Objects, Working, WorkingAt, OneWorker, Owners,
     AtWork, Answering, dataVars, grpcVars, threadVars
<1>3. MainTypes'
  BY DEF Inv, Types, MainTypes, MainPc
<1>4. Closing'
  BY <1>1 DEF Inv, Closing, grpcVars, threadVars
<1> QED
  BY <1>2, <1>3, <1>4 DEF Inv, Types

LEMMA StepInv == Inv /\ [Next]_vars => Inv'
<1> SUFFICES ASSUME Inv, [Next]_vars PROVE Inv'
  OBVIOUS
<1>1. ASSUME NEW t \in Threads, HandlerStep(t) PROVE Inv'
  BY <1>1, ListenKeepsInv, InsertKeepsInv, NextKeepsInv, NextFailedKeepsInv, NextEndsKeepsInv,
     CountKeepsInv, AddNextKeepsInv, HandleKeepsInv, FinishKeepsInv, CleanUpKeepsInv,
     UncountKeepsInv, NotifyKeepsInv, AbortKeepsInv DEF HandlerStep
<1>2. ASSUME NEW d \in Datas, Match(d) \/ Sent(d) \/ Reject(d) PROVE Inv'
  BY <1>2, MatchKeepsInv, SentKeepsInv, RejectKeepsInv
<1>3. CASE ShutDown \/ ShutDownStep \/ SpuriousWakeup
  BY <1>3, MainKeepsInv
<1>4. CASE UNCHANGED vars
  BY <1>4 DEF Inv, Types, DataTypes, GrpcTypes, ThreadTypes, MainTypes, Objects, Working, WorkingAt, OneWorker,
     Owners, Closing, AtWork, Answering, vars, dataVars, grpcVars, threadVars, mainVars
<1> QED
  BY <1>1, <1>2, <1>3, <1>4 DEF Next

LEMMA InvHolds == Spec => []Inv
BY InitInv, StepInv, PTL DEF Spec

\* No operation brings back the tag of an object that is destroyed, and no two
\* threads are at work on one.
THEOREM TagsPoint == Spec => []TagsAreValid
<1>1. Inv => TagsAreValid
  BY DEF Inv, Objects, Working, WorkingAt, OneWorker, TagsAreValid
<1> QED
  BY <1>1, InvHolds, PTL

\* The registry or the creator: somebody owns each object, and only one does.
THEOREM OwnersAreUnique == Spec => []ObjectsHaveOneOwner
<1>1. Inv => ObjectsHaveOneOwner
  <2> SUFFICES ASSUME Inv PROVE \A t \in Threads : fresh[t] \notin m_registry
    BY DEF Inv, Owners, ObjectsHaveOneOwner
  <2>1. \A t \in Threads : fresh[t] # None => fresh[t] \notin m_registry
    BY DEF Inv, Owners
  <2>2. None \notin m_registry
    <3>1. m_registry \subseteq 1..created /\ 1..created \subseteq Nat
      BY DEF Inv, Types, DataTypes
    <3> QED
      BY <3>1, ServerAssumption
  <2> QED
    BY <2>1, <2>2
<1> QED
  BY <1>1, InvHolds, PTL

\* When a queue is shut down no call is open, so that no thread that serves is
\* about to listen for another or to answer.
THEOREM ClosedQueuesStayQuiet == Spec => []ClosedQueuesAreQuiet
<1>1. Inv => ClosedQueuesAreQuiet
  <2> SUFFICES ASSUME Inv, NEW t \in Threads, QueueOf[t] \in closed, pc[t] # "listen", Starts(t)
               PROVE  FALSE
    BY DEF ClosedQueuesAreQuiet
  <2>1. tag[t] \in Datas /\ call[tag[t]] = "open"
    BY DEF Starts, Inv, Types, ThreadTypes, Working, WorkingAt, AtWork, Answering
  <2>2. mpc = "aborted"
    BY <2>1 DEF Inv, Closing
  <2> QED
    BY <2>2 DEF Inv, Closing, Starts
<1> QED
  BY <1>1, InvHolds, PTL

-----------------------------------------------------------------------------
(* How many objects there are: one for each method a thread has begun to    *)
(* listen for, and a successor for each call that a thread has answered or  *)
(* is about to.  The bound of Datas is never met.                           *)

Begun == {w \in Threads \X Methods : w[2] \notin todo[w[1]]}
Succeeded ==
    {d \in Datas :
        \/ m_status[d] = "FINISH"
        \/ \E t \in Threads : tag[t] = d /\ pc[t] \in {"insert", "handle"}}
Called == {d \in Datas : call[d] # "none"}

Created ==
    /\ \A d \in Datas : m_status[d] = "FINISH" => d \in Called
    /\ Cardinality(Called) <= MaxCalls
    /\ created <= Cardinality(Datas)
    /\ mpc # "aborted" => created = Cardinality(Begun) + Cardinality(Succeeded)

LEMMA DatasAreFinite ==
    /\ IsFiniteSet(Datas)
    /\ Cardinality(Datas) \in Nat
    /\ Cardinality(Datas) = Cardinality(Threads) * Cardinality(Methods) + MaxCalls
    /\ Datas = 1..Cardinality(Datas)
<1> DEFINE n == Cardinality(Threads) * Cardinality(Methods) + MaxCalls
<1>1. n \in Nat
  BY FS_CardinalityType, ServerAssumption
<1> HIDE DEF n
<1>2. IsFiniteSet(1..n) /\ Cardinality(1..n) = n
  BY <1>1, FS_Interval
<1> QED
  BY <1>1, <1>2 DEF Datas, n

LEMMA RoomForOne ==
    ASSUME NEW b \in Nat, NEW s \in Nat,
           b <= Cardinality(Threads) * Cardinality(Methods), s <= MaxCalls,
           b < Cardinality(Threads) * Cardinality(Methods) \/ s < MaxCalls
    PROVE  b + s + 1 \in Datas
<1> DEFINE n == Cardinality(Threads) * Cardinality(Methods)
<1>1. n \in Nat /\ MaxCalls \in Nat /\ Datas = 1..(n + MaxCalls) /\ b <= n /\ (b < n \/ s < MaxCalls)
  BY FS_CardinalityType, ServerAssumption DEF Datas
<1> HIDE DEF n
<1> QED
  BY <1>1

LEMMA BegunIsBounded ==
    /\ IsFiniteSet(Begun)
    /\ Cardinality(Begun) \in Nat
    /\ Cardinality(Begun) <= Cardinality(Threads) * Cardinality(Methods)
    /\ \A t \in Threads, m \in Methods :
          m \in todo[t] => Cardinality(Begun) < Cardinality(Threads) * Cardinality(Methods)
<1>1. /\ IsFiniteSet(Threads \X Methods)
      /\ Cardinality(Threads \X Methods) = Cardinality(Threads) * Cardinality(Methods)
  BY FS_Product, ServerAssumption
<1>2. Begun \subseteq Threads \X Methods
  BY DEF Begun
<1>3. /\ IsFiniteSet(Begun)
      /\ Cardinality(Begun) <= Cardinality(Threads \X Methods)
      /\ Cardinality(Begun) = Cardinality(Threads \X Methods) => Begun = Threads \X Methods
  BY <1>1, <1>2, FS_Subset
<1>4. Cardinality(Begun) \in Nat /\ Cardinality(Threads \X Methods) \in Nat
  BY <1>1, <1>3, FS_CardinalityType
<1>5. \A t \in Threads, m \in Methods : m \in todo[t] => Begun # Threads \X Methods
  <2> SUFFICES ASSUME NEW t \in Threads, NEW m \in Methods, m \in todo[t]
               PROVE  <<t, m>> \in Threads \X Methods /\ <<t, m>> \notin Begun
    OBVIOUS
  <2> QED
    BY DEF Begun
<1> QED
  BY <1>1, <1>3, <1>4, <1>5

\* Only a call that has come has a successor.
LEMMA SucceededIsBounded ==
    ASSUME Inv, Created
    PROVE  /\ IsFiniteSet(Succeeded)
           /\ Cardinality(Succeeded) \in Nat
           /\ Cardinality(Succeeded) <= MaxCalls
           /\ \A d \in Called : d \notin Succeeded => Cardinality(Succeeded) < MaxCalls
<1>1. IsFiniteSet(Called)
  BY DatasAreFinite, FS_Subset DEF Called
<1>2. Succeeded \subseteq Called
  <2> SUFFICES ASSUME NEW d \in Datas, NEW t \in Threads, tag[t] = d, pc[t] \in {"insert", "handle"}
               PROVE  call[d] # "none"
    BY DEF Succeeded, Called, Created
  <2>1. Answering(t)
    BY DatasAreNumbers DEF Answering
  <2> QED
    BY <2>1 DEF Inv, Working, WorkingAt
<1>3. /\ IsFiniteSet(Succeeded)
      /\ Cardinality(Succeeded) <= Cardinality(Called)
      /\ Cardinality(Succeeded) = Cardinality(Called) => Succeeded = Called
  BY <1>1, <1>2, FS_Subset
<1>4. Cardinality(Succeeded) \in Nat /\ Cardinality(Called) \in Nat
  BY <1>1, <1>3, FS_CardinalityType
<1> QED
  BY <1>3, <1>4, ServerAssumption DEF Created

LEMMA InitCreated == Init => Created
<1> SUFFICES ASSUME Init PROVE Created
  OBVIOUS
<1>1. Begun = {}
  BY DEF Init, Begun
<1>2. Succeeded = {} /\ Called = {}
  BY DEF Init, Succeeded, Called
<1> QED
  BY <1>1, <1>2, FS_EmptySet, DatasAreFinite, ServerAssumption DEF Init, Created

\* What most steps of a thread do to the numbers: nothing.
LEMMA QuietKeepsCreated ==
    ASSUME Inv, Created, NEW t \in Threads,
           \/ Insert(t) \/ Next_(t) \/ NextFailed(t) \/ NextEnds(t) \/ Count(t)
           \/ Handle(t) \/ Finish(t) \/ CleanUp(t) \/ Uncount(t) \/ Notify(t)
    PROVE  Created'
<1> USE DatasAreNumbers DEF Goto, dataVars, grpcVars, threadVars, mainVars
<1>1. UNCHANGED <<created, call, todo, mpc>>
  BY DEF Insert, Next_, NextFailed, NextEnds, Count, Handle, Finish, CleanUp, Uncount, Notify
<1>2. Begun' = Begun /\ Called' = Called
  BY <1>1 DEF Begun, Called
<1>3. /\ \A d \in Datas : m_status'[d] = "FINISH" => d \in Called
      /\ Succeeded' = Succeeded
  <2>1. CASE Insert(t)
    BY <2>1 DEF Insert, Succeeded, Created, Inv, Types, ThreadTypes
  <2>2. CASE Next_(t)
    BY <2>2 DEF Next_, Succeeded, Created, Inv, Types, ThreadTypes, Working, WorkingAt
  <2>3. CASE NextFailed(t) \/ NextEnds(t)
    BY <2>3 DEF NextFailed, NextEnds, Succeeded, Created, Inv, Types, ThreadTypes, Working, WorkingAt
  <2>4. CASE Count(t)
    BY <2>4 DEF Count, Succeeded, Created, Inv, Types, ThreadTypes
  <2>5. CASE Handle(t)
    BY <2>5 DEF Handle, Succeeded, Created, Called, Inv, Types, DataTypes, ThreadTypes, Working,
       WorkingAt, Answering
  <2>6. CASE Finish(t)
    BY <2>6 DEF Finish, Succeeded, Created, Inv, Types, ThreadTypes
  <2>7. CASE CleanUp(t)
    BY <2>7 DEF CleanUp, Succeeded, Created, Inv, Types, ThreadTypes
  <2>8. CASE Uncount(t) \/ Notify(t)
    BY <2>8 DEF Uncount, Notify, Succeeded, Created, Inv, Types, ThreadTypes
  <2> QED
    BY <2>1, <2>2, <2>3, <2>4, <2>5, <2>6, <2>7, <2>8
<1> QED
  BY <1>1, <1>2, <1>3 DEF Created

LEMMA ListenKeepsCreated ==
    ASSUME Inv, Created, NEW t \in Threads, NEW m \in Methods, Listen(t, m)
    PROVE  Created' /\ created + 1 \in Datas
<1>1. mpc # "aborted" /\ created \in Nat
  BY DEF Inv, Closing, Listen, Types, DataTypes
<1>2. created + 1 \in Datas
  <2>1. m \in todo[t] /\ created = Cardinality(Begun) + Cardinality(Succeeded)
    BY <1>1 DEF Listen, Created
  <2>2. Cardinality(Begun) < Cardinality(Threads) * Cardinality(Methods)
    BY <2>1, BegunIsBounded
  <2> QED
    BY <2>1, <2>2, RoomForOne, BegunIsBounded, SucceededIsBounded
<1>3. Begun' = Begun \cup {<<t, m>>} /\ <<t, m>> \notin Begun
  BY DEF Begun, Listen, Construct, Inv, Types, ThreadTypes
<1>4. Cardinality(Begun') = Cardinality(Begun) + 1
  BY <1>3, FS_AddElement, BegunIsBounded
<1>5. Called' = Called
  BY DEF Called, Listen, Construct
<1>6. Succeeded' = Succeeded
  <2>1. tag[t] = None /\ tag' = tag /\ pc' = [pc EXCEPT ![t] = "insert"]
    BY DEF Listen, Construct, Goto, Inv, Working, WorkingAt
  <2>2. \A d \in Datas : m_status'[d] = "FINISH" <=> m_status[d] = "FINISH"
    BY <1>1 DEF Listen, Construct, Inv, Types, DataTypes, Objects
  <2> QED
    BY <2>1, <2>2, DatasAreNumbers DEF Succeeded, Inv, Types, ThreadTypes, Listen
<1>7. \A d \in Datas : m_status'[d] = "FINISH" => d \in Called
  BY <1>1 DEF Listen, Construct, Created, Inv, Types, DataTypes
<1>8. created' = created + 1 /\ mpc' = mpc
  BY DEF Listen, Construct, mainVars
<1>9. created + 1 <= Cardinality(Datas)
  BY <1>2, DatasAreFinite
<1>10. Cardinality(Begun) \in Nat /\ Cardinality(Succeeded) \in Nat
  BY BegunIsBounded, SucceededIsBounded
<1> QED
  BY <1>1, <1>2, <1>4, <1>5, <1>6, <1>7, <1>8, <1>9, <1>10 DEF Created

LEMMA AddNextKeepsCreated ==
    ASSUME Inv, Created, NEW t \in Threads, AddNext(t)
    PROVE  Created' /\ created + 1 \in Datas
<1>1. mpc # "aborted" /\ created \in Nat
  BY DEF Inv, Closing, AddNext, Types, DataTypes
<1>2. /\ tag[t] \in Datas /\ AtWork(t) /\ m_status[tag[t]] = "PROCESS" /\ pc[t] = "proceed"
      /\ call[tag[t]] = "open" /\ tag[t] <= created
  BY DEF AddNext, AtWork, Inv, Types, ThreadTypes, Working, WorkingAt
<1>3. tag[t] \in Called /\ tag[t] \notin Succeeded
  BY <1>2, DatasAreNumbers DEF Called, Succeeded, Inv, OneWorker, AtWork
<1>4. created + 1 \in Datas
  <2>1. created = Cardinality(Begun) + Cardinality(Succeeded)
    BY <1>1 DEF Created
  <2>2. Cardinality(Succeeded) < MaxCalls
    BY <1>3, SucceededIsBounded
  <2> QED
    BY <2>1, <2>2, RoomForOne, BegunIsBounded, SucceededIsBounded
<1>5. Begun' = Begun
  BY DEF Begun, AddNext
<1>6. Called' = Called
  BY DEF Called, AddNext, Construct
<1>7. \A d \in Datas : m_status'[d] = "FINISH" <=> m_status[d] = "FINISH"
  BY <1>1, DatasAreNumbers DEF AddNext, Construct, Inv, Types, DataTypes, Objects
<1>8. Succeeded' = Succeeded \cup {tag[t]}
  <2>1. tag' = tag /\ pc' = [pc EXCEPT ![t] = "insert"]
    BY DEF AddNext, Construct, Goto
  <2> QED
    BY <1>2, <1>7, <2>1 DEF Succeeded, Inv, Types, ThreadTypes
<1>9. Cardinality(Succeeded') = Cardinality(Succeeded) + 1
  BY <1>3, <1>8, FS_AddElement, SucceededIsBounded
<1>10. created' = created + 1 /\ mpc' = mpc
  BY DEF AddNext, Construct, mainVars
<1>11. created + 1 <= Cardinality(Datas)
  BY <1>4, DatasAreFinite
<1>12. Cardinality(Begun) \in Nat /\ Cardinality(Succeeded) \in Nat
  BY BegunIsBounded, SucceededIsBounded
<1> QED
  BY <1>1, <1>4, <1>5, <1>6, <1>7, <1>9, <1>10, <1>11, <1>12 DEF Created

LEMMA GrpcKeepsCreated ==
    ASSUME Inv, Created, NEW d \in Datas, Match(d) \/ Sent(d) \/ Reject(d)
    PROVE  Created'
<1> USE DEF dataVars, grpcVars, threadVars, mainVars
<1>1. UNCHANGED <<created, m_status, pc, todo, tag, mpc>>
  BY DEF Match, Sent, Reject
<1>2. Begun' = Begun /\ Succeeded' = Succeeded
  BY <1>1 DEF Begun, Succeeded
<1>3. CASE Match(d)
  <2>1. Called' = Called \cup {d} /\ Cardinality(Called) < MaxCalls
    BY <1>3 DEF Match, Called, Inv, Types, GrpcTypes
  <2>2. IsFiniteSet(Called) /\ Cardinality(Called) \in Nat
    BY DatasAreFinite, FS_Subset, FS_CardinalityType DEF Called
  <2>3. Cardinality(Called') <= MaxCalls
    <3>1. \/ Cardinality(Called \cup {d}) = Cardinality(Called)
          \/ Cardinality(Called \cup {d}) = Cardinality(Called) + 1
      BY <2>2, FS_AddElement, Zenon
    <3> QED
      BY <2>1, <2>2, <3>1, ServerAssumption
  <2> QED
    BY <1>1, <1>2, <2>1, <2>3 DEF Created
<1>4. CASE Sent(d) \/ Reject(d)
  <2>1. \/ call' = call
        \/ op[d] = "finish" /\ call' = [call EXCEPT ![d] = "closed"]
    BY <1>4 DEF Sent, Reject
  <2>2. op[d] = "finish" => call[d] = "open"
    BY DEF Inv, Objects
  <2>3. Called' = Called
    BY <2>1, <2>2 DEF Called, Inv, Types, GrpcTypes
  <2> QED
    BY <1>1, <1>2, <2>3 DEF Created
<1> QED
  BY <1>3, <1>4

LEMMA StepCreated == Inv /\ Created /\ [Next]_vars => Created'
<1> SUFFICES ASSUME Inv, Created, [Next]_vars PROVE Created'
  OBVIOUS
<1>1. ASSUME NEW t \in Threads, HandlerStep(t) PROVE Created'
  <2>1. CASE Abort(t)
    <3>1. UNCHANGED <<created, m_status, call>> /\ mpc' = "aborted"
      BY <2>1 DEF Abort, dataVars, grpcVars
    <3> QED
      BY <3>1 DEF Created, Called
  <2> QED
    BY <1>1, <2>1, QuietKeepsCreated, ListenKeepsCreated, AddNextKeepsCreated DEF HandlerStep
<1>2. ASSUME NEW d \in Datas, Match(d) \/ Sent(d) \/ Reject(d) PROVE Created'
  BY <1>2, GrpcKeepsCreated
<1>3. CASE ShutDown \/ ShutDownStep \/ SpuriousWakeup
  <2>1. UNCHANGED <<dataVars, grpcVars, threadVars>> /\ (mpc = "aborted" => mpc' = "aborted")
    BY <1>3 DEF ShutDown, ShutDownStep, ServerDown, WaitTest, WaitBlock, WaitWake, CloseQueue,
       JoinAll, SpuriousWakeup, Main, others
  <2> QED
    BY <2>1 DEF Created, Begun, Succeeded, Called, dataVars, grpcVars, threadVars
<1>4. CASE UNCHANGED vars
  BY <1>4 DEF Created, Begun, Succeeded, Called, vars, dataVars, grpcVars, threadVars, mainVars
<1> QED
  BY <1>1, <1>2, <1>3, <1>4 DEF Next

LEMMA CreatedHolds == Spec => []Created
BY InitInv, StepInv, InitCreated, StepCreated, PTL DEF Spec

-----------------------------------------------------------------------------
(* No method goes deaf: only the constructor adds to what waits for a       *)
(* request, for a method that the thread begins to listen for or in the     *)
(* place of the object that has got one.                                    *)

Expects(d) ==
    /\ m_status[d] = "PROCESS"
    /\ \/ op[d] \in {"request", "ok"}
       \/ \E t \in Threads : tag[t] = d /\ pc[t] \in {"count", "proceed"}

Listening(q, m) == {t \in Threads : QueueOf[t] = q /\ m \notin todo[t]}

LEMMA ExpectingExpects ==
    ASSUME NEW q, NEW m
    PROVE  Expecting(q, m) = {d \in alive : queue[d] = q /\ method[d] = m /\ Expects(d)}
BY DEF Expecting, Expects

LEMMA ExpectingAreAlive == ASSUME NEW q, NEW m PROVE Expecting(q, m) \subseteq alive
BY ExpectingExpects

LEMMA AliveAreDatas == ASSUME Inv, Created PROVE alive \subseteq Datas /\ 1..created \subseteq Datas
<1>1. created \in Nat /\ alive \subseteq 1..created /\ created <= Cardinality(Datas)
  BY DEF Inv, Types, DataTypes, Created
<1> QED
  BY <1>1, DatasAreFinite

LEMMA ExpectingIsFinite ==
    ASSUME Inv, Created, NEW q, NEW m
    PROVE  IsFiniteSet(Expecting(q, m)) /\ IsFiniteSet(Listening(q, m))
BY AliveAreDatas, DatasAreFinite, FS_Subset, ServerAssumption DEF Expecting, Listening

\* What most steps do to an object that waits: nothing.
LEMMA QuietKeepsExpects ==
    ASSUME Inv, NEW t \in Threads, NEW d \in Datas,
           \/ Insert(t) \/ Next_(t) \/ NextFailed(t) \/ Count(t)
           \/ Handle(t) \/ Finish(t) \/ CleanUp(t) \/ Uncount(t) \/ Notify(t)
    PROVE  Expects(d)' <=> Expects(d)
<1> USE DatasAreNumbers DEF Goto, dataVars, grpcVars, threadVars, mainVars
<1>1. CASE Insert(t)
  BY <1>1 DEF Insert, Expects, Inv, Types, ThreadTypes
<1>2. CASE Next_(t)
  BY <1>2 DEF Next_, Expects, Inv, Types, GrpcTypes, ThreadTypes, Working, WorkingAt
<1>3. CASE NextFailed(t)
  BY <1>3 DEF NextFailed, Expects, Inv, Types, GrpcTypes, ThreadTypes, Working, WorkingAt
<1>4. CASE Count(t)
  BY <1>4 DEF Count, Expects, Inv, Types, ThreadTypes
<1>5. CASE Handle(t)
  BY <1>5 DEF Handle, Expects, Inv, Types, DataTypes, ThreadTypes, Working, WorkingAt, OneWorker,
     AtWork
<1>6. CASE Finish(t)
  BY <1>6 DEF Finish, Expects, Inv, Types, GrpcTypes, ThreadTypes, Working, WorkingAt, AtWork,
     Answering
<1>7. CASE CleanUp(t)
  BY <1>7 DEF CleanUp, Expects, Inv, Types, ThreadTypes
<1>8. CASE Uncount(t) \/ Notify(t)
  BY <1>8 DEF Uncount, Notify, Expects, Inv, Types, ThreadTypes
<1> QED
  BY <1>1, <1>2, <1>3, <1>4, <1>5, <1>6, <1>7, <1>8

LEMMA QuietKeepsHearing ==
    ASSUME Inv, Created, NoMethodGoesDeaf, NEW t \in Threads,
           \/ Insert(t) \/ Next_(t) \/ NextFailed(t) \/ NextEnds(t) \/ Count(t)
           \/ Handle(t) \/ Finish(t) \/ CleanUp(t) \/ Uncount(t) \/ Notify(t)
    PROVE  NoMethodGoesDeaf'
<1> SUFFICES ASSUME mpc' = "run", NEW q \in Queues, NEW m \in Methods
             PROVE  Expecting(q, m)' = Expecting(q, m) /\ mpc = "run" /\ todo' = todo
  BY DEF NoMethodGoesDeaf
<1> USE DEF Goto, dataVars, grpcVars, threadVars, mainVars
<1>1. /\ mpc' = mpc /\ todo' = todo /\ queue' = queue /\ method' = method
      /\ alive' = alive \/ CleanUp(t)
  BY DEF Insert, Next_, NextFailed, NextEnds, Count, Handle, Finish, CleanUp, Uncount, Notify
<1>2. ~NextEnds(t)
  BY <1>1 DEF NextEnds, Inv, Closing
<1>3. \A d \in Datas : Expects(d)' <=> Expects(d)
  BY <1>2, QuietKeepsExpects
<1>4. \A d \in alive : d \in alive' \/ ~Expects(d)
  BY <1>1 DEF CleanUp, Expects
<1>5. alive' \subseteq alive /\ alive \subseteq Datas
  BY <1>1, AliveAreDatas DEF CleanUp
<1>6. Expecting(q, m)' = {d \in alive' : queue'[d] = q /\ method'[d] = m /\ Expects(d)'}
  BY DEF Expecting, Expects
<1> QED
  BY <1>1, <1>3, <1>4, <1>5, <1>6, ExpectingExpects

\* What the constructor does to the objects there are: nothing.
LEMMA ConstructKeepsOthers ==
    ASSUME Inv, Created, NEW t \in Threads, NEW k, Construct(t, k), created + 1 \in Datas
    PROVE  /\ created + 1 \notin alive
           /\ \A d \in alive : /\ queue'[d] = queue[d] /\ method'[d] = method[d]
                               /\ m_status'[d] = m_status[d] /\ op'[d] = op[d]
           /\ alive' = alive \cup {created + 1}
           /\ queue'[created + 1] = QueueOf[t] /\ method'[created + 1] = k
           /\ m_status'[created + 1] = "PROCESS" /\ op'[created + 1] = "request"
<1>1. created \in Nat /\ alive \subseteq 1..created /\ alive \subseteq Datas
  BY AliveAreDatas DEF Inv, Types, DataTypes
<1>2. created + 1 \notin alive
  BY <1>1
<1> QED
  BY <1>1, <1>2 DEF Construct, Inv, Types, DataTypes, GrpcTypes

LEMMA ListenKeepsHearing ==
    ASSUME Inv, Created, NoMethodGoesDeaf, NEW t \in Threads, NEW k \in Methods, Listen(t, k)
    PROVE  NoMethodGoesDeaf'
<1> SUFFICES ASSUME mpc' = "run", NEW q \in Queues, NEW m \in Methods
             PROVE  Cardinality(Expecting(q, m)') = Cardinality(Listening(q, m)')
  BY DEF NoMethodGoesDeaf, Listening
<1>1. PICK e \in Datas : e = created + 1
  BY ListenKeepsCreated
<1>2. Construct(t, k) /\ UNCHANGED <<tag, mpc>> /\ pc' = [pc EXCEPT ![t] = "insert"] /\ pc[t] = "listen"
  BY DEF Listen, Construct, Goto, mainVars
<1>3. /\ e \notin alive
      /\ \A d \in alive : /\ queue'[d] = queue[d] /\ method'[d] = method[d]
                          /\ m_status'[d] = m_status[d] /\ op'[d] = op[d]
      /\ alive' = alive \cup {e}
      /\ queue'[e] = QueueOf[t] /\ method'[e] = k
      /\ m_status'[e] = "PROCESS" /\ op'[e] = "request"
  BY <1>1, <1>2, ConstructKeepsOthers
<1>4. \A d \in alive : Expects(d)' <=> Expects(d)
  BY <1>2, <1>3 DEF Expects, Inv, Types, ThreadTypes
<1>5. Expects(e)'
  BY <1>3 DEF Expects
<1>6. Expecting(q, m)' = {d \in alive' : queue'[d] = q /\ method'[d] = m /\ Expects(d)'}
  BY DEF Expecting, Expects
<1>7. Expecting(q, m)' = IF QueueOf[t] = q /\ k = m THEN Expecting(q, m) \cup {e} ELSE Expecting(q, m)
  <2>1. CASE QueueOf[t] = q /\ k = m
    BY <1>3, <1>4, <1>5, <1>6, <2>1, ExpectingExpects
  <2>2. CASE ~(QueueOf[t] = q /\ k = m)
    BY <1>3, <1>4, <1>6, <2>2, ExpectingExpects
  <2> QED
    BY <2>1, <2>2
<1>8. Listening(q, m)' = IF QueueOf[t] = q /\ k = m THEN Listening(q, m) \cup {t} ELSE Listening(q, m)
  BY DEF Listening, Listen, Inv, Types, ThreadTypes
<1>9. e \notin Expecting(q, m) /\ (k = m => t \notin Listening(q, m))
  <2>1. e \notin Expecting(q, m)
    BY <1>3, ExpectingAreAlive
  <2> QED
    BY <2>1 DEF Listening, Listen
<1>10. Cardinality(Expecting(q, m)) = Cardinality(Listening(q, m))
  BY <1>2 DEF NoMethodGoesDeaf, Listening
<1>11. CASE QueueOf[t] = q /\ k = m
  <2>1. Cardinality(Expecting(q, m) \cup {e}) = Cardinality(Expecting(q, m)) + 1
    BY <1>9, ExpectingIsFinite, FS_AddElement
  <2>2. Cardinality(Listening(q, m) \cup {t}) = Cardinality(Listening(q, m)) + 1
    BY <1>9, <1>11, ExpectingIsFinite, FS_AddElement
  <2> QED
    BY <1>7, <1>8, <1>10, <1>11, <2>1, <2>2
<1>12. CASE ~(QueueOf[t] = q /\ k = m)
  BY <1>7, <1>8, <1>10, <1>12
<1> QED
  BY <1>11, <1>12

LEMMA AddNextKeepsHearing ==
    ASSUME Inv, Created, NoMethodGoesDeaf, NEW t \in Threads, AddNext(t)
    PROVE  NoMethodGoesDeaf'
<1> SUFFICES ASSUME mpc' = "run", NEW q \in Queues, NEW m \in Methods
             PROVE  Cardinality(Expecting(q, m)') = Cardinality(Listening(q, m)')
  BY DEF NoMethodGoesDeaf, Listening
<1>0. PICK b \in Datas : b = tag[t]
  BY DatasAreNumbers DEF AddNext, Inv, Types, ThreadTypes, Working, WorkingAt
<1>1. PICK e \in Datas : e = created + 1
  BY AddNextKeepsCreated
<1>2. /\ Construct(t, method[b]) /\ UNCHANGED <<tag, mpc, todo>>
      /\ pc' = [pc EXCEPT ![t] = "insert"] /\ pc[t] = "proceed"
  BY <1>0 DEF AddNext, Construct, Goto, mainVars
<1>3. /\ e \notin alive
      /\ \A d \in alive : /\ queue'[d] = queue[d] /\ method'[d] = method[d]
                          /\ m_status'[d] = m_status[d] /\ op'[d] = op[d]
      /\ alive' = alive \cup {e}
      /\ queue'[e] = QueueOf[t] /\ method'[e] = method[b]
      /\ m_status'[e] = "PROCESS" /\ op'[e] = "request"
  BY <1>1, <1>2, ConstructKeepsOthers
<1>4. /\ b \in alive /\ op[b] = "none" /\ m_status[b] = "PROCESS" /\ queue[b] = QueueOf[t]
      /\ b # None
  BY <1>0, DatasAreNumbers DEF AddNext, AtWork, Inv, Working, WorkingAt
<1>5. \A d \in alive \ {b} : Expects(d)' <=> Expects(d)
  BY <1>0, <1>2, <1>3 DEF Expects, Inv, Types, ThreadTypes
<1>6. Expects(e)' /\ Expects(b)
  BY <1>0, <1>2, <1>3, <1>4 DEF Expects
<1>7. ~Expects(b)'
  <2>1. \A u \in Threads : tag[u] = b /\ pc[u] \in {"count", "proceed"} => u = t
    BY <1>0, <1>2, <1>4 DEF AtWork, Inv, OneWorker
  <2> QED
    BY <1>0, <1>2, <1>3, <1>4, <2>1 DEF Expects, Inv, Types, ThreadTypes
<1>8. Expecting(q, m)' = {d \in alive' : queue'[d] = q /\ method'[d] = m /\ Expects(d)'}
  BY DEF Expecting, Expects
<1>9. Listening(q, m)' = Listening(q, m)
  BY <1>2 DEF Listening
<1>10. Cardinality(Expecting(q, m)) = Cardinality(Listening(q, m))
  BY <1>2 DEF NoMethodGoesDeaf, Listening
<1>11. e \notin Expecting(q, m)
  BY <1>3, ExpectingAreAlive
<1>12. CASE QueueOf[t] = q /\ method[b] = m
  <2>1. Expecting(q, m)' = (Expecting(q, m) \ {b}) \cup {e}
    BY <1>3, <1>4, <1>5, <1>6, <1>7, <1>8, <1>12, ExpectingExpects
  <2>2. b \in Expecting(q, m)
    BY <1>4, <1>6, <1>12, ExpectingExpects
  <2>3. /\ Cardinality(Expecting(q, m) \ {b}) = Cardinality(Expecting(q, m)) - 1
        /\ IsFiniteSet(Expecting(q, m) \ {b})
    BY <2>2, ExpectingIsFinite, FS_RemoveElement
  <2>4. Cardinality((Expecting(q, m) \ {b}) \cup {e}) = Cardinality(Expecting(q, m) \ {b}) + 1
    BY <1>11, <2>3, FS_AddElement
  <2>5. Cardinality(Expecting(q, m)) \in Nat
    BY ExpectingIsFinite, FS_CardinalityType
  <2> QED
    BY <1>9, <1>10, <2>1, <2>3, <2>4, <2>5
<1>13. CASE ~(QueueOf[t] = q /\ method[b] = m)
  <2>1. Expecting(q, m)' = Expecting(q, m)
    BY <1>3, <1>4, <1>5, <1>7, <1>8, <1>13, ExpectingExpects
  <2> QED
    BY <1>9, <1>10, <2>1
<1> QED
  BY <1>12, <1>13

LEMMA GrpcKeepsHearing ==
    ASSUME Inv, Created, NoMethodGoesDeaf, NEW e \in Datas, Match(e) \/ Sent(e) \/ Reject(e)
    PROVE  NoMethodGoesDeaf'
<1> SUFFICES ASSUME mpc' = "run", NEW q \in Queues, NEW m \in Methods
             PROVE  Expecting(q, m)' = Expecting(q, m) /\ mpc = "run" /\ todo' = todo
  BY DEF NoMethodGoesDeaf
<1> USE DEF dataVars, grpcVars, threadVars, mainVars
<1>1. /\ UNCHANGED <<mpc, todo, pc, tag, queue, method, alive, m_status>>
      /\ Match(e) \/ Sent(e)
  BY DEF Match, Sent, Reject
<1>2. \A d \in Datas : Expects(d)' <=> Expects(d)
  BY <1>1 DEF Match, Sent, Expects, Inv, Types, GrpcTypes, Objects
<1>3. Expecting(q, m)' = {d \in alive' : queue'[d] = q /\ method'[d] = m /\ Expects(d)'}
  BY DEF Expecting, Expects
<1> QED
  BY <1>1, <1>2, <1>3, AliveAreDatas, ExpectingExpects

LEMMA InitHearing == Init => NoMethodGoesDeaf
<1> SUFFICES ASSUME Init, NEW q \in Queues, NEW m \in Methods
             PROVE  Expecting(q, m) = {} /\ Listening(q, m) = {}
  BY DEF NoMethodGoesDeaf, Listening
<1> QED
  BY ExpectingAreAlive DEF Init, Listening

LEMMA StepHearing == Inv /\ Created /\ NoMethodGoesDeaf /\ [Next]_vars => NoMethodGoesDeaf'
<1> SUFFICES ASSUME Inv, Created, NoMethodGoesDeaf, [Next]_vars PROVE NoMethodGoesDeaf'
  OBVIOUS
<1>1. ASSUME NEW t \in Threads, HandlerStep(t) PROVE NoMethodGoesDeaf'
  <2>1. CASE Abort(t)
    BY <2>1 DEF Abort, NoMethodGoesDeaf
  <2> QED
    BY <1>1, <2>1, QuietKeepsHearing, ListenKeepsHearing, AddNextKeepsHearing DEF HandlerStep
<1>2. ASSUME NEW d \in Datas, Match(d) \/ Sent(d) \/ Reject(d) PROVE NoMethodGoesDeaf'
  BY <1>2, GrpcKeepsHearing
<1>3. CASE ShutDown \/ ShutDownStep \/ SpuriousWakeup
  <2>1. UNCHANGED <<dataVars, grpcVars, threadVars>> /\ (mpc' = "run" => mpc = "run")
    BY <1>3 DEF ShutDown, ShutDownStep, ServerDown, WaitTest, WaitBlock, WaitWake, CloseQueue,
       JoinAll, SpuriousWakeup, Main, others
  <2> QED
    BY <2>1 DEF NoMethodGoesDeaf, Expecting, dataVars, grpcVars, threadVars
<1>4. CASE UNCHANGED vars
  BY <1>4 DEF NoMethodGoesDeaf, Expecting, vars, dataVars, grpcVars, threadVars, mainVars
<1> QED
  BY <1>1, <1>2, <1>3, <1>4 DEF Next

\* Until the shutdown each method has, on each queue, as many objects that wait
\* for a request as threads that have begun to listen for it.
THEOREM EveryMethodListens == Spec => []NoMethodGoesDeaf
BY InvHolds, CreatedHolds, InitHearing, StepHearing, PTL DEF Spec

-----------------------------------------------------------------------------
(* The counter of the handlers at work.                                     *)

Counting(t) ==
    pc[t] \in {"proceed", "handle", "finish", "uncount"} \/ (pc[t] = "insert" /\ tag[t] # None)

Counted ==
    /\ m_activeTaskCount \in 0..Cardinality(Threads)
    /\ mpc # "aborted" => m_activeTaskCount = Cardinality({t \in Threads : Counting(t)})

LEMMA CountingIsBounded ==
    /\ IsFiniteSet({t \in Threads : Counting(t)})
    /\ Cardinality({t \in Threads : Counting(t)}) \in 0..Cardinality(Threads)
<1> DEFINE S == {t \in Threads : Counting(t)}
<1>1. IsFiniteSet(S) /\ Cardinality(S) <= Cardinality(Threads)
  BY FS_Subset, ServerAssumption
<1>2. Cardinality(S) \in Nat /\ Cardinality(Threads) \in Nat
  BY <1>1, FS_CardinalityType, ServerAssumption
<1> QED
  BY <1>1, <1>2

LEMMA StepCounted == Inv /\ Counted /\ [Next]_vars => Counted'
<1> SUFFICES ASSUME Inv, Counted, [Next]_vars PROVE Counted'
  OBVIOUS
<1> DEFINE S == {t \in Threads : Counting(t)}
<1> USE DEF Goto, dataVars, grpcVars, threadVars, mainVars
<1>0. IsFiniteSet(S) /\ Cardinality(S) \in Nat /\ Cardinality(S)' \in 0..Cardinality(Threads)
  <2>1. IsFiniteSet(S') /\ Cardinality(S') <= Cardinality(Threads)
    BY FS_Subset, ServerAssumption
  <2>2. Cardinality(S') \in Nat /\ Cardinality(Threads) \in Nat
    BY <2>1, FS_CardinalityType, ServerAssumption
  <2>3. Cardinality(S') \in 0..Cardinality(Threads)
    BY <2>1, <2>2
  <2> QED
    BY <2>3, CountingIsBounded
<1>1. ASSUME UNCHANGED m_activeTaskCount, S' = S, mpc' # "aborted" => mpc # "aborted" PROVE Counted'
  BY <1>1 DEF Counted
<1>2. ASSUME NEW t \in Threads, HandlerStep(t) PROVE Counted'
  <2>1. CASE Count(t)
    <3>1. S' = S \cup {t} /\ t \notin S
      BY <2>1 DEF Count, Counting, Inv, Types, ThreadTypes
    <3>2. Cardinality(S \cup {t}) = Cardinality(S) + 1
      BY <1>0, <3>1, FS_AddElement
    <3>3. mpc' = mpc /\ mpc # "aborted" /\ m_activeTaskCount' = m_activeTaskCount + 1
      BY <2>1 DEF Count, Inv, Closing
    <3> QED
      BY <1>0, <3>1, <3>2, <3>3 DEF Counted
  <2>2. CASE Uncount(t)
    <3>1. S' = S \ {t} /\ t \in S
      BY <2>2 DEF Uncount, Counting, Inv, Types, ThreadTypes
    <3>2. Cardinality(S \ {t}) = Cardinality(S) - 1
      BY <1>0, <3>1, FS_RemoveElement
    <3>3. mpc' = mpc /\ mpc # "aborted" /\ m_activeTaskCount' = m_activeTaskCount - 1
      BY <2>2 DEF Uncount, Inv, Closing
    <3> QED
      BY <1>0, <3>1, <3>2, <3>3 DEF Counted
  <2>3. CASE Abort(t)
    BY <2>3 DEF Abort, Counted
  <2>4. ASSUME NEW m \in Methods, Listen(t, m) PROVE Counted'
    BY <1>1, <2>4 DEF Listen, Construct, Counting, Inv, Types, ThreadTypes, Working, WorkingAt
  <2>5. CASE AddNext(t)
    BY <1>1, <2>5 DEF AddNext, Construct, Counting, Inv, Types, ThreadTypes, Working, WorkingAt
  <2>6. CASE Insert(t)
    BY <1>1, <2>6 DEF Insert, Counting, Inv, Types, ThreadTypes
  <2>7. CASE Next_(t) \/ NextFailed(t) \/ NextEnds(t) \/ Notify(t)
    BY <1>1, <2>7 DEF Next_, NextFailed, NextEnds, Notify, Counting, Inv, Types, ThreadTypes
  <2>8. CASE Handle(t) \/ Finish(t) \/ CleanUp(t)
    BY <1>1, <2>8 DEF Handle, Finish, CleanUp, Counting, Inv, Types, ThreadTypes
  <2> QED
    BY <1>2, <2>1, <2>2, <2>3, <2>4, <2>5, <2>6, <2>7, <2>8 DEF HandlerStep
<1>3. ASSUME NEW d \in Datas, Match(d) \/ Sent(d) \/ Reject(d) PROVE Counted'
  BY <1>1, <1>3 DEF Match, Sent, Reject, Counting
<1>4. CASE ShutDown \/ ShutDownStep \/ SpuriousWakeup
  <2>1. UNCHANGED <<threadVars, m_activeTaskCount>> /\ (mpc = "aborted" => mpc' = "aborted")
    BY <1>4 DEF ShutDown, ShutDownStep, ServerDown, WaitTest, WaitBlock, WaitWake, CloseQueue,
       JoinAll, SpuriousWakeup, Main, others
  <2> QED
    BY <1>1, <2>1 DEF Counting
<1>5. CASE UNCHANGED vars
  BY <1>1, <1>5 DEF Counting, vars
<1> QED
  BY <1>2, <1>3, <1>4, <1>5 DEF Next

LEMMA InitCounted == Init => Counted
<1> SUFFICES ASSUME Init PROVE Counted
  OBVIOUS
<1>1. {t \in Threads : Counting(t)} = {}
  BY DEF Init, Counting
<1>2. Cardinality({t \in Threads : Counting(t)}) = 0 /\ Cardinality(Threads) \in Nat
  BY <1>1, FS_EmptySet, FS_CardinalityType, ServerAssumption, Zenon
<1> QED
  BY <1>2 DEF Init, Counted

\* The counter of the handlers at work is theirs to the last, and no object is
\* created beyond those the threads begin with and one for each call.
THEOREM TypesAreKept == Spec => []TypeOK
<1>1. Inv /\ Created /\ Counted => TypeOK
  <2> SUFFICES ASSUME Inv, Created, Counted PROVE TypeOK
    OBVIOUS
  <2>1. created \in 0..Cardinality(Datas) /\ 1..created \subseteq Datas
    BY AliveAreDatas, DatasAreFinite DEF Inv, Types, DataTypes, Created
  <2>2. fresh \in [Threads -> Datas \cup {None}]
    BY <2>1 DEF Inv, Types, ThreadTypes, Owners
  <2>3. waiting \in BOOLEAN
    BY Zenon DEF Inv, Types, MainTypes
  <2> QED
    BY <2>1, <2>2, <2>3 DEF TypeOK, Inv, Types, DataTypes, GrpcTypes, ThreadTypes, MainTypes, Counted
<1> QED
  BY <1>1, InvHolds, CreatedHolds, InitInv, StepInv, InitCounted, StepCounted, PTL DEF Spec

=============================================================================
