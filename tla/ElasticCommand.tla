--------------------------- MODULE ElasticCommand ---------------------------
(***************************************************************************)
(* ElasticCommand::execute() (fingerprint/src/storage/elastic) for a       *)
(* collection of queries with a header, a bulk or a msearch: what is left  *)
(* over when the collection is cut into batches goes first, and is waited  *)
(* for; then each batch is a task of the AsyncManager that holds the       *)
(* command by `this'.  The futures wait for their tasks when execute()     *)
(* leaves, but nobody reads them: a batch that fails is logged as FATAL,   *)
(* which throws, and the packaged_task keeps the exception.                *)
(*                                                                         *)
(* A query is its index in the collection, a request the set of its        *)
(* queries.  A query without a header is one round trip (Engine).          *)
(***************************************************************************)
EXTENDS Integers, Sequences, FiniteSets

CONSTANTS MaxQueries,  \* bound of the model: the size of a collection
          BatchSize    \* ELASTIC_BATCH_SIZE or ELASTIC_MULTI_BATCH_SIZE

ASSUME CommandAssumption == MaxQueries \in Nat /\ BatchSize \in Nat \ {0}

VARIABLES count,    \* queries.size()
          pc,       \* where execute() is; "true" and "false" are its results
          next,     \* the loop variable i
          sent,     \* the requests made, synchronous or not
          pending,  \* those whose task has not ended
          m_bufVec  \* the requests whose hits have been appended, in that order

command == <<count, pc, next, sent, pending, m_bufVec>>

Queries == 0 .. count - 1
Results == {"true", "false"}

CommandInit ==
    /\ count \in 0 .. MaxQueries
    /\ pc = "call"
    /\ next = 0
    /\ sent = {} /\ pending = {}
    /\ m_bufVec = <<>>

\* Mutant: a remainder that starts one query late.
LateRemainder == (count \div BatchSize) * BatchSize + 1 .. count - 1

Remainder == (count \div BatchSize) * BatchSize .. count - 1

HasRemainder == count % BatchSize # 0 \/ count < BatchSize

\* Mutant: a batch that ends one query late.
LongBatch(i) == i .. i + BatchSize

Batch(i) == i .. i + BatchSize - 1

\* An empty collection is executed.
CallEmpty ==
    /\ pc = "call" /\ count = 0
    /\ pc' = "true"
    /\ UNCHANGED <<count, next, sent, pending, m_bufVec>>

\* A collection of one query is sent without its header and its last newline,
\* which Elasticsearch turns down for a bulk and for a msearch.
CallSingle ==
    /\ pc = "call" /\ count = 1
    /\ sent' = {Queries}
    /\ pc' = "false"
    /\ UNCHANGED <<count, next, pending, m_bufVec>>

Call ==
    /\ pc = "call" /\ count > 1
    /\ pc' = IF HasRemainder THEN "remainder" ELSE "batches"
    /\ UNCHANGED <<count, next, sent, pending, m_bufVec>>

\* doExecute() of the remainder, which is all if there is no whole batch.
RemainderSucceeds ==
    /\ pc = "remainder"
    /\ sent' = sent \cup {Remainder}
    /\ m_bufVec' = Append(m_bufVec, Remainder)
    /\ pc' = IF count < BatchSize THEN "true" ELSE "batches"
    /\ UNCHANGED <<count, next, pending>>

RemainderFails ==
    /\ pc = "remainder"
    /\ sent' = sent \cup {Remainder}
    /\ pc' = "false"
    /\ UNCHANGED <<count, next, pending, m_bufVec>>

SubmitBatch ==
    /\ pc = "batches" /\ next <= count - BatchSize
    /\ sent' = sent \cup {Batch(next)}
    /\ pending' = pending \cup {Batch(next)}
    /\ next' = next + BatchSize
    /\ UNCHANGED <<count, pc, m_bufVec>>

EndLoop ==
    /\ pc = "batches" /\ next > count - BatchSize
    /\ pc' = "join"
    /\ UNCHANGED <<count, next, sent, pending, m_bufVec>>

\* The tasks: doExecute() appends the hits under m_mtx, or fails.
BatchSucceeds(r) ==
    /\ r \in pending
    /\ pending' = pending \ {r}
    /\ m_bufVec' = Append(m_bufVec, r)
    /\ UNCHANGED <<count, pc, next, sent>>

BatchFails(r) ==
    /\ r \in pending
    /\ pending' = pending \ {r}
    /\ UNCHANGED <<count, pc, next, sent, m_bufVec>>

\* Mutant: futures that do not wait.
ReturnEarly ==
    /\ pc = "join"
    /\ pc' = "true"
    /\ UNCHANGED <<count, next, sent, pending, m_bufVec>>

\* The destructors of the futures.
Return ==
    /\ pc = "join" /\ pending = {}
    /\ pc' = "true"
    /\ UNCHANGED <<count, next, sent, pending, m_bufVec>>

Execute ==
    \/ CallEmpty \/ CallSingle \/ Call
    \/ RemainderSucceeds \/ RemainderFails
    \/ SubmitBatch \/ EndLoop \/ Return

Task == \E r \in pending : BatchSucceeds(r) \/ BatchFails(r)

CommandNext == Execute \/ Task

CommandSpec == CommandInit /\ [][CommandNext]_command

-----------------------------------------------------------------------------
CommandTypeOK ==
    /\ count \in 0 .. MaxQueries
    /\ pc \in {"call", "remainder", "batches", "join"} \cup Results
    /\ next \in Nat
    /\ sent \subseteq SUBSET Queries
    /\ pending \subseteq sent
    /\ m_bufVec \in Seq(sent)

\* A collection that has been executed was sent whole, and no query of it twice
\* (a second copy of a document, or of a hit, would count twice in a histogram).
\* It is about the arithmetic of the remainder and of the loop.
EachQueryOnce ==
    pc = "true" =>
        /\ UNION sent = Queries
        /\ \A r1, r2 \in sent : r1 = r2 \/ r1 \cap r2 = {}

\* No task appends to a command that has returned: its owner reads m_bufVec
\* without the mutex, and destroys it.
NoTaskOutlives == pc \in Results => pending = {}
=============================================================================
