------------------------------- MODULE Search -------------------------------
(***************************************************************************)
(* A search of the engine (findSongIdByFingerprint): the hashes of the     *)
(* snippet go to the cache in groups, a query each, which one command      *)
(* executes (ElasticCommand); its hits make a histogram, and if that names *)
(* no song, the primary storage is asked.                                  *)
(*                                                                         *)
(* The stores do not change during a search (Engine has the races with     *)
(* loads and purges).  Elasticsearch has indexed each row of a cached song *)
(* once, and has windows larger than its hits.                             *)
(***************************************************************************)
EXTENDS ElasticCommand, Histogram

CONSTANTS Catalogs,   \* contents of the primary storage: sets of [hash, song, delta]
          Songs,      \* song ids
          MaxHashes,  \* bound of the model: hashes of a snippet
          GroupSize   \* ELASTIC_BATCH_SIZE: hashes in a query

\* The unique index is on (hash, song_id).
ASSUME SearchAssumption ==
    /\ Songs \subseteq Nat
    /\ MaxHashes \in Nat /\ GroupSize \in Nat \ {0}
    /\ \A rows \in Catalogs : /\ rows \subseteq [hash : Nat, song : Songs, delta : Int]
                              /\ IsFiniteSet(rows)
                              /\ \A r1, r2 \in rows :
                                    r1.hash = r2.hash /\ r1.song = r2.song => r1 = r2

VARIABLES size,     \* hashes of the snippet, which are 0 .. size - 1
          primary,  \* the rows of the primary storage
          cached,   \* the songs of the cache
          stage,    \* which store is asked
          answer

search == <<size, primary, cached, stage, answer>>
vars == <<command, search>>

Hashes == 0 .. size - 1

\* Mutant: a query has the hashes that follow it.
NextGroup(q) == {i \in Hashes : q * GroupSize < i /\ i <= (q + 1) * GroupSize}

\* A query is formed when the index of a hash is a multiple of GroupSize, or the
\* last: the first query has one hash only.
Group(q) == {i \in Hashes : (q - 1) * GroupSize < i /\ i <= q * GroupSize}

NumberOfQueries == Cardinality({i \in Hashes : i % GroupSize = 0 \/ i = size - 1})

Failed == [status |-> "Failed"]
Searching == [status |-> "Searching"]

Matches(songs, hashes) == {r \in primary : r.song \in songs /\ r.hash \in hashes}

Hit(row, k) == [hash |-> row.hash, song |-> row.song, delta |-> row.delta, copy |-> k]

\* The hits of the k-th request that has been appended to m_bufVec.
HitsOf(k) ==
    LET hashes == UNION {Group(q) : q \in m_bufVec[k]}
    IN  {Hit(r, k) : r \in Matches(cached, hashes)}

CacheHits == UNION {HitsOf(k) : k \in DOMAIN m_bufVec}

PrimaryHits == {Hit(r, 0) : r \in Matches(Songs, Hashes)}

Init ==
    /\ size \in 0 .. MaxHashes
    /\ primary \in {{r \in rows : r.hash < size} : rows \in Catalogs}
    /\ cached \in SUBSET Songs
    /\ CommandInit /\ count = NumberOfQueries
    /\ stage = "cache"
    /\ answer = Searching

CommandStep == CommandNext /\ UNCHANGED search

\* fetchFingerprintsFromCache() fails, and so does the search: the primary
\* storage is not asked.
CacheFails ==
    /\ stage = "cache" /\ pc = "false"
    /\ stage' = "done"
    /\ answer' = Failed
    /\ UNCHANGED <<command, size, primary, cached>>

CacheAnswers ==
    /\ stage = "cache" /\ pc = "true"
    /\ LET found == findDominantPeak(CacheHits) IN
        /\ stage' = IF found = Uncertain THEN "primary" ELSE "done"
        /\ answer' = IF found = Uncertain THEN Searching ELSE found
    /\ UNCHANGED <<command, size, primary, cached>>

PrimaryFails ==
    /\ stage = "primary"
    /\ stage' = "done"
    /\ answer' = Failed
    /\ UNCHANGED <<command, size, primary, cached>>

\* A song that is found here is cached by a task (Engine).
PrimaryAnswers ==
    /\ stage = "primary"
    /\ stage' = "done"
    /\ answer' = findDominantPeak(PrimaryHits)
    /\ UNCHANGED <<command, size, primary, cached>>

SearchStep == CacheFails \/ CacheAnswers \/ PrimaryFails \/ PrimaryAnswers

Next == CommandStep \/ SearchStep

Spec == Init /\ [][Next]_vars

-----------------------------------------------------------------------------
TypeOK ==
    /\ CommandTypeOK
    /\ size \in 0 .. MaxHashes
    /\ cached \subseteq Songs
    /\ stage \in {"cache", "primary", "done"}
    /\ answer \in {Searching, Failed, Uncertain}
               \cup [status : {"OK"}, song : Songs, timestamp : Int]

\* A search that went through has asked the cache for each hash of the snippet
\* exactly once: the groups, the remainder and the batches leave none out and
\* repeat none.
EachHashOnce ==
    pc = "true" =>
        /\ UNION {UNION {Group(q) : q \in r} : r \in sent} = Hashes
        /\ \A r1, r2 \in sent : \A q1 \in r1, q2 \in r2 :
                Group(q1) \cap Group(q2) # {} => r1 = r2 /\ q1 = q2

Rows(g) == Cardinality({r \in primary : r.song = g.song /\ r.delta = g.delta})

\* Whatever is lost of the answers of the cache, and in whatever order they
\* come, a song that is named has more rows than MinDistance and one (noise is
\* one at least) at one delta of the snippet, and the time that is returned is
\* that of a row of it.
AnswerIsAligned ==
    answer.status = "OK" =>
        \E r \in primary :
            /\ r.song = answer.song
            /\ r.hash + r.delta = answer.timestamp
            /\ Rows(r) > MinDistance + 1

\* Song and delta of a row r stand out by MinDistance from those of all others.
IsDominant(r) ==
    /\ Rows(r) > MinDistance + 1
    /\ \A x \in primary : x.song # r.song => Rows(r) - Rows(x) > MinDistance

\* A song that stands out is found when nothing has failed, unless the cache
\* lacks it and has a song that is good enough: the cache answers first.
DominantSongIsFound ==
    stage = "done" /\ answer # Failed /\ UNION {m_bufVec[k] : k \in DOMAIN m_bufVec} = Queries =>
        \A r \in primary :
            IsDominant(r) =>
                \/ answer.status = "OK" /\ answer.song = r.song
                \/ /\ r.song \notin cached
                   /\ \E x \in primary : x.song \in cached /\ Rows(x) > MinDistance + 1
=============================================================================
