--------------------------- MODULE Library_proofs ---------------------------
(***************************************************************************)
(* Proofs about Library: what create_record() and update_record() make of  *)
(* a record, whatever requests run beside them between their reads, their  *)
(* lookups and their writes.                                               *)
(***************************************************************************)
EXTENDS Library, TLAPS

Creating == {"collect", "insert"}
Updating == {"look", "write"}

\* What an update has read.
Reading == [albums : SUBSET Collections, artists : SUBSET Artists, single : Collections \cup {Null}]

TableTypes ==
    /\ artists \subseteq Artists
    /\ kind \in [Collections -> {"none", "album", "single", "neither", "gone"}]
    /\ status \in [Records -> {"none", "here", "gone"}]
    /\ albums \in [Records -> SUBSET Collections]
    /\ credits \in [Records -> SUBSET Artists]
    /\ promoted \subseteq Collections
    /\ raced \subseteq Records
    /\ lost \subseteq Records

CallTypes ==
    /\ pc \in [Calls -> {"idle"} \cup Creating \cup Updating]
    /\ request \in [Calls -> {NoCall} \cup [of : Records, is : Requests]]
    /\ record \in [Calls -> {Nothing} \cup Reading]
    /\ plan \in [Calls -> [albums : SUBSET Collections, artists : SUBSET Artists]]

\* The collections of a set have been created, whatever became of them.
Known(some) == \A a \in some : kind[a] # "none"

\* At most one of them is a single without having been made one by an update.
OneBorn(some) ==
    \A a, b \in some : IsSingle(a) /\ IsSingle(b) /\ a \notin promoted /\ b \notin promoted => a = b

\* What excuses an update: the record is gone, or was written on by a call
\* that had read it before, or an album it was on was made a single.
Excused(c) ==
    \/ status[request[c].of] # "here"
    \/ request[c].of \in raced
    \/ record[c].albums \cap promoted # {}

\* A call that creates a record is the only one there is for it.
Creators ==
    \A c, d \in Calls : pc[c] \in Creating /\ pc[d] # "idle" /\ request[d].of = request[c].of => c = d

\* What a call knows of the tables, by where it stands.
Asks(c) ==
    /\ pc[c] # "idle" => request[c] \in [of : Records, is : Requests]
    /\ pc[c] \in Creating =>
          /\ status[request[c].of] = "none"
          /\ Absent \notin {request[c].is.artists, request[c].is.albums, request[c].is.single}
    /\ pc[c] \in Updating => status[request[c].of] # "none" /\ record[c] \in Reading

Plans(c) ==
    /\ Known(plan[c].albums) /\ OneBorn(plan[c].albums)
    /\ Known(record[c].albums)
    /\ pc[c] = "insert" /\ request[c].is.albums # {} => plan[c].albums # {}

\* Before the lookups: a single that the request does not name is the one of
\* the record.
Looks(c) ==
    pc[c] = "look" =>
        /\ request[c].is.single # Absent => record[c].single = request[c].is.single
        /\ request[c].is.single = Absent =>
              Excused(c) \/ \A a \in record[c].albums : IsSingle(a) => a = record[c].single

\* Before the write: what the request does not name is kept, and nothing is
\* left only because the request leaves nothing.
Writes(c) ==
    pc[c] = "write" =>
        /\ request[c].is.single = Absent /\ request[c].is.albums = Absent =>
              Excused(c) \/ record[c].albums \subseteq plan[c].albums
        /\ plan[c].albums = {} =>
              \/ WantsNone(request[c].is)
              \/ request[c].is.single = Absent /\ request[c].is.albums = Absent

CallAt(c) == Asks(c) /\ Plans(c) /\ Looks(c) /\ Writes(c)

RecordAt(r) ==
    /\ albums[r] \subseteq Stored /\ credits[r] \subseteq artists
    /\ r \in raced \/ OneBorn(albums[r])
    /\ status[r] = "here" /\ albums[r] = {} => r \in lost \cup raced

Inv ==
    /\ TableTypes
    /\ CallTypes
    /\ Creators
    /\ \A c \in Calls : CallAt(c)
    /\ \A r \in Records : RecordAt(r)

-----------------------------------------------------------------------------
(* What steps do to the tables. *)

\* A collection that has been created stays so, and becomes a single only by
\* being made one.
KindsMove ==
    /\ promoted \subseteq promoted'
    /\ \A a \in Collections :
          kind[a] # "none" => /\ kind'[a] # "none"
                              /\ kind'[a] = "single" => kind[a] = "single" \/ a \in promoted'

\* A record that is gone does not come back, and what happened to a record is
\* forgotten with it.
StatusMoves ==
    \A r \in Records :
        /\ status[r] = "gone" => status'[r] = "gone"
        /\ status[r] = "here" => status'[r] # "none"
        /\ r \in raced => r \in raced' \/ status'[r] = "gone"

Unmoved(c) ==
    /\ pc'[c] = pc[c] /\ request'[c] = request[c]
    /\ record'[c] = record[c] /\ plan'[c] = plan[c]

\* A set of collections that have been created stays one, and gets no second
\* single that was not made one.
LEMMA KnownStays ==
    ASSUME NEW some \in SUBSET Collections, KindsMove, Known(some)
    PROVE  Known(some)'
  BY DEF KindsMove, Known

LEMMA OneBornStays ==
    ASSUME NEW some \in SUBSET Collections, KindsMove, Known(some), OneBorn(some)
    PROVE  OneBorn(some)'
  BY DEF KindsMove, Known, OneBorn, IsSingle

\* A smaller set has no more singles than the larger one.
LEMMA OneBornOfPart ==
    ASSUME NEW all, NEW part \in SUBSET all, OneBorn(all)
    PROVE  OneBorn(part)
  BY DEF OneBorn

LEMMA InitHolds == Init => Inv
<1> SUFFICES ASSUME Init PROVE Inv
  OBVIOUS
<1> USE DEF Init, Nothing
<1>1. TableTypes
  BY DEF TableTypes
<1>2. CallTypes
  BY DEF CallTypes
<1>3. Creators
  BY DEF Creators, Creating
<1>4. ASSUME NEW c \in Calls PROVE CallAt(c)
  BY DEF CallAt, Asks, Plans, Looks, Writes, Creating, Updating, Known, OneBorn
<1>5. ASSUME NEW r \in Records PROVE RecordAt(r)
  BY DEF RecordAt, OneBorn
<1> QED
  BY <1>1, <1>2, <1>3, <1>4, <1>5 DEF Inv

\* What a call knows stays true while others move.
LEMMA OthersMove ==
    ASSUME Inv, KindsMove, StatusMoves, NEW c \in Calls, Unmoved(c),
           pc[c] \in Creating => status'[request[c].of] = "none"
    PROVE  CallAt(c)'
<1> USE DEF Unmoved
<1>1. CallAt(c)
  BY DEF Inv
<1>2. plan[c].albums \in SUBSET Collections /\ record[c].albums \in SUBSET Collections
  BY DEF Inv, CallTypes, Reading, Nothing
<1>3. Asks(c)'
  BY <1>1 DEF CallAt, Asks, StatusMoves, Creating, Updating, Inv, TableTypes
<1>4. Plans(c)'
  <2> PICK some \in SUBSET Collections : some = plan[c].albums
    BY <1>2
  <2> PICK seen \in SUBSET Collections : seen = record[c].albums
    BY <1>2
  <2>1. Known(some)' /\ OneBorn(some)'
    BY <1>1, KnownStays, OneBornStays DEF CallAt, Plans
  <2>2. Known(seen)'
    BY <1>1, KnownStays DEF CallAt, Plans
  <2>3. some = plan'[c].albums /\ seen = record'[c].albums
    OBVIOUS
  <2> QED
    BY <1>1, <2>1, <2>2, <2>3 DEF CallAt, Plans, Known, OneBorn
<1>5. pc[c] \in Updating /\ Excused(c) => Excused(c)'
  BY <1>1, <1>2 DEF CallAt, Asks, Excused, StatusMoves, KindsMove, Updating, Inv, TableTypes
<1>6. Looks(c)'
  <2> SUFFICES ASSUME pc[c] = "look" PROVE Looks(c)'
    BY DEF Looks
  <2> SUFFICES ASSUME request[c].is.single = Absent, ~Excused(c)'
               PROVE  \A a \in record[c].albums : IsSingle(a)' => a = record[c].single
    BY <1>1 DEF CallAt, Looks
  <2>1. \A a \in record[c].albums : IsSingle(a) => a = record[c].single
    BY <1>1, <1>5 DEF CallAt, Looks, Updating
  <2>2. \A a \in record[c].albums : a \notin promoted'
    BY DEF Excused
  <2>3. Known(record[c].albums)
    BY <1>1 DEF CallAt, Plans
  <2> QED
    BY <1>2, <2>1, <2>2, <2>3 DEF IsSingle, KindsMove, Known
<1>7. Writes(c)'
  BY <1>1, <1>5 DEF CallAt, Writes, Updating
<1> QED
  BY <1>3, <1>4, <1>6, <1>7 DEF CallAt

-----------------------------------------------------------------------------
(* Collections, artists, records: one statement each, no call moves. *)

\* A statement keeps the invariant if it keeps what is said of the tables.
LEMMA StatementStep ==
    ASSUME Inv, UNCHANGED process, TableTypes', KindsMove, StatusMoves,
           \A r \in Records : status[r] = "none" => status'[r] = "none",
           \A r \in Records : RecordAt(r)'
    PROVE  Inv'
<1>1. CallTypes' /\ Creators'
  BY DEF process, Inv, CallTypes, Creators
<1>2. ASSUME NEW c \in Calls PROVE CallAt(c)'
  <2>1. Unmoved(c)
    BY DEF process, Unmoved
  <2>2. pc[c] \in Creating => request[c].of \in Records /\ status[request[c].of] = "none"
    BY DEF Inv, CallAt, Asks, Creating
  <2> QED
    BY <2>1, <2>2, OthersMove
<1> QED
  BY <1>1, <1>2 DEF Inv

LEMMA CreateCollectionStep ==
    ASSUME Inv, NEW a \in Collections, CreateCollection(a)
    PROVE  Inv'
<1> USE DEF CreateCollection
<1>1. TableTypes'
  BY DEF Inv, TableTypes, history
<1>2. KindsMove /\ StatusMoves
  BY DEF KindsMove, StatusMoves, Inv, TableTypes, history
<1>3. ASSUME NEW r \in Records PROVE RecordAt(r)'
  <2>1. RecordAt(r) /\ albums[r] \subseteq Collections
    BY DEF Inv, TableTypes
  <2>2. Stored \subseteq Stored' /\ a \notin albums[r]
    BY <2>1 DEF RecordAt, Stored, Inv, TableTypes
  <2>3. OneBorn(albums[r]) => OneBorn(albums[r])'
    BY <2>1, <2>2 DEF OneBorn, IsSingle, Inv, TableTypes, history
  <2> QED
    BY <2>1, <2>2, <2>3 DEF RecordAt, history
<1> QED
  BY <1>1, <1>2, <1>3, StatementStep

LEMMA UpdateAlbumStep ==
    ASSUME Inv, NEW a \in Collections, UpdateAlbum(a)
    PROVE  Inv'
<1> USE DEF UpdateAlbum, IsAlbum
<1>1. TableTypes'
  BY DEF Inv, TableTypes
<1>2. KindsMove /\ StatusMoves
  BY DEF KindsMove, StatusMoves, Inv, TableTypes
<1>3. ASSUME NEW r \in Records PROVE RecordAt(r)'
  <2>1. RecordAt(r) /\ albums[r] \subseteq Collections
    BY DEF Inv, TableTypes
  <2>2. Stored = Stored'
    BY DEF Stored, Inv, TableTypes
  <2>3. Known(albums[r])
    BY <2>1 DEF RecordAt, Stored, Known
  <2>4. OneBorn(albums[r]) => OneBorn(albums[r])'
    BY <1>2, <2>1, <2>3 DEF OneBorn, IsSingle, KindsMove, Known
  <2> QED
    BY <2>1, <2>2, <2>4 DEF RecordAt
<1> QED
  BY <1>1, <1>2, <1>3, StatementStep

\* When collections go, the records that were on them are lost, and the
\* others keep theirs.
LEMMA CascadeStep ==
    ASSUME Inv, NEW gone \in SUBSET Stored, Cascade(gone), UNCHANGED <<status, process, promoted, raced>>,
           artists' \subseteq artists, credits' \in [Records -> SUBSET Artists],
           \A r \in Records : credits'[r] \subseteq artists'
    PROVE  Inv'
<1> USE DEF Cascade
<1>1. TableTypes'
  BY DEF Inv, TableTypes
<1>2. KindsMove /\ StatusMoves
  BY DEF KindsMove, StatusMoves, Inv, TableTypes
<1>3. ASSUME NEW r \in Records PROVE RecordAt(r)'
  <2>1. RecordAt(r) /\ albums[r] \subseteq Collections /\ albums'[r] = albums[r] \ gone
    BY DEF Inv, TableTypes
  <2>2. Stored' = Stored \ gone
    BY DEF Stored, Inv, TableTypes
  <2>3. albums'[r] \subseteq Stored'
    BY <2>1, <2>2 DEF RecordAt
  <2>4. OneBorn(albums[r]) => OneBorn(albums[r])'
    BY <2>1 DEF OneBorn, IsSingle, Inv, TableTypes
  <2>5. status[r] = "here" /\ albums'[r] = {} => r \in lost' \cup raced
    BY <2>1 DEF RecordAt
  <2> QED
    BY <2>1, <2>3, <2>4, <2>5 DEF RecordAt
<1> QED
  BY <1>1, <1>2, <1>3, StatementStep

LEMMA DeleteStep ==
    ASSUME Inv, \/ \E a \in Collections : DeleteCollection(a)
                \/ \E x \in Artists : DeleteArtist(x)
    PROVE  Inv'
<1>1. credits \in [Records -> SUBSET Artists] /\ \A r \in Records : credits[r] \subseteq artists
  BY DEF Inv, TableTypes, RecordAt
<1>2. ASSUME NEW a \in Collections, DeleteCollection(a) PROVE Inv'
  <2>1. {a} \in SUBSET Stored
    BY <1>2 DEF DeleteCollection, IsAlbum, IsSingle, Stored
  <2> QED
    BY <1>1, <1>2, <2>1, CascadeStep DEF DeleteCollection
<1>3. ASSUME NEW x \in Artists, DeleteArtist(x) PROVE Inv'
  <2> DEFINE gone == {a \in Stored : Owner[a] = x}
  <2>1. credits' \in [Records -> SUBSET Artists] /\ \A r \in Records : credits'[r] \subseteq artists'
    BY <1>1, <1>3 DEF DeleteArtist
  <2>2. Cascade(gone) /\ artists' \subseteq artists /\ UNCHANGED <<status, process, promoted, raced>>
    BY <1>3 DEF DeleteArtist
  <2>3. gone \in SUBSET Stored
    OBVIOUS
  <2> HIDE DEF gone
  <2> QED
    BY <2>1, <2>2, <2>3, CascadeStep
<1> QED
  BY <1>2, <1>3

LEMMA DeleteRecordStep ==
    ASSUME Inv, NEW r \in Records, DeleteRecord(r)
    PROVE  Inv'
<1> USE DEF DeleteRecord
<1>1. TableTypes'
  BY DEF Inv, TableTypes
<1>2. KindsMove /\ StatusMoves /\ \A q \in Records : status[q] = "none" => status'[q] = "none"
  BY DEF KindsMove, StatusMoves, Inv, TableTypes
<1>3. ASSUME NEW q \in Records PROVE RecordAt(q)'
  <2>1. RecordAt(q) /\ albums'[q] \in SUBSET albums[q] /\ Stored' = Stored
    BY DEF Inv, TableTypes, Stored
  <2>2. OneBorn(albums[q]) => OneBorn(albums[q])'
    BY <2>1 DEF OneBorn, IsSingle
  <2>3. CASE q = r
    BY <2>1, <2>3 DEF RecordAt, OneBorn, Inv, TableTypes
  <2>4. CASE q # r
    BY <2>1, <2>2, <2>4 DEF RecordAt, Inv, TableTypes
  <2> QED
    BY <2>3, <2>4
<1> QED
  BY <1>1, <1>2, <1>3, StatementStep

-----------------------------------------------------------------------------
(* The steps of a call. *)

LEMMA CallMoves ==
    ASSUME Inv, NEW c \in Calls, \A d \in Calls : d # c => Unmoved(d),
           TableTypes', CallTypes', Creators', CallAt(c)', KindsMove, StatusMoves,
           \A r \in Records : status[r] = "none" =>
              status'[r] = "none" \/ (pc[c] \in Creating /\ request[c].of = r),
           \A r \in Records : RecordAt(r)'
    PROVE  Inv'
<1>1. ASSUME NEW d \in Calls, d # c PROVE CallAt(d)'
  <2>1. pc[d] \in Creating => /\ request[d].of \in Records /\ status[request[d].of] = "none"
                              /\ pc[d] # "idle"
    BY DEF Inv, CallAt, Asks, Creating
  <2>2. ~(pc[c] \in Creating /\ request[c].of = request[d].of /\ pc[d] # "idle")
    BY <1>1 DEF Inv, Creators
  <2>3. pc[d] \in Creating => status'[request[d].of] = "none"
    BY <2>1, <2>2
  <2> QED
    BY <1>1, <2>3, OthersMove
<1> QED
  BY <1>1 DEF Inv

LEMMA CallMovesAlone ==
    ASSUME Inv, NEW c \in Calls, \A d \in Calls : d # c => Unmoved(d),
           UNCHANGED <<tables, history>>, CallTypes', Creators', CallAt(c)'
    PROVE  Inv'
<1>1. TableTypes' /\ KindsMove /\ StatusMoves
  BY DEF Inv, TableTypes, KindsMove, StatusMoves, tables, history
<1>2. \A r \in Records : RecordAt(r)'
  BY DEF Inv, RecordAt, Stored, OneBorn, IsSingle, tables, history
<1>3. \A r \in Records : status[r] = "none" =>
         status'[r] = "none" \/ (pc[c] \in Creating /\ request[c].of = r)
  BY DEF tables
<1>4. TableTypes' /\ CallTypes' /\ Creators' /\ CallAt(c)'
  BY <1>1
<1> QED
  BY <1>1, <1>2, <1>3, <1>4, CallMoves, Zenon

\* A call that has ended knows nothing.
LEMMA EndStep ==
    ASSUME Inv, NEW c \in Calls, End(c)
    PROVE  CallTypes' /\ Creators' /\ CallAt(c)' /\ \A d \in Calls : d # c => Unmoved(d)
<1> USE DEF End, Goto
<1>1. CallTypes'
  BY DEF Inv, CallTypes, Nothing, Reading
<1>2. \A d \in Calls : d # c => Unmoved(d)
  BY DEF Unmoved, Inv, CallTypes
<1>3. pc'[c] = "idle" /\ plan'[c] = Nothing /\ record'[c] = Nothing
  BY DEF Inv, CallTypes
<1>4. Creators'
  BY <1>2, <1>3 DEF Inv, Creators, Unmoved, Creating
<1>5. CallAt(c)'
  BY <1>3 DEF CallAt, Asks, Plans, Looks, Writes, Known, OneBorn, Nothing, Creating, Updating
<1> QED
  BY <1>1, <1>2, <1>4, <1>5

LEMMA RefuseStep ==
    ASSUME Inv, NEW c \in Calls, Refuse(c)
    PROVE  Inv'
  BY EndStep, CallMovesAlone DEF Refuse

LEMMA CreateStep ==
    ASSUME Inv, NEW c \in Calls, NEW r \in Records, NEW n \in Requests, Create(c, r, n)
    PROVE  Inv'
<1> USE DEF Create, Begin, Goto
<1>1. CallTypes'
  BY DEF Inv, CallTypes, Creating
<1>2. \A d \in Calls : d # c => Unmoved(d)
  BY DEF Unmoved, Inv, CallTypes
<1>3. /\ pc'[c] = "collect" /\ request'[c] = [of |-> r, is |-> n]
      /\ plan'[c] = plan[c] /\ record'[c] = record[c]
  BY DEF Inv, CallTypes
<1>4. ASSUME NEW d \in Calls, d # c PROVE request[d].of # r
  OBVIOUS
<1>5. Creators'
  BY <1>2, <1>3, <1>4 DEF Inv, Creators, Unmoved, Creating
<1>6. Asks(c)' /\ Looks(c)' /\ Writes(c)'
  BY <1>3 DEF Asks, Looks, Writes, Creating, Updating, tables
<1>7. Plans(c)
  BY DEF Inv, CallAt
<1>8. Plans(c)'
  BY <1>3, <1>7 DEF Plans, Known, OneBorn, IsSingle, tables, history
<1> QED
  BY <1>1, <1>2, <1>5, <1>6, <1>8, CallMovesAlone DEF CallAt

LEMMA CreateCollectStep ==
    ASSUME Inv, NEW c \in Calls, CreateCollect(c)
    PROVE  Inv'
<1> USE DEF CreateCollect, Goto
<1> PICK n \in Requests : n = request[c].is
  BY DEF Inv, CallAt, Asks, Creating
<1> DEFINE some == {a \in n.albums : IsAlbum(a)} \cup {a \in {n.single} : IsSingle(a)}
<1>1. /\ n \in Named /\ n.albums # Absent /\ n.artists # Absent
      /\ request[c] \in [of : Records, is : Requests] /\ status[request[c].of] = "none"
      /\ Absent \notin {n.artists, n.albums, n.single}
  BY LibraryAssumption DEF Inv, CallAt, Asks, Creating, LibraryAssumption
<1>2. n.albums \subseteq Collections /\ n.artists \subseteq Artists
  BY <1>1 DEF Named
<1>3. some \in SUBSET Collections
  BY <1>2 DEF IsSingle
<1>4. /\ plan' = [plan EXCEPT ![c] = [albums |-> some, artists |-> n.artists]]
      /\ pc' = [pc EXCEPT ![c] = "insert"]
      /\ UNCHANGED <<tables, request, record, history>>
      /\ AlbumsFound(n.albums)
  OBVIOUS
<1>5. Known(some) /\ OneBorn(some)
  BY DEF Known, OneBorn, IsAlbum, IsSingle
<1>6. n.albums # {} => some # {}
  BY <1>4 DEF AlbumsFound
<1> HIDE DEF some, CreateCollect
<1>7. CallTypes'
  BY <1>2, <1>3, <1>4 DEF Inv, CallTypes, Creating
<1>8. \A d \in Calls : d # c => Unmoved(d)
  BY <1>4 DEF Unmoved, Inv, CallTypes
<1>9. pc'[c] = "insert" /\ plan'[c].albums = some
  BY <1>4 DEF Inv, CallTypes
<1>10. pc[c] = "collect"
  BY DEF CreateCollect
<1>11. Creators'
  BY <1>4, <1>8, <1>9, <1>10 DEF Inv, Creators, Unmoved, Creating
<1>12. Known(record[c].albums)
  BY DEF Inv, CallAt, Plans
<1>13. CallAt(c)'
  BY <1>1, <1>4, <1>5, <1>6, <1>9, <1>12
     DEF CallAt, Asks, Plans, Looks, Writes, Known, OneBorn, IsSingle, Creating, Updating, tables,
         history
<1> QED
  BY <1>4, <1>7, <1>8, <1>11, <1>13, CallMovesAlone

LEMMA CreateInsertStep ==
    ASSUME Inv, NEW c \in Calls, CreateInsert(c)
    PROVE  Inv'
<1> PICK r \in Records : r = request[c].of
  BY DEF CreateInsert, Inv, CallAt, Asks
<1> PICK some \in SUBSET Collections : some = plan[c].albums
  BY DEF Inv, CallTypes
<1> PICK persons \in SUBSET Artists : persons = plan[c].artists
  BY DEF Inv, CallTypes
<1>1. pc[c] = "insert" /\ status[r] = "none" /\ request[c].is.albums # Absent
  BY DEF CreateInsert, Inv, CallAt, Asks, Creating
<1>2. /\ some \subseteq Stored /\ persons \subseteq artists
      /\ status' = [status EXCEPT ![r] = "here"]
      /\ albums' = [albums EXCEPT ![r] = some]
      /\ credits' = [credits EXCEPT ![r] = persons]
      /\ lost' = IF request[c].is.albums = {} /\ some = {} THEN lost \cup {r} ELSE lost
      /\ UNCHANGED <<artists, kind, promoted, raced>>
  BY DEF CreateInsert, RowsAreThere
<1>3. CallTypes' /\ Creators' /\ CallAt(c)' /\ \A d \in Calls : d # c => Unmoved(d)
  BY EndStep DEF CreateInsert
<1>4. TableTypes'
  BY <1>2 DEF Inv, TableTypes
<1>5. KindsMove /\ StatusMoves
  BY <1>1, <1>2 DEF KindsMove, StatusMoves, Inv, TableTypes
<1>6. OneBorn(some) /\ (some = {} => request[c].is.albums = {})
  BY <1>1 DEF Inv, CallAt, Plans
<1>7. ASSUME NEW q \in Records PROVE RecordAt(q)'
  <2>1. RecordAt(q) /\ Stored' = Stored
    BY <1>2 DEF Inv, Stored
  <2>2. CASE q = r
    <3>1. albums'[q] = some /\ credits'[q] = persons
      BY <1>2, <2>2 DEF Inv, TableTypes
    <3>2. OneBorn(albums[q])'
      BY <1>2, <1>6, <3>1 DEF OneBorn, IsSingle
    <3>3. albums'[q] = {} => q \in lost'
      BY <1>2, <1>6, <2>2, <3>1
    <3> QED
      BY <1>2, <2>1, <3>1, <3>2, <3>3 DEF RecordAt
  <2>3. CASE q # r
    <3>1. /\ albums'[q] = albums[q] /\ credits'[q] = credits[q] /\ status'[q] = status[q]
          /\ (q \in lost' <=> q \in lost)
      BY <1>2, <2>3 DEF Inv, TableTypes
    <3> QED
      BY <1>2, <2>1, <3>1 DEF RecordAt, OneBorn, IsSingle
  <2> QED
    BY <2>2, <2>3
<1>8. \A q \in Records : status[q] = "none" =>
         status'[q] = "none" \/ (pc[c] \in Creating /\ request[c].of = q)
  BY <1>1, <1>2 DEF Inv, TableTypes, Creating
<1> QED
  BY <1>3, <1>4, <1>5, <1>7, <1>8, CallMoves

\* The single of the update is the one the request names, or one of the
\* record: the only one it has that was not made one, as long as no two
\* updates of the record have overlapped.
LEMMA UpdateStep ==
    ASSUME Inv, NEW c \in Calls, NEW r \in Records, NEW n \in Requests, Update(c, r, n)
    PROVE  Inv'
<1> PICK s \in Collections \cup {Null} :
        /\ record' = [record EXCEPT ![c] = [albums |-> albums[r], artists |-> credits[r], single |-> s]]
        /\ s \in IF n.single = Absent THEN TransferSingle(r) ELSE {n.single}
  BY LibraryAssumption DEF Update, LibraryAssumption, Named, TransferSingle, IsSingle
<1>1. /\ status[r] = "here" /\ pc[c] = "idle"
      /\ pc' = [pc EXCEPT ![c] = "look"]
      /\ request' = [request EXCEPT ![c] = [of |-> r, is |-> n]]
      /\ UNCHANGED <<tables, plan, history>>
  BY DEF Update, Begin, Goto
<1>2. /\ RecordAt(r) /\ albums[r] \in SUBSET Collections /\ credits[r] \in SUBSET Artists
  BY DEF Inv, TableTypes
<1>3. CallTypes'
  BY <1>1, <1>2 DEF Inv, CallTypes, Reading, Updating
<1>4. \A d \in Calls : d # c => Unmoved(d)
  BY <1>1 DEF Unmoved, Inv, CallTypes
<1>5. /\ pc'[c] = "look" /\ request'[c] = [of |-> r, is |-> n] /\ plan'[c] = plan[c]
      /\ record'[c] = [albums |-> albums[r], artists |-> credits[r], single |-> s]
  BY <1>1 DEF Inv, CallTypes
<1>6. Creators'
  <2>1. ASSUME NEW d \in Calls, pc[d] \in Creating PROVE request[d].of # r
    BY <1>1, <2>1 DEF Inv, CallAt, Asks
  <2> QED
    BY <1>4, <1>5, <2>1 DEF Inv, Creators, Unmoved, Creating
<1>7. Asks(c)' /\ Writes(c)'
  BY <1>1, <1>2, <1>5 DEF Asks, Writes, Creating, Updating, tables, Reading
<1>8. Plans(c)'
  <2>1. Plans(c) /\ Known(albums[r])
    BY <1>2 DEF Inv, CallAt, RecordAt, Known, Stored
  <2> QED
    BY <1>1, <1>5, <2>1 DEF Plans, Known, OneBorn, IsSingle, tables, history
<1>9. Looks(c)'
  <2>1. n.single # Absent => s = n.single
    OBVIOUS
  <2>2. ASSUME n.single = Absent, r \notin raced, albums[r] \cap promoted = {},
               NEW a \in albums[r], IsSingle(a)
        PROVE  a = s
    <3>1. s \in albums[r] /\ IsSingle(s)
      BY <2>2 DEF TransferSingle
    <3> QED
      BY <1>2, <2>2, <3>1 DEF RecordAt, OneBorn
  <2>3. n.single = Absent =>
           \/ r \in raced \/ albums[r] \cap promoted # {}
           \/ \A a \in albums[r] : IsSingle(a) => a = s
    BY <2>2
  <2>4. Excused(c)' <=> status[r] # "here" \/ r \in raced \/ albums[r] \cap promoted # {}
    BY <1>1, <1>5 DEF Excused, tables, history
  <2>5. \A a \in Collections : IsSingle(a)' <=> IsSingle(a)
    BY <1>1 DEF IsSingle, tables
  <2> QED
    BY <1>2, <1>5, <2>1, <2>3, <2>4, <2>5 DEF Looks
<1> QED
  BY <1>1, <1>3, <1>4, <1>6, <1>7, <1>8, <1>9, CallMovesAlone DEF CallAt

\* What the lookups of an update let through, and what it is going to write.
LEMMA LookedUp ==
    ASSUME Inv, NEW c \in Calls, UpdateLook(c)
    PROVE  LET n == request[c].is
               some == Kept(Or(n.albums, record[c].albums)) \cup ({record[c].single} \ {Null})
               persons == Or(n.artists, record[c].artists)
           IN  /\ some \in SUBSET Collections /\ persons \in SUBSET Artists
               /\ Known(some) /\ OneBorn(some)
               /\ n.single = Absent /\ n.albums = Absent =>
                     Excused(c) \/ record[c].albums \subseteq some
               /\ some = {} => WantsNone(n) \/ (n.single = Absent /\ n.albums = Absent)
<1> PICK n \in Requests : n = request[c].is
  BY DEF UpdateLook, Inv, CallAt, Asks, Updating
<1> PICK rec \in Reading : rec = record[c]
  BY DEF UpdateLook, Inv, CallAt, Asks, Updating
<1> DEFINE ids == Or(n.albums, rec.albums)
           some == Kept(ids) \cup ({rec.single} \ {Null})
           persons == Or(n.artists, rec.artists)
<1>1. /\ n.albums \in {Absent} \cup SUBSET Collections
      /\ n.artists \in {Absent} \cup SUBSET Artists
      /\ n.single \in {Absent, Null} \cup Collections
      /\ Absent \notin Collections /\ Null \notin Collections /\ Absent # Null
  BY LibraryAssumption DEF LibraryAssumption, Named
<1>2. /\ rec.albums \in SUBSET Collections /\ rec.artists \in SUBSET Artists
      /\ rec.single \in Collections \cup {Null}
  BY DEF Reading
<1>3. ids \in SUBSET Collections /\ persons \in SUBSET Artists
  BY <1>1, <1>2 DEF Or
<1>4. \A a \in ids : IsAlbum(a) \/ (n.albums = Absent /\ IsSingle(a))
  BY DEF UpdateLook, AlbumsValid
<1>5. rec.single # Null => IsSingle(rec.single)
  BY DEF UpdateLook, SingleValid
<1>6. /\ n.single # Absent => rec.single = n.single
      /\ n.single = Absent =>
            Excused(c) \/ \A a \in rec.albums : IsSingle(a) => a = rec.single
  BY DEF UpdateLook, Inv, CallAt, Looks
<1>7. some \in SUBSET Collections
  BY <1>2, <1>3 DEF Kept
<1>8. Known(some) /\ OneBorn(some)
  BY <1>5 DEF Known, OneBorn, Kept, IsAlbum, IsSingle
<1>9. ASSUME n.single = Absent, n.albums = Absent, ~Excused(c), NEW a \in rec.albums
      PROVE  a \in some
  <2>1. a \in ids
    BY <1>9 DEF Or
  <2>2. CASE IsAlbum(a)
    BY <2>1, <2>2 DEF Kept
  <2>3. CASE IsSingle(a)
    BY <1>1, <1>2, <1>6, <1>9, <2>3
  <2> QED
    BY <1>4, <2>1, <2>2, <2>3
<1>10. ASSUME some = {}, ~(n.single = Absent /\ n.albums = Absent)
       PROVE  WantsNone(n)
  <2>1. rec.single = Null /\ Kept(ids) = {}
    BY <1>10
  <2>2. n.single \in {Null, Absent}
    BY <1>6, <2>1
  <2>3. n.albums # Absent => n.albums = {}
    <3> SUFFICES ASSUME n.albums # Absent, NEW a \in n.albums PROVE FALSE
      BY <1>1
    <3>1. a \in ids
      BY DEF Or
    <3> QED
      BY <1>4, <2>1, <3>1 DEF Kept
  <2> QED
    BY <1>10, <2>2, <2>3 DEF WantsNone
<1> HIDE DEF ids
<1> QED
  BY <1>3, <1>7, <1>8, <1>9, <1>10 DEF ids

LEMMA UpdateLookStep ==
    ASSUME Inv, NEW c \in Calls, UpdateLook(c)
    PROVE  Inv'
<1> DEFINE n == request[c].is
           ids == Kept(Or(n.albums, record[c].albums)) \cup ({record[c].single} \ {Null})
           who == Or(n.artists, record[c].artists)
<1>1. /\ ids \in SUBSET Collections /\ who \in SUBSET Artists
      /\ Known(ids) /\ OneBorn(ids)
      /\ n.single = Absent /\ n.albums = Absent => Excused(c) \/ record[c].albums \subseteq ids
      /\ ids = {} => WantsNone(n) \/ (n.single = Absent /\ n.albums = Absent)
  BY LookedUp
<1>2. /\ pc[c] = "look"
      /\ plan' = [plan EXCEPT ![c] = [albums |-> ids, artists |-> who]]
      /\ pc' = [pc EXCEPT ![c] = "write"]
      /\ UNCHANGED <<tables, request, record, history>>
  BY DEF UpdateLook, Goto
<1> HIDE DEF ids, who
<1> PICK some \in SUBSET Collections : some = ids
  BY <1>1
<1> PICK persons \in SUBSET Artists : persons = who
  BY <1>1
<1>3. CallTypes'
  BY <1>2 DEF Inv, CallTypes, Updating
<1>4. \A d \in Calls : d # c => Unmoved(d)
  BY <1>2 DEF Unmoved, Inv, CallTypes
<1>5. pc'[c] = "write" /\ plan'[c].albums = some
  BY <1>2 DEF Inv, CallTypes
<1>6. Creators'
  BY <1>2, <1>4, <1>5 DEF Inv, Creators, Unmoved, Creating
<1>7. Asks(c)' /\ Looks(c)'
  BY <1>2, <1>5 DEF Inv, CallAt, Asks, Looks, Creating, Updating, tables
<1>8. Known(record[c].albums)
  BY DEF Inv, CallAt, Plans
<1>9. Plans(c)'
  BY <1>1, <1>2, <1>5, <1>8 DEF Plans, Known, OneBorn, IsSingle, tables, history
<1>10. Excused(c)' <=> Excused(c)
  BY <1>2 DEF Excused, tables, history
<1>11. Writes(c)'
  BY <1>1, <1>2, <1>5, <1>10 DEF Writes, WantsNone
<1> QED
  BY <1>2, <1>3, <1>4, <1>6, <1>7, <1>9, <1>11, CallMovesAlone DEF CallAt

\* The update writes the difference to what it has read: what it planned, if
\* nobody has written since.
LEMMA UpdateWriteStep ==
    ASSUME Inv, NEW c \in Calls, UpdateWrite(c)
    PROVE  Inv'
<1> PICK r \in Records : r = request[c].of
  BY DEF UpdateWrite, Inv, CallAt, Asks
<1> PICK some \in SUBSET Collections : some = plan[c].albums
  BY DEF Inv, CallTypes
<1> PICK seen \in SUBSET Collections : seen = record[c].albums
  BY DEF Inv, CallTypes, Reading, Nothing
<1>1. /\ pc[c] = "write" /\ status[r] = "here"
      /\ albums' = [albums EXCEPT ![r] = (albums[r] \ (seen \ some)) \cup (some \ seen)]
      /\ credits' = [credits EXCEPT ![r] = (credits[r] \ RemovedArtists(c)) \cup AddedArtists(c)]
      /\ some \ seen \subseteq Stored /\ AddedArtists(c) \subseteq artists
      /\ raced' = IF albums[r] = seen THEN raced ELSE raced \cup {r}
      /\ lost' = IF WantsNone(request[c].is) \/ seen \cap promoted # {}
                 THEN lost \cup {r}
                 ELSE IF albums'[r] = {} THEN lost ELSE lost \ {r}
      /\ UNCHANGED <<artists, kind, status, promoted>>
  BY DEF UpdateWrite, UpdateFits, RowsAreThere, AddedAlbums, RemovedAlbums
<1>2. CallTypes' /\ Creators' /\ CallAt(c)' /\ \A d \in Calls : d # c => Unmoved(d)
  BY EndStep DEF UpdateWrite
<1>3. AddedArtists(c) \in SUBSET Artists
  BY DEF AddedArtists, Inv, CallTypes
<1>4. TableTypes'
  BY <1>1, <1>3 DEF Inv, TableTypes
<1>5. KindsMove /\ StatusMoves
  BY <1>1 DEF KindsMove, StatusMoves, Inv, TableTypes
<1>6. /\ OneBorn(some)
      /\ some = {} => \/ WantsNone(request[c].is)
                      \/ request[c].is.single = Absent /\ request[c].is.albums = Absent
      /\ request[c].is.single = Absent /\ request[c].is.albums = Absent =>
            Excused(c) \/ seen \subseteq some
  BY <1>1 DEF Inv, CallAt, Plans, Writes
<1>7. ASSUME NEW q \in Records PROVE RecordAt(q)'
  <2>1. RecordAt(q) /\ Stored' = Stored
    BY <1>1 DEF Inv, Stored
  <2>2. CASE q = r
    <3>1. /\ albums'[q] = (albums[q] \ (seen \ some)) \cup (some \ seen)
          /\ credits'[q] = (credits[q] \ RemovedArtists(c)) \cup AddedArtists(c)
      BY <1>1, <2>2 DEF Inv, TableTypes
    <3>2. albums'[q] \subseteq Stored' /\ credits'[q] \subseteq artists'
      BY <1>1, <2>1, <3>1 DEF RecordAt
    <3>3. CASE albums[q] # seen
      <4>1. q \in raced'
        BY <1>1, <2>2, <3>3
      <4> QED
        BY <3>2, <4>1 DEF RecordAt
    <3>4. CASE albums[q] = seen
      <4>1. albums'[q] = some /\ raced' = raced
        BY <1>1, <2>2, <3>1, <3>4
      <4>2. OneBorn(albums[q])'
        BY <1>1, <1>6, <4>1 DEF OneBorn, IsSingle
      <4>3. ASSUME some = {} PROVE q \in lost' \cup raced'
        <5>1. CASE WantsNone(request[c].is)
          BY <1>1, <2>2, <5>1
        <5>2. CASE Excused(c)
          BY <1>1, <2>2, <4>1, <5>2 DEF Excused
        <5>3. CASE seen \subseteq some
          <6>1. albums[q] = {} /\ q \in lost \cup raced
            BY <1>1, <2>1, <2>2, <3>4, <4>3, <5>3 DEF RecordAt
          <6> QED
            BY <1>1, <2>2, <4>1, <4>3, <6>1
        <5> QED
          BY <1>6, <4>3, <5>1, <5>2, <5>3
      <4> QED
        BY <3>2, <4>1, <4>2, <4>3 DEF RecordAt
    <3> QED
      BY <3>3, <3>4
  <2>3. CASE q # r
    <3>1. /\ albums'[q] = albums[q] /\ credits'[q] = credits[q] /\ status'[q] = status[q]
          /\ (q \in lost' <=> q \in lost) /\ (q \in raced' <=> q \in raced)
      BY <1>1, <2>3 DEF Inv, TableTypes
    <3> QED
      BY <1>1, <2>1, <3>1 DEF RecordAt, OneBorn, IsSingle
  <2> QED
    BY <2>2, <2>3
<1>8. \A q \in Records : status[q] = "none" =>
         status'[q] = "none" \/ (pc[c] \in Creating /\ request[c].of = q)
  BY <1>1
<1> QED
  BY <1>2, <1>4, <1>5, <1>7, <1>8, CallMoves

LEMMA Inductive == Inv /\ [Next]_vars => Inv'
<1> SUFFICES ASSUME Inv, [Next]_vars PROVE Inv'
  OBVIOUS
<1>1. ASSUME NEW a \in Collections, CreateCollection(a) \/ UpdateAlbum(a) \/ DeleteCollection(a)
      PROVE  Inv'
  BY <1>1, CreateCollectionStep, UpdateAlbumStep, DeleteStep
<1>2. ASSUME NEW x \in Artists, DeleteArtist(x) PROVE Inv'
  BY <1>2, DeleteStep
<1>3. ASSUME NEW r \in Records, DeleteRecord(r) PROVE Inv'
  BY <1>3, DeleteRecordStep
<1>4. ASSUME NEW r \in Records, NEW c \in Calls, NEW n \in Requests, Create(c, r, n) \/ Update(c, r, n)
      PROVE  Inv'
  BY <1>4, CreateStep, UpdateStep
<1>5. ASSUME NEW c \in Calls, Step(c) PROVE Inv'
  <2>1. CASE Refuse(c)
    BY <2>1, RefuseStep
  <2>2. Refuse(c) \/ CreateCollect(c) \/ CreateInsert(c) \/ UpdateLook(c) \/ UpdateWrite(c)
    BY <1>5 DEF Step, CreateRefused, CreateFails, UpdateRefused, UpdateFails
  <2> QED
    BY <2>1, <2>2, CreateCollectStep, CreateInsertStep, UpdateLookStep, UpdateWriteStep
<1>6. CASE UNCHANGED vars
  <2>1. UNCHANGED process /\ TableTypes' /\ KindsMove /\ StatusMoves /\ status' = status
    BY <1>6 DEF vars, tables, history, Inv, TableTypes, KindsMove, StatusMoves
  <2>2. \A r \in Records : RecordAt(r)'
    BY <1>6 DEF Inv, RecordAt, Stored, OneBorn, IsSingle, vars, tables, history
  <2> QED
    BY <2>1, <2>2, StatementStep
<1> QED
  BY <1>1, <1>2, <1>3, <1>4, <1>5, <1>6 DEF Next

LEMMA Invariant == Spec => []Inv
  BY InitHolds, Inductive, PTL DEF Spec

-----------------------------------------------------------------------------
\* The join rows refer to rows that are there: a record is on no collection
\* that is gone and credits no artist that is (library.ex:158-179, 205-234).
THEOREM RowsReferToRows == Spec => []TypeOK
<1>1. Inv => TypeOK
  <2> SUFFICES ASSUME Inv PROVE TypeOK
    OBVIOUS
  <2>1. albums \in [Records -> SUBSET Stored] /\ credits \in [Records -> SUBSET artists]
    BY DEF Inv, TableTypes, RecordAt
  <2>2. \A c \in Calls : /\ record[c].albums \subseteq Collections
                         /\ record[c].artists \subseteq Artists
                         /\ plan[c].albums \subseteq Collections
                         /\ plan[c].artists \subseteq Artists
    BY DEF Inv, CallTypes, Reading, Nothing
  <2> QED
    BY <2>1, <2>2 DEF TypeOK, Inv, TableTypes, CallTypes, Creating, Updating
<1> QED
  BY <1>1, Invariant, PTL

\* A record is on one single at most, but for an album made a single and for
\* updates that overlap, however many requests there are.
THEOREM OneSingleAtMost == Spec => []OneSingle
<1>1. Inv => OneSingle
  BY DEF Inv, RecordAt, OneBorn, OneSingle
<1> QED
  BY <1>1, Invariant, PTL

\* A record that is on no collection was put there by a request, by a deletion
\* or a promotion, or by updates that overlap.
THEOREM NoneIsForgotten == Spec => []RecordsAreCollected
<1>1. Inv => RecordsAreCollected
  BY DEF Inv, RecordAt, RecordsAreCollected
<1> QED
  BY <1>1, Invariant, PTL

-----------------------------------------------------------------------------
\* A call stands still while another one moves, and all of them do while a
\* collection, an artist or a record is changed.
LEMMA OneCallMoves ==
    ASSUME Inv, NEW c \in Calls, Next, pc[c] = "write", pc'[c] = "idle"
    PROVE  UpdateWrite(c) \/ UpdateFails(c)
<1>1. ASSUME NEW d \in Calls, d # c, Step(d) PROVE pc'[c] = pc[c]
  BY <1>1 DEF Step, CreateCollect, CreateRefused, CreateInsert, CreateFails, UpdateLook, UpdateRefused,
     UpdateWrite, UpdateFails, Refuse, End, Goto, Inv, CallTypes
<1>2. Step(c) => UpdateWrite(c) \/ UpdateFails(c)
  BY DEF Step, CreateCollect, CreateRefused, CreateInsert, CreateFails, UpdateLook, UpdateRefused
<1>3. ASSUME NEW d \in Calls, NEW r \in Records, NEW n \in Requests, Create(d, r, n) \/ Update(d, r, n)
      PROVE  pc'[c] # "idle"
  BY <1>3 DEF Create, Update, Begin, Goto, Inv, CallTypes
<1>4. ASSUME NEW a \in Collections, CreateCollection(a) \/ UpdateAlbum(a) \/ DeleteCollection(a)
      PROVE  pc' = pc
  BY <1>4 DEF CreateCollection, UpdateAlbum, DeleteCollection, process
<1>5. ASSUME NEW x \in Artists, DeleteArtist(x) PROVE pc' = pc
  BY <1>5 DEF DeleteArtist, process
<1>6. ASSUME NEW r \in Records, DeleteRecord(r) PROVE pc' = pc
  BY <1>6 DEF DeleteRecord, process
<1> QED
  BY <1>1, <1>2, <1>3, <1>4, <1>5, <1>6 DEF Next

\* An update that names neither albums nor a single takes none from the record
\* it has read, but for an album made a single and for updates that overlap.
THEOREM UpdatesKeep == Spec => UpdateKeepsCollections
<1> DEFINE Keeps(c) ==
              pc[c] = "write" /\ pc'[c] = "idle"
              /\ request[c].is.albums = Absent /\ request[c].is.single = Absent
              => \/ \A r \in Records : albums[r] \subseteq albums'[r]
                 \/ record[c].albums \cap promoted # {}
                 \/ request[c].of \in raced
<1>1. ASSUME Inv, Next, NEW c \in Calls PROVE Keeps(c)
  <2> SUFFICES ASSUME pc[c] = "write", pc'[c] = "idle",
                      request[c].is.albums = Absent, request[c].is.single = Absent
               PROVE  \/ \A r \in Records : albums[r] \subseteq albums'[r]
                      \/ record[c].albums \cap promoted # {}
                      \/ request[c].of \in raced
    OBVIOUS
  <2>1. UpdateWrite(c) \/ UpdateFails(c)
    BY <1>1, OneCallMoves
  <2>2. CASE UpdateFails(c)
    BY <2>2 DEF UpdateFails, Refuse, tables
  <2>3. CASE UpdateWrite(c)
    <3>1. Excused(c) \/ record[c].albums \subseteq plan[c].albums
      BY <1>1 DEF Inv, CallAt, Writes
    <3>2. CASE Excused(c)
      BY <2>3, <3>2 DEF Excused, UpdateWrite, UpdateFits
    <3>3. CASE record[c].albums \subseteq plan[c].albums
      <4>1. albums \in [Records -> SUBSET Collections]
        BY <1>1 DEF Inv, TableTypes
      <4>2. RemovedAlbums(c) = {}
        BY <3>3 DEF RemovedAlbums
      <4> QED
        BY <2>3, <4>1, <4>2 DEF UpdateWrite
    <3> QED
      BY <3>1, <3>2, <3>3
  <2> QED
    BY <2>1, <2>2, <2>3
<1>2. Inv /\ [Next]_vars =>
         [\A c \in Calls :
            /\ pc[c] = "write" /\ pc'[c] = "idle"
            /\ request[c].is.albums = Absent /\ request[c].is.single = Absent
            => \/ \A r \in Records : albums[r] \subseteq albums'[r]
               \/ record[c].albums \cap promoted # {}
               \/ request[c].of \in raced]_vars
  BY <1>1
<1> QED
  BY <1>2, Invariant, PTL DEF Spec, UpdateKeepsCollections

=============================================================================
