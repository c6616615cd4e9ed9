------------------------------ MODULE Library ------------------------------
(***************************************************************************)
(* The library of the metadata service (metadata/lib/metadata/library.ex   *)
(* and the controllers that call it): artists, their collections, and      *)
(* records that belong to both by join rows.  A collection is an album or  *)
(* a single by a column that may also be null, and then it is neither.     *)
(*                                                                         *)
(* Each request has a process of its own.  create_record() and             *)
(* update_record() read, look up and write with no transaction around the  *)
(* three; Repo.insert and Repo.update write a record and its join rows in  *)
(* one.  Ids are not used again.  Genres, which go the way of artists      *)
(* without the cascade, and plain columns are left out; whether a record   *)
(* is visible is in Lifecycle.                                             *)
(***************************************************************************)
EXTENDS FiniteSets

CONSTANTS Artists, Collections, Records, Calls,
          Owner,     \* Owner[a]: the artist collection a is created for
          Absent,    \* a parameter that a request does not have
          Null,      \* a parameter that is null
          Requests   \* what requests may name

\* The model leaves out updates that take all artists away.
Named == [artists : {Absent} \cup (SUBSET Artists \ {{}}), albums : {Absent} \cup SUBSET Collections,
          single : {Absent, Null} \cup Collections]

ASSUME LibraryAssumption ==
    /\ Owner \in [Collections -> Artists]
    /\ Absent \notin Collections /\ Null \notin Collections /\ Absent # Null
    /\ Requests \subseteq Named

VARIABLES artists,   \* the artists there are
          kind,      \* the collections, and what is_single makes of them
          status,    \* the records
          albums,    \* albums[r]: the collections of r, by the rows of aldum_records
          credits,   \* credits[r]: its artists, by the rows of record_credits
          pc, request,
          record,    \* the record of a call, as it was read
          plan,      \* what the call is going to make of it
          promoted,  \* history: the albums that an update has made singles
          raced,     \* history: records written on by a call that had read them before
          lost       \* history: records that a request put on no collection, or that were
                     \* on one that was deleted or promoted

tables == <<artists, kind, status, albums, credits>>
process == <<pc, request, record, plan>>
history == <<promoted, raced, lost>>
vars == <<tables, process, history>>

NoCall == [of |-> Null, is |-> Null]
Nothing == [albums |-> {}, artists |-> {}]

Stored == {a \in Collections : kind[a] \in {"album", "single", "neither"}}

\* The join rows refer to rows that are there.
TypeOK ==
    /\ artists \subseteq Artists
    /\ kind \in [Collections -> {"none", "album", "single", "neither", "gone"}]
    /\ status \in [Records -> {"none", "here", "gone"}]
    /\ albums \in [Records -> SUBSET Stored]
    /\ credits \in [Records -> SUBSET artists]
    /\ pc \in [Calls -> {"idle", "collect", "insert", "look", "write"}]
    /\ request \in [Calls -> {NoCall} \cup [of : Records, is : Requests]]
    /\ \A c \in Calls : /\ record[c].albums \subseteq Collections
                        /\ record[c].artists \subseteq Artists
                        /\ plan[c].albums \subseteq Collections
                        /\ plan[c].artists \subseteq Artists
    /\ promoted \subseteq Collections
    /\ raced \subseteq Records
    /\ lost \subseteq Records

Init ==
    /\ artists = Artists
    /\ kind = [a \in Collections |-> "none"]
    /\ status = [r \in Records |-> "none"]
    /\ albums = [r \in Records |-> {}]
    /\ credits = [r \in Records |-> {}]
    /\ pc = [c \in Calls |-> "idle"]
    /\ request = [c \in Calls |-> NoCall]
    /\ record = [c \in Calls |-> Nothing]
    /\ plan = [c \in Calls |-> Nothing]
    /\ promoted = {}
    /\ raced = {}
    /\ lost = {}

\* get_album() and get_single(): neither sees a collection that is neither.
IsAlbum(a) == kind[a] = "album"
IsSingle(a) == a \in Collections /\ kind[a] = "single"

Goto(c, label) == pc' = [pc EXCEPT ![c] = label]

End(c) ==
    /\ Goto(c, "idle")
    /\ request' = [request EXCEPT ![c] = NoCall]
    /\ record' = [record EXCEPT ![c] = Nothing]
    /\ plan' = [plan EXCEPT ![c] = Nothing]

\* 400, 404, or an exception: the request ends and has changed nothing.
Refuse(c) ==
    /\ End(c)
    /\ UNCHANGED <<tables, history>>

-----------------------------------------------------------------------------
(* Collections and artists: one statement each. *)

\* AlbumController.create and SingleController.create
CreateCollection(a) ==
    /\ kind[a] = "none"
    /\ Owner[a] \in artists
    /\ \E k \in {"album", "single"} : kind' = [kind EXCEPT ![a] = k]
    /\ UNCHANGED <<artists, status, albums, credits, process, history>>

\* AlbumController.update casts is_single; SingleController.update keeps it true.
UpdateAlbum(a) ==
    /\ IsAlbum(a)
    /\ \E k \in {"single", "neither"} :
          /\ kind' = [kind EXCEPT ![a] = k]
          /\ promoted' = IF k = "single" THEN promoted \cup {a} ELSE promoted
    /\ UNCHANGED <<artists, status, albums, credits, process, raced, lost>>

\* The rows of the collections in gone go, and their join rows with them.
Cascade(gone) ==
    /\ kind' = [a \in Collections |-> IF a \in gone THEN "gone" ELSE kind[a]]
    /\ albums' = [r \in Records |-> albums[r] \ gone]
    /\ lost' = lost \cup {r \in Records : albums[r] \cap gone # {}}

\* AlbumController.delete and SingleController.delete
DeleteCollection(a) ==
    /\ IsAlbum(a) \/ IsSingle(a)
    /\ Cascade({a})
    /\ UNCHANGED <<artists, status, credits, process, promoted, raced>>

\* ArtistController.delete
DeleteArtist(x) ==
    /\ x \in artists
    /\ artists' = artists \ {x}
    /\ Cascade({a \in Stored : Owner[a] = x})
    /\ credits' = [r \in Records |-> credits[r] \ {x}]
    /\ UNCHANGED <<status, process, promoted, raced>>

\* Library.delete_record()
DeleteRecord(r) ==
    /\ status[r] = "here"
    /\ status' = [status EXCEPT ![r] = "gone"]
    /\ albums' = [albums EXCEPT ![r] = {}]
    /\ credits' = [credits EXCEPT ![r] = {}]
    /\ raced' = raced \ {r}
    /\ lost' = lost \ {r}
    /\ UNCHANGED <<artists, kind, process, promoted>>

-----------------------------------------------------------------------------
(* create_record() *)

\* The request leaves a record no collection.
WantsNone(n) == /\ n.albums \in {{}, Absent} /\ n.single \in {Null, Absent}
                /\ ~(n.albums = Absent /\ n.single = Absent)

Begin(c, r, n, label) ==
    /\ pc[c] = "idle"
    /\ request' = [request EXCEPT ![c] = [of |-> r, is |-> n]]
    /\ Goto(c, label)

\* RecordController.create needs artists, create_record() a collection.
Create(c, r, n) ==
    /\ status[r] = "none"
    /\ \A d \in Calls : request[d].of # r
    /\ Absent \notin {n.artists, n.albums, n.single}
    /\ n.albums # {} \/ n.single # Null
    /\ Begin(c, r, n, "collect")
    /\ UNCHANGED <<tables, record, plan, history>>

\* Mutant: albums that are not found are not missed either.
AreFound(ids) == TRUE

\* length(collection) == length(albums) + bool_to_int(single): each album is
\* found; a single that is not found is not missed.
AlbumsFound(ids) == \A a \in ids : IsAlbum(a)

CreateCollect(c) ==
    LET n == request[c].is IN
    /\ pc[c] = "collect"
    /\ AlbumsFound(n.albums)
    /\ n.artists \subseteq artists
    /\ plan' = [plan EXCEPT ![c] =
           [albums |-> {a \in n.albums : IsAlbum(a)} \cup {a \in {n.single} : IsSingle(a)},
            artists |-> n.artists]]
    /\ Goto(c, "insert")
    /\ UNCHANGED <<tables, request, record, history>>

CreateRefused(c) ==
    /\ pc[c] = "collect"
    /\ ~(AlbumsFound(request[c].is.albums) /\ request[c].is.artists \subseteq artists)
    /\ Refuse(c)

\* Repo.insert; a row that has gone since violates a foreign key.
RowsAreThere(some, persons) == some \subseteq Stored /\ persons \subseteq artists

CreateInsert(c) ==
    LET r == request[c].of IN
    /\ pc[c] = "insert"
    /\ RowsAreThere(plan[c].albums, plan[c].artists)
    /\ status' = [status EXCEPT ![r] = "here"]
    /\ albums' = [albums EXCEPT ![r] = plan[c].albums]
    /\ credits' = [credits EXCEPT ![r] = plan[c].artists]
    /\ lost' = IF request[c].is.albums = {} /\ plan[c].albums = {} THEN lost \cup {r} ELSE lost
    /\ End(c)
    /\ UNCHANGED <<artists, kind, promoted, raced>>

CreateFails(c) ==
    /\ pc[c] = "insert"
    /\ ~RowsAreThere(plan[c].albums, plan[c].artists)
    /\ Refuse(c)

-----------------------------------------------------------------------------
(* update_record(): what the request does not name is taken from the record *)
(* as it was read.                                                          *)

\* Mutant: the single is not taken over.
TransferNothing(r) == {Null}

\* transfer_single(): one of its singles, if it has any.
TransferSingle(r) ==
    IF \E a \in albums[r] : IsSingle(a) THEN {a \in albums[r] : IsSingle(a)} ELSE {Null}

Or(parameter, otherwise) == IF parameter = Absent THEN otherwise ELSE parameter

\* RecordController.update reads the record and what belongs to it.
Update(c, r, n) ==
    /\ status[r] = "here"
    /\ Begin(c, r, n, "look")
    /\ \E s \in IF n.single = Absent THEN TransferSingle(r) ELSE {n.single} :
          record' = [record EXCEPT ![c] = [albums |-> albums[r], artists |-> credits[r],
                                           single |-> s]]
    /\ UNCHANGED <<tables, plan, history>>

\* validate_albums(): those of the record may be singles, those of the request not.
AlbumsValid(c) ==
    LET n == request[c].is IN
    \A a \in Or(n.albums, record[c].albums) : IsAlbum(a) \/ (n.albums = Absent /\ IsSingle(a))

SingleValid(c) == record[c].single # Null => IsSingle(record[c].single)

\* Mutant: singles stay among the albums.
KeptAny(ids) == {a \in ids : IsAlbum(a) \/ IsSingle(a)}

\* The albums of the new record; singles that are among them drop out.
Kept(ids) == {a \in ids : IsAlbum(a)}

UpdateLook(c) ==
    LET n == request[c].is
        persons == Or(n.artists, record[c].artists)
    IN
    /\ pc[c] = "look"
    /\ AlbumsValid(c) /\ SingleValid(c) /\ persons \subseteq artists
    /\ plan' = [plan EXCEPT ![c] =
           [albums |-> Kept(Or(n.albums, record[c].albums)) \cup ({record[c].single} \ {Null}),
            artists |-> persons]]
    /\ Goto(c, "write")
    /\ UNCHANGED <<tables, request, record, history>>

UpdateRefused(c) ==
    /\ pc[c] = "look"
    /\ ~(/\ AlbumsValid(c) /\ SingleValid(c)
         /\ Or(request[c].is.artists, record[c].artists) \subseteq artists)
    /\ Refuse(c)

\* The changeset is the difference to the record that was read.
AddedAlbums(c) == plan[c].albums \ record[c].albums
RemovedAlbums(c) == record[c].albums \ plan[c].albums
AddedArtists(c) == plan[c].artists \ record[c].artists
RemovedArtists(c) == record[c].artists \ plan[c].artists

\* Repo.update runs into no foreign key and no unique index.
UpdateFits(c) ==
    LET r == request[c].of IN
    /\ status[r] = "here"
    /\ RowsAreThere(AddedAlbums(c), AddedArtists(c))
    /\ AddedAlbums(c) \cap albums[r] = {} /\ AddedArtists(c) \cap credits[r] = {}

UpdateWrite(c) ==
    LET r == request[c].of IN
    /\ pc[c] = "write"
    /\ UpdateFits(c)
    /\ albums' = [albums EXCEPT ![r] = (@ \ RemovedAlbums(c)) \cup AddedAlbums(c)]
    /\ credits' = [credits EXCEPT ![r] = (@ \ RemovedArtists(c)) \cup AddedArtists(c)]
    /\ raced' = IF albums[r] = record[c].albums THEN raced ELSE raced \cup {r}
    /\ lost' = IF WantsNone(request[c].is) \/ record[c].albums \cap promoted # {}
               THEN lost \cup {r}
               ELSE IF albums'[r] = {} THEN lost ELSE lost \ {r}
    /\ End(c)
    /\ UNCHANGED <<artists, kind, status, promoted>>

UpdateFails(c) ==
    /\ pc[c] = "write"
    /\ ~UpdateFits(c)
    /\ Refuse(c)

-----------------------------------------------------------------------------
Step(c) ==
    \/ CreateCollect(c) \/ CreateRefused(c) \/ CreateInsert(c) \/ CreateFails(c)
    \/ UpdateLook(c) \/ UpdateRefused(c) \/ UpdateWrite(c) \/ UpdateFails(c)

Next ==
    \/ \E a \in Collections : CreateCollection(a) \/ UpdateAlbum(a) \/ DeleteCollection(a)
    \/ \E x \in Artists : DeleteArtist(x)
    \/ \E r \in Records : \/ DeleteRecord(r)
                           \/ \E c \in Calls, n \in Requests : Create(c, r, n) \/ Update(c, r, n)
    \/ \E c \in Calls : Step(c)

Spec == Init /\ [][Next]_vars

-----------------------------------------------------------------------------
(***************************************************************************)
(* A record is on one single at most, whatever its requests name and in    *)
(* whatever order they run; unless an album it is on was made a single, or *)
(* two updates of it overlapped, each of which added one                   *)
(* (library.ex:158-179, 192-230).                                          *)
(***************************************************************************)
OneSingle ==
    \A r \in Records :
        \/ \A a, b \in albums[r] : IsSingle(a) /\ IsSingle(b) => a = b
        \/ albums[r] \cap promoted # {}
        \/ r \in raced

(***************************************************************************)
(* An update that names neither albums nor a single leaves the collections *)
(* of its record alone, though it looks each of them up again; unless an   *)
(* album of the record was made a single, which drops out then or takes    *)
(* the place of the single, or overlapping updates had left it with two    *)
(* singles (library.ex:192-203, 205-230).                                  *)
(***************************************************************************)
UpdateKeepsCollections ==
    [][\A c \in Calls :
         /\ pc[c] = "write" /\ pc'[c] = "idle"
         /\ request[c].is.albums = Absent /\ request[c].is.single = Absent
         => \/ \A r \in Records : albums[r] \subseteq albums'[r]
            \/ record[c].albums \cap promoted # {}
            \/ request[c].of \in raced]_vars

(***************************************************************************)
(* A record is on no collection only if an update asked for it, one it was *)
(* on was deleted or made a single, or two updates overlapped; or the      *)
(* request that created it named no album and a single that is not there,  *)
(* which create_record() does not notice (library.ex:160-175).             *)
(***************************************************************************)
RecordsAreCollected ==
    \A r \in Records : status[r] = "here" /\ albums[r] = {} => r \in lost \cup raced

=============================================================================
