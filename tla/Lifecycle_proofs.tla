-------------------------- MODULE Lifecycle_proofs --------------------------
(***************************************************************************)
(* For any number of requests, records and faults. A record that is hidden *)
(* is not shown again, and a search that begins after a deletion was       *)
(* answered 204 does not name the record: both follow from what the        *)
(* controllers do to the records; of the fingerprint service only          *)
(* do_delete counts, which removes records and shows none. What becomes of *)
(* the fingerprint needs the tasks of that service too: a record that is   *)
(* shown has one, a deletion that ends well has seen the record go, and    *)
(* one that met no load and no cache fill leaves nothing behind.           *)
(***************************************************************************)
EXTENDS Lifecycle, FiniteSetTheorems, TLAPS

\* The part of the types that the records and their requests need.
RequestTypes ==
    /\ records \in [Ids -> {"none", "visible", "hidden", "gone"}]
    /\ op \in [Calls -> {"none", "create", "update", "hide", "delete", "find"}]
    /\ id \in [Calls -> Ids \cup {0}]
    /\ pc \in [Calls -> {"idle", "post", "undo", "hide", "write", "searchCache",
                         "searchPrimary", "show", "over"}]
    /\ answer \in [Calls -> {0, 200, 201, 204, 404, 409, 500}]
    /\ before \in [Calls -> SUBSET Ids]
    /\ refused \subseteq Calls

\* Ids are given in order, so that the next one is nobody's.
Given == \E n \in 0 .. MaxId : \A r \in Ids : records[r] = "none" <=> n < r

Searching == {"searchCache", "searchPrimary", "show"}

\* What a call has asked for, by where its controller is.
Asked ==
    \A c \in Calls :
        /\ pc[c] = "idle" => op[c] = "none" /\ answer[c] = 0 /\ c \notin refused
        /\ pc[c] # "idle" => id[c] \in Ids /\ records[id[c]] # "none"
        /\ pc[c] = "hide" => op[c] = "delete"
        /\ pc[c] = "write" => op[c] \in {"update", "hide"}
        /\ pc[c] \in Searching => op[c] = "find"
        /\ answer[c] = 204 => op[c] = "delete"

IsOutOfSight(r) == records[r] \in {"hidden", "gone"}
WasRefused(r) == \E d \in Calls : op[d] = "delete" /\ id[d] = r /\ d \in refused

\* A deletion answered 204 has hidden the record, or was refused to.
Withdrawn == \A c \in Calls : answer[c] = 204 => IsOutOfSight(id[c]) \/ c \in refused

\* What was deleted before a search began is still out of sight.
StaysWithdrawn == \A c \in Calls : \A r \in before[c] : IsOutOfSight(r) \/ WasRefused(r)

NotFound ==
    \A c \in Calls : op[c] = "find" /\ answer[c] = 200 /\ id[c] \in before[c] => WasRefused(id[c])

Inv == RequestTypes /\ Given /\ Asked /\ Withdrawn /\ StaysWithdrawn /\ NotFound

LEMMA InitInv == Init => Inv
<1> SUFFICES ASSUME Init PROVE Inv
  OBVIOUS
<1> USE DEF Init
<1>1. RequestTypes
  BY DEF RequestTypes, Ids
<1>2. Given
  <2>1. Old \in 0 .. MaxId /\ \A r \in Ids : records[r] = "none" <=> Old < r
    BY LifecycleAssumption DEF Ids
  <2> QED
    BY <2>1 DEF Given
<1>3. Asked /\ Withdrawn /\ StaysWithdrawn /\ NotFound
  BY DEF Asked, Searching, Withdrawn, StaysWithdrawn, NotFound
<1> QED
  BY <1>1, <1>2, <1>3 DEF Inv

\* What any step does to a record and to the requests that were made.
RecordStep ==
    \A r \in Ids : \/ records'[r] = records[r]
                   \/ records[r] = "none" /\ records'[r] \in {"visible", "hidden"}
                   \/ Exists(r) /\ records'[r] \in {"hidden", "gone"}

RequestStep ==
    /\ \A c \in Calls : pc[c] # "idle" => /\ op'[c] = op[c] /\ id'[c] = id[c]
                                          /\ before'[c] = before[c] /\ pc'[c] # "idle"
    /\ refused \subseteq refused'

\* The id that create_record() is given is that of no record.
LEMMA IdIsFresh ==
    ASSUME RequestTypes, NEW n \in 0 .. MaxId, \A r \in Ids : records[r] = "none" <=> n < r
    PROVE  Cardinality(Known) = n
<1>1. Known = 1 .. n
  BY LifecycleAssumption DEF Known, Ids
<1>2. Cardinality(1 .. n) = n
  BY FS_Interval, LifecycleAssumption
<1> QED
  BY <1>1, <1>2

\* A step that leaves the requests alone and only hides or removes records
\* keeps what is out of sight there.
LEMMA StaysOut ==
    ASSUME RequestTypes, Asked, StaysWithdrawn, RecordStep, RequestStep,
           NEW r \in Ids, IsOutOfSight(r) \/ WasRefused(r)
    PROVE  IsOutOfSight(r)' \/ WasRefused(r)'
<1>1. ASSUME IsOutOfSight(r) PROVE IsOutOfSight(r)'
  BY <1>1 DEF IsOutOfSight, RecordStep, Exists
<1>2. ASSUME WasRefused(r) PROVE WasRefused(r)'
  BY <1>2 DEF WasRefused, RequestStep, Asked, RequestTypes
<1> QED
  BY <1>1, <1>2

\* What a step of one controller may do without losing the invariant.
ControllerMoves(c) ==
    /\ pc[c] # "idle" /\ pc'[c] # "idle"
    /\ \A d \in Calls \ {c} : pc'[d] = pc[d] /\ answer'[d] = answer[d]
    /\ refused \subseteq refused' /\ refused' \subseteq refused \cup {c}
    /\ pc'[c] = "hide" => op[c] = "delete"
    /\ pc'[c] # "write"
    /\ pc'[c] \in Searching => op[c] = "find"
    /\ \/ answer'[c] = answer[c]
       \/ /\ answer'[c] = 204 => op[c] = "delete" /\ (IsOutOfSight(id[c])' \/ c \in refused')
          /\ answer'[c] = 200 /\ op[c] = "find" /\ id[c] \in before[c] => WasRefused(id[c])

\* Records may change, but none is created.
NothingCreated == \A r \in Ids : records'[r] = "none" <=> records[r] = "none"

LEMMA ControllerKeepsInv ==
    ASSUME Inv, RequestTypes', RecordStep, NothingCreated, UNCHANGED requests,
           NEW c \in Calls, ControllerMoves(c)
    PROVE  Inv'
<1> USE DEF requests
<1>1. Given'
  BY DEF Inv, Given, NothingCreated
<1>2. Asked'
  BY DEF Inv, Asked, Searching, ControllerMoves, NothingCreated, RequestTypes
<1>3. RequestStep
  BY DEF RequestStep, ControllerMoves
<1>4. ASSUME NEW r \in Ids, IsOutOfSight(r) PROVE IsOutOfSight(r)'
  BY <1>4 DEF IsOutOfSight, RecordStep, Exists
<1>5. ASSUME NEW r \in Ids, WasRefused(r) PROVE WasRefused(r)'
  BY <1>5 DEF WasRefused, ControllerMoves
<1>6. Withdrawn'
  <2> SUFFICES ASSUME NEW d \in Calls, answer'[d] = 204
               PROVE  IsOutOfSight(id[d])' \/ d \in refused'
    BY DEF Withdrawn
  <2>1. ASSUME answer'[d] = answer[d] PROVE IsOutOfSight(id[d])' \/ d \in refused'
    <3>1. id[d] \in Ids /\ (IsOutOfSight(id[d]) \/ d \in refused)
      BY <2>1 DEF Inv, Asked, Withdrawn
    <3> QED
      BY <1>4, <3>1 DEF ControllerMoves
  <2> QED
    BY <2>1 DEF ControllerMoves
<1>7. StaysWithdrawn'
  <2> SUFFICES ASSUME NEW d \in Calls, NEW r \in before[d]
               PROVE  IsOutOfSight(r)' \/ WasRefused(r)'
    BY DEF StaysWithdrawn
  <2>1. r \in Ids /\ (IsOutOfSight(r) \/ WasRefused(r))
    BY DEF Inv, RequestTypes, StaysWithdrawn
  <2> QED
    BY <1>4, <1>5, <2>1
<1>8. NotFound'
  <2> SUFFICES ASSUME NEW d \in Calls, op[d] = "find", answer'[d] = 200, id[d] \in before[d]
               PROVE  WasRefused(id[d])'
    BY DEF NotFound
  <2>1. id[d] \in Ids
    BY DEF Inv, RequestTypes
  <2>2. WasRefused(id[d])
    BY DEF Inv, NotFound, ControllerMoves
  <2> QED
    BY <1>5, <2>1, <2>2
<1> QED
  BY <1>1, <1>2, <1>6, <1>7, <1>8 DEF Inv

\* A record that is written is hidden or removed, and was there before.
LEMMA RecordWritten ==
    ASSUME Inv, NEW c \in Calls, pc[c] # "idle", Exists(id[c]),
           NEW state \in {"hidden", "gone"}, SetRecord(id[c], state), UNCHANGED id
    PROVE  /\ RecordStep /\ NothingCreated
           /\ records' \in [Ids -> {"none", "visible", "hidden", "gone"}]
           /\ IsOutOfSight(id[c])'
BY DEF Inv, Asked, RequestTypes, SetRecord, RecordStep, NothingCreated, IsOutOfSight, Exists

LEMMA RecordsKept ==
    ASSUME Inv, UNCHANGED records
    PROVE  /\ RecordStep /\ NothingCreated
           /\ records' \in [Ids -> {"none", "visible", "hidden", "gone"}]
BY DEF Inv, RequestTypes, RecordStep, NothingCreated

LEMMA ControllerStepKeepsInv ==
    ASSUME Inv, NEW c \in Calls, ControllerStep(c) \/ GiveUp(c)
    PROVE  Inv' /\ RecordStep
<1> USE DEF Goto, Reply, Searching
<1>1. CASE PostReturns(c)
  <2> USE <1>1 DEF PostReturns, stores, requests
  <2>1. RequestTypes'
    BY RecordsKept DEF Inv, RequestTypes
  <2>2. ControllerMoves(c)
    BY DEF Inv, RequestTypes, ControllerMoves
  <2> QED
    BY <2>1, <2>2, RecordsKept, ControllerKeepsInv
<1>2. CASE GiveUp(c)
  <2> USE <1>2 DEF GiveUp, stores, requests
  <2>1. RequestTypes'
    BY RecordsKept DEF Inv, RequestTypes
  <2>2. ControllerMoves(c)
    BY DEF Inv, RequestTypes, Asked, ControllerMoves
  <2> QED
    BY <2>1, <2>2, RecordsKept, ControllerKeepsInv
<1>3. CASE SearchCache(c)
  <2> USE <1>3 DEF SearchCache, stores, requests
  <2>1. RequestTypes'
    BY RecordsKept DEF Inv, RequestTypes
  <2>2. ControllerMoves(c)
    BY DEF Inv, RequestTypes, Asked, ControllerMoves
  <2> QED
    BY <2>1, <2>2, RecordsKept, ControllerKeepsInv
<1>4. CASE SearchFails(c)
  <2> USE <1>4 DEF SearchFails, stores, requests
  <2>1. RequestTypes'
    BY RecordsKept DEF Inv, RequestTypes
  <2>2. ControllerMoves(c)
    BY DEF Inv, RequestTypes, Asked, ControllerMoves
  <2> QED
    BY <2>1, <2>2, RecordsKept, ControllerKeepsInv
<1>5. CASE SearchPrimary(c)
  <2> USE <1>5 DEF SearchPrimary, stores, requests
  <2>1. RequestTypes'
    BY RecordsKept DEF Inv, RequestTypes
  <2>2. ControllerMoves(c)
    BY DEF Inv, RequestTypes, Asked, ControllerMoves
  <2> QED
    BY <2>1, <2>2, RecordsKept, ControllerKeepsInv
<1>6. CASE HideRefused(c)
  <2> USE <1>6 DEF HideRefused, stores, requests, Fault
  <2>1. RequestTypes'
    BY RecordsKept DEF Inv, RequestTypes
  <2>2. ControllerMoves(c)
    BY DEF Inv, RequestTypes, Asked, ControllerMoves
  <2> QED
    BY <2>1, <2>2, RecordsKept, ControllerKeepsInv
<1>7. CASE Show(c)
  <2> USE <1>7 DEF Show, stores, requests
  <2>1. RequestTypes'
    BY RecordsKept DEF Inv, RequestTypes
  <2>2. answer'[c] = 200 /\ id[c] \in before[c] => WasRefused(id[c])
    BY DEF Inv, RequestTypes, StaysWithdrawn, IsOutOfSight
  <2>3. answer'[c] # 204
    BY DEF Inv, RequestTypes
  <2>4. ControllerMoves(c)
    BY <2>2, <2>3 DEF Inv, RequestTypes, ControllerMoves
  <2> QED
    BY <2>1, <2>4, RecordsKept, ControllerKeepsInv
<1>8. CASE Undo(c)
  <2> USE <1>8 DEF Undo, requests
  <2>1. RecordStep /\ NothingCreated /\ records' \in [Ids -> {"none", "visible", "hidden", "gone"}]
    <3>1. ASSUME Exists(id[c]) PROVE SetRecord(id[c], "gone")
      BY <3>1
    <3>2. ASSUME ~(Exists(id[c])) PROVE UNCHANGED records
      BY <3>2
    <3> QED
      BY <3>1, <3>2, RecordWritten, RecordsKept
  <2>2. RequestTypes'
    BY <2>1 DEF Inv, RequestTypes
  <2>3. ControllerMoves(c)
    <3>1. answer'[c] = 204 => op[c] = "delete" /\ IsOutOfSight(id[c])'
      BY RecordWritten DEF Inv, RequestTypes, Asked
    <3>2. answer'[c] = 200 => op[c] # "find"
      BY DEF Inv, RequestTypes, Asked
    <3> QED
      BY <3>1, <3>2 DEF Inv, RequestTypes, ControllerMoves
  <2> QED
    BY <2>1, <2>2, <2>3, ControllerKeepsInv
<1>9. CASE Hide(c)
  <2> USE <1>9 DEF Hide, requests
  <2>1. RecordStep /\ NothingCreated /\ records' \in [Ids -> {"none", "visible", "hidden", "gone"}]
    <3>1. ASSUME Exists(id[c]) PROVE SetRecord(id[c], "hidden")
      BY <3>1
    <3>2. ASSUME ~(Exists(id[c])) PROVE UNCHANGED records
      BY <3>2
    <3> QED
      BY <3>1, <3>2, RecordWritten, RecordsKept
  <2>2. RequestTypes'
    BY <2>1 DEF Inv, RequestTypes
  <2>3. ControllerMoves(c)
    <3>1. answer'[c] = 204 => op[c] = "delete" /\ IsOutOfSight(id[c])'
      BY RecordWritten DEF Inv, RequestTypes, Asked
    <3>2. answer'[c] = 200 => op[c] # "find"
      BY DEF Inv, RequestTypes, Asked
    <3> QED
      BY <3>1, <3>2 DEF Inv, RequestTypes, ControllerMoves
  <2> QED
    BY <2>1, <2>2, <2>3, ControllerKeepsInv
<1>10. CASE Write(c)
  <2> USE <1>10 DEF Write, requests
  <2>1. RecordStep /\ NothingCreated /\ records' \in [Ids -> {"none", "visible", "hidden", "gone"}]
    <3>1. ASSUME Exists(id[c]) /\ op[c] = "hide" PROVE SetRecord(id[c], "hidden")
      BY <3>1
    <3>2. ASSUME ~(Exists(id[c]) /\ op[c] = "hide") PROVE UNCHANGED records
      BY <3>2
    <3> QED
      BY <3>1, <3>2, RecordWritten, RecordsKept
  <2>2. RequestTypes'
    BY <2>1 DEF Inv, RequestTypes
  <2>3. ControllerMoves(c)
    <3>1. answer'[c] = 204 => op[c] = "delete" /\ IsOutOfSight(id[c])'
      BY RecordWritten DEF Inv, RequestTypes, Asked
    <3>2. answer'[c] = 200 => op[c] # "find"
      BY DEF Inv, RequestTypes, Asked
    <3> QED
      BY <3>1, <3>2 DEF Inv, RequestTypes, ControllerMoves
  <2> QED
    BY <2>1, <2>2, <2>3, ControllerKeepsInv
<1> QED
  BY <1>1, <1>2, <1>3, <1>4, <1>5, <1>6, <1>7, <1>8, <1>9, <1>10 DEF ControllerStep

\* What the arrival of a request may do without losing the invariant.
Arrives(c) ==
    /\ pc[c] = "idle" /\ pc'[c] # "idle"
    /\ \A d \in Calls \ {c} : /\ pc'[d] = pc[d] /\ answer'[d] = answer[d] /\ op'[d] = op[d]
                              /\ id'[d] = id[d] /\ before'[d] = before[d]
    /\ id'[c] \in Ids /\ records'[id'[c]] # "none"
    /\ pc'[c] # "hide"
    /\ pc'[c] = "write" => op'[c] \in {"update", "hide"}
    /\ pc'[c] \in Searching => op'[c] = "find"
    /\ answer'[c] \notin {200, 204}
    /\ refused' = refused
    /\ \A r \in before'[c] : r \in before[c] \/ IsOutOfSight(r) \/ WasRefused(r)

LEMMA ArrivalKeepsInv ==
    ASSUME Inv, RequestTypes', RecordStep, Given', NEW c \in Calls, Arrives(c)
    PROVE  Inv'
<1>1. Asked'
  BY DEF Inv, Asked, RecordStep, Exists, RequestTypes, Arrives
<1>2. RequestStep
  BY DEF RequestStep, Arrives
<1>3. ASSUME NEW r \in Ids, IsOutOfSight(r) \/ WasRefused(r)
      PROVE  IsOutOfSight(r)' \/ WasRefused(r)'
  BY <1>2, <1>3, StaysOut DEF Inv
<1>4. Withdrawn'
  <2> SUFFICES ASSUME NEW d \in Calls, answer'[d] = 204
               PROVE  IsOutOfSight(id[d])' \/ d \in refused'
    BY DEF Withdrawn
  <2>1. id'[d] = id[d] /\ id[d] \in Ids /\ (IsOutOfSight(id[d]) \/ d \in refused)
    BY DEF Arrives, Inv, Asked, Withdrawn
  <2> QED
    BY <2>1 DEF Arrives, IsOutOfSight, RecordStep, Exists
<1>5. StaysWithdrawn'
  <2> SUFFICES ASSUME NEW d \in Calls, NEW r \in before'[d]
               PROVE  IsOutOfSight(r)' \/ WasRefused(r)'
    BY DEF StaysWithdrawn
  <2>1. r \in Ids
    BY DEF RequestTypes
  <2>2. IsOutOfSight(r) \/ WasRefused(r)
    BY DEF Arrives, Inv, StaysWithdrawn
  <2> QED
    BY <1>3, <2>1, <2>2
<1>6. NotFound'
  <2> SUFFICES ASSUME NEW d \in Calls, op'[d] = "find", answer'[d] = 200, id'[d] \in before'[d]
               PROVE  WasRefused(id[d])'
    BY DEF NotFound
  <2>1. d # c /\ op[d] = "find" /\ answer[d] = 200 /\ id[d] \in before[d] /\ id'[d] = id[d]
    BY DEF Arrives
  <2>2. WasRefused(id[d])
    BY <2>1 DEF Inv, NotFound
  <2> QED
    BY <1>2, <2>1, <2>2 DEF WasRefused, RequestStep, Inv, Asked, RequestTypes
<1> QED
  BY <1>1, <1>4, <1>5, <1>6 DEF Inv

LEMMA RequestKeepsInv ==
    ASSUME Inv, NEW c \in Calls, NEW r \in Known, Delete(c, r) \/ Update(c, r) \/ Find(c, r)
    PROVE  Inv' /\ RecordStep
<1> USE DEF Ask, Goto, Reply, Searching
<1>0. r \in Ids /\ records[r] # "none"
  BY DEF Known
<1>1. CASE Delete(c, r)
  <2> USE <1>1 DEF Delete, stores
  <2>1. RequestTypes'
    BY <1>0, RecordsKept DEF Inv, RequestTypes
  <2>2. Arrives(c)
    BY <1>0 DEF Inv, Asked, RequestTypes, Arrives
  <2>3. Given'
    BY DEF Inv, Given
  <2> QED
    BY <2>1, <2>2, <2>3, RecordsKept, ArrivalKeepsInv
<1>2. CASE Update(c, r)
  <2> USE <1>2 DEF Update, stores
  <2>0. PICK what \in {"update", "hide"} : Ask(c, what, r)
    BY DEF Update
  <2>1. RequestTypes'
    BY <1>0, <2>0, RecordsKept DEF Inv, RequestTypes
  <2>2. Arrives(c)
    BY <1>0, <2>0 DEF Inv, Asked, RequestTypes, Arrives
  <2>3. Given'
    BY DEF Inv, Given
  <2> QED
    BY <2>1, <2>2, <2>3, RecordsKept, ArrivalKeepsInv
<1>3. CASE Find(c, r)
  <2> USE <1>3 DEF Find, stores
  <2>1. ASSUME NEW s \in before'[c]
        PROVE  s \in Ids /\ (IsOutOfSight(s) \/ WasRefused(s))
    <3>1. PICK d \in Calls : answer[d] = 204 /\ id[d] = s
      BY DEF Inv, RequestTypes
    <3> QED
      BY <3>1 DEF Inv, Asked, Withdrawn, WasRefused
  <2>2. RequestTypes'
    BY <1>0, <2>1, RecordsKept DEF Inv, RequestTypes
  <2>3. Arrives(c)
    BY <1>0, <2>1 DEF Inv, Asked, RequestTypes, Arrives
  <2>4. Given'
    BY DEF Inv, Given
  <2> QED
    BY <2>2, <2>3, <2>4, RecordsKept, ArrivalKeepsInv
<1> QED
  BY <1>1, <1>2, <1>3

LEMMA CreateKeepsInv ==
    ASSUME Inv, NEW c \in Calls, Create(c)
    PROVE  Inv' /\ RecordStep
<1> DEFINE r == Cardinality(Known) + 1
<1>1. PICK n \in 0 .. MaxId : \A s \in Ids : records[s] = "none" <=> n < s
  BY DEF Inv, Given
<1>2. r = n + 1
  BY <1>1, IdIsFresh DEF Inv
<1>3. r \in Ids /\ r \in 1 .. MaxId /\ records[r] = "none"
  BY <1>1, <1>2 DEF Create, Ids
<1>4. PICK state \in {"visible", "hidden"} : records' = [records EXCEPT ![r] = state]
  BY DEF Create, SetRecord
<1>5. /\ pc[c] = "idle" /\ pc' = [pc EXCEPT ![c] = "post"]
      /\ op' = [op EXCEPT ![c] = "create"] /\ id' = [id EXCEPT ![c] = r]
      /\ UNCHANGED <<before, answer, refused>>
  BY DEF Create, Ask, Goto
<1> HIDE DEF r
<1>6. RecordStep
  BY <1>3, <1>4 DEF RecordStep, Inv, RequestTypes
<1>7. RequestTypes'
  BY <1>3, <1>4, <1>5 DEF Inv, RequestTypes
<1>8. Given'
  <2>1. r \in 0 .. MaxId /\ n \in Int
    BY <1>3
  <2>2. \A s \in Ids : records'[s] = "none" <=> r < s
    BY <1>1, <1>2, <1>3, <1>4, <2>1 DEF Inv, RequestTypes, Ids
  <2> QED
    BY <2>1, <2>2 DEF Given
<1>9. Arrives(c)
  BY <1>3, <1>4, <1>5 DEF Inv, Asked, RequestTypes, Arrives, Searching
<1> QED
  BY <1>6, <1>7, <1>8, <1>9, ArrivalKeepsInv

\* Nothing the invariant speaks of changes.
LEMMA QuietKeepsInv ==
    ASSUME Inv, UNCHANGED <<records, requests, controller>>
    PROVE  Inv' /\ RecordStep
BY DEF requests, controller, Inv, RequestTypes, Given, Asked, Withdrawn, StaysWithdrawn, NotFound,
       IsOutOfSight, WasRefused, RecordStep

\* The fingerprint service writes records by do_delete only.
LEMMA ServiceKeepsInv ==
    ASSUME Inv, NEW c \in Calls, ServiceStep(c)
    PROVE  Inv' /\ RecordStep
<1>1. CASE DoDeleteRemove(c)
  <2> USE <1>1 DEF DoDeleteRemove, requests, controller
  <2>1. \A r \in Ids : records'[r] = records[r] \/ (Exists(r) /\ records'[r] = "gone")
    BY DEF SetRecord, Inv, RequestTypes
  <2>2. records' \in [Ids -> {"none", "visible", "hidden", "gone"}]
    BY DEF SetRecord, Inv, RequestTypes
  <2>3. RecordStep /\ NothingCreated
    BY <2>1 DEF RecordStep, NothingCreated, Exists
  <2>4. RequestTypes'
    BY <2>2 DEF Inv, RequestTypes
  <2>5. Given'
    BY <2>3 DEF Inv, Given, NothingCreated
  <2>6. Asked'
    BY <2>3 DEF Inv, Asked, NothingCreated
  <2>7. ASSUME NEW r \in Ids, IsOutOfSight(r) PROVE IsOutOfSight(r)'
    BY <2>1, <2>7 DEF IsOutOfSight
  <2>8. Withdrawn'
    BY <2>7 DEF Inv, Asked, Withdrawn, IsOutOfSight
  <2>9. StaysWithdrawn'
    BY <2>7 DEF Inv, RequestTypes, StaysWithdrawn, IsOutOfSight, WasRefused
  <2>10. NotFound'
    BY DEF Inv, NotFound, WasRefused
  <2> QED
    BY <2>3, <2>4, <2>5, <2>6, <2>8, <2>9, <2>10 DEF Inv
<1>2. CASE UNCHANGED <<records, requests, controller>>
  BY <1>2, QuietKeepsInv
<1>3. ServiceStep(c) => DoDeleteRemove(c) \/ UNCHANGED <<records, requests, controller>>
  BY DEF ServiceStep, LoadClaim, LoadRefused, LoadAccepted, StorePrimary, StoreCache,
         DeleteAccepted, PurgePrimary, PurgeCache, PurgeFailed, DoDeleteLook, FillRead, FillIndex,
         stores
<1> QED
  BY <1>1, <1>2, <1>3

\* A service that is killed ends requests and forgets tasks.
LEMMA CrashKeepsInv ==
    ASSUME Inv, FingerprintCrash \/ MetadataCrash
    PROVE  Inv' /\ RecordStep
<1> USE DEF stores, requests
<1>1. /\ UNCHANGED <<records, op, id, before, answer, refused>>
      /\ pc' \in [Calls -> {"idle", "post", "undo", "hide", "write", "searchCache",
                            "searchPrimary", "show", "over"}]
  BY DEF FingerprintCrash, MetadataCrash, Inv, RequestTypes
<1>2. \A c \in Calls : pc'[c] = pc[c] \/ (pc[c] # "idle" /\ pc'[c] = "over")
  BY DEF FingerprintCrash, MetadataCrash, Inv, Asked, RequestTypes
<1>3. RequestTypes' /\ Given' /\ RecordStep
  BY <1>1 DEF Inv, RequestTypes, Given, RecordStep
<1>4. Asked'
  BY <1>1, <1>2 DEF Inv, Asked, Searching
<1>5. Withdrawn' /\ StaysWithdrawn' /\ NotFound'
  BY <1>1 DEF Inv, Withdrawn, StaysWithdrawn, NotFound, IsOutOfSight, WasRefused
<1> QED
  BY <1>3, <1>4, <1>5 DEF Inv

LEMMA StepInv == Inv /\ [Next]_vars => Inv' /\ RecordStep
<1> SUFFICES ASSUME Inv, [Next]_vars PROVE Inv' /\ RecordStep
  OBVIOUS
<1>1. ASSUME NEW c \in Calls, Create(c) PROVE Inv' /\ RecordStep
  BY <1>1, CreateKeepsInv
<1>2. ASSUME NEW c \in Calls, NEW r \in Known, Delete(c, r) \/ Update(c, r) \/ Find(c, r)
      PROVE  Inv' /\ RecordStep
  BY <1>2, RequestKeepsInv
<1>3. ASSUME NEW c \in Calls, ControllerStep(c) \/ GiveUp(c) PROVE Inv' /\ RecordStep
  BY <1>3, ControllerStepKeepsInv
<1>4. ASSUME NEW c \in Calls, ServiceStep(c) PROVE Inv' /\ RecordStep
  BY <1>4, ServiceKeepsInv
<1>5. CASE Refresh
  BY <1>5, QuietKeepsInv DEF Refresh
<1>6. CASE FingerprintCrash \/ MetadataCrash
  BY <1>6, CrashKeepsInv
<1>7. CASE UNCHANGED vars
  BY <1>7, QuietKeepsInv DEF vars, stores
<1> QED
  BY <1>1, <1>2, <1>3, <1>4, <1>5, <1>6, <1>7 DEF Next, Finished

LEMMA InvHolds == Spec => []Inv
BY InitInv, StepInv, PTL DEF Spec

\* A record that is hidden is not shown again, and one that is gone does not
\* come back, whatever updates, deletions and crashes come in between.
THEOREM HiddenForGood == Spec => HiddenStaysHidden
<1>1. Inv /\ [Next]_vars => [NoRecordReturns]_vars
  BY StepInv DEF RecordStep, Exists, NoRecordReturns
<1> QED
  BY <1>1, InvHolds, PTL DEF Spec, HiddenStaysHidden

\* A search that begins when a deletion has been answered 204 does not name the
\* record, unless hiding it was refused.
THEOREM DeletedIsNotFound == Spec => []NoFindAfterDelete
<1>1. Inv => NoFindAfterDelete
  BY DEF Inv, NotFound, NoFindAfterDelete, WasRefused, Of
<1> QED
  BY <1>1, InvHolds, PTL

-----------------------------------------------------------------------------
(* What becomes of a fingerprint: the tasks of the two services.           *)

ServiceTypes ==
    /\ rows \in [Ids -> SUBSET {"claim", "print"}]
    /\ docs \in [Ids -> SUBSET {"new", "shown"}]
    /\ remote \in [Calls -> {"none", "sent", "claimed", "yes", "no", "lost"}]
    /\ job \in [Calls -> [Lanes -> {"none", "queued", "index", "done", "failed"}]]
    /\ chief \in [Calls -> {"none", "purge", "remove", "over", "absent", "failed"}]
    /\ fill \in [Calls -> Ids \cup {0}]
    /\ unquiet \subseteq Ids

\* The tasks of a call that creates a record: started by the answer yes.
CreatingAt(c) ==
    op[c] = "create" =>
        /\ chief[c] = "none"
        /\ \A l \in Lanes : job[c][l] # "index"
        /\ remote[c] # "yes" => \A l \in Lanes : job[c][l] = "none"
        /\ remote[c] = "yes" => \A l \in Lanes : job[c][l] # "none"
        /\ answer[c] = 201 => remote[c] = "yes"

\* The tasks of a deletion: started by the answer yes, which the client's 204
\* needs, and both have succeeded when do_delete is called.
DeletingAt(c) ==
    op[c] = "delete" =>
        /\ remote[c] = "yes" <=> chief[c] # "none"
        /\ chief[c] = "none" => \A l \in Lanes : job[c][l] = "none"
        /\ chief[c] # "none" => \A l \in Lanes : job[c][l] \in {"queued", "done", "failed"}
        /\ pc[c] = "hide" \/ answer[c] = 204 => remote[c] = "yes"
        /\ chief[c] \in {"remove", "over", "absent"} => Purged(c)

ControlAt(c) ==
    /\ op[c] \notin {"create", "delete"} =>
          remote[c] = "none" /\ chief[c] = "none" /\ job[c]["primary"] = "none"
    /\ op[c] = "none" => job[c]["cache"] = "none"
    /\ pc[c] = "undo" => op[c] = "create"
    /\ CreatingAt(c)
    /\ DeletingAt(c)

\* A task of a deletion that is over has seen the record go.
EndedAt(c) == chief[c] \in {"over", "absent"} => records[id[c]] = "gone"

\* Who has removed a record: a deletion, or the request that was creating it.
Removed(c, r) ==
    /\ id[c] = r
    /\ \/ op[c] = "delete" /\ chief[c] = "over"
       \/ op[c] = "create" /\ pc[c] = "over" /\ answer[c] # 201

RemovedAt(r) == records[r] = "gone" => \E c \in Calls : Removed(c, r)

\* While and after a deletion that was quiet when it was accepted, nothing
\* that could bring the fingerprint back is under way.
QuietAt(c) ==
    chief[c] \in {"purge", "remove", "over"} /\ id[c] \notin unquiet =>
        /\ ~Settling(id[c])
        /\ job[c]["primary"] = "done" => rows[id[c]] = {}
        /\ job[c]["cache"] = "done" => docs[id[c]] = {}

\* What excuses a record that has no fingerprint in the primary storage.
Excused(c, r) ==
    /\ id[c] = r
    /\ \/ op[c] = "create" /\ job[c]["primary"] # "done"
       \/ op[c] = "delete" /\ chief[c] \in {"purge", "remove", "failed"}

KeptAt(r) ==
    records[r] \in {"visible", "hidden"} => rows[r] = {"print"} \/ \E c \in Calls : Excused(c, r)

TaskInv ==
    /\ ServiceTypes
    /\ \A c \in Calls : ControlAt(c)
    /\ \A c \in Calls : EndedAt(c)
    /\ \A c \in Calls : QuietAt(c)
    /\ \A r \in Ids : RemovedAt(r)
    /\ \A r \in Ids : KeptAt(r)

\* Nothing changes for another call.
Untouched(d) ==
    /\ op'[d] = op[d] /\ id'[d] = id[d] /\ pc'[d] = pc[d] /\ answer'[d] = answer[d]
    /\ remote'[d] = remote[d] /\ job'[d] = job[d] /\ chief'[d] = chief[d] /\ fill'[d] = fill[d]

\* One call moves: its tasks keep to their order, and the others stand still.
Moves(c) == ControlAt(c)' /\ \A d \in Calls : d # c => Untouched(d)

LEMMA TaskInit == Init => TaskInv
<1> SUFFICES ASSUME Init PROVE TaskInv
  OBVIOUS
<1>1. ServiceTypes
  BY DEF Init, ServiceTypes, NoTask, Ids
<1>2. ASSUME NEW c \in Calls PROVE ControlAt(c) /\ EndedAt(c) /\ QuietAt(c)
  BY DEF Init, ControlAt, CreatingAt, DeletingAt, EndedAt, QuietAt, NoTask, Lanes
<1>3. ASSUME NEW r \in Ids PROVE RemovedAt(r) /\ KeptAt(r)
  BY DEF Init, RemovedAt, KeptAt
<1> QED
  BY <1>1, <1>2, <1>3 DEF TaskInv

LEMMA ArrivalMoves ==
    ASSUME Inv, TaskInv, NEW c \in Calls,
           Create(c) \/ \E r \in Known : Delete(c, r) \/ Update(c, r) \/ Find(c, r)
    PROVE  Moves(c) /\ ServiceTypes'
<1> USE DEF Ask, Goto, Reply, stores, service, Lanes
<1>0. op[c] = "none" /\ answer[c] = 0 /\ ControlAt(c)
  BY DEF Inv, Asked, TaskInv, Create, Delete, Update, Find
<1>1. CASE Create(c)
  <2>1. \A d \in Calls : d # c => Untouched(d)
    BY <1>1 DEF Create, Untouched, Inv, RequestTypes
  <2>2. ControlAt(c)'
    BY <1>0, <1>1 DEF Create, ControlAt, CreatingAt, DeletingAt, Inv, RequestTypes, TaskInv, ServiceTypes
  <2>3. ServiceTypes'
    BY <1>1 DEF Create, TaskInv, ServiceTypes
  <2> QED
    BY <2>1, <2>2, <2>3 DEF Moves
<1>2. ASSUME NEW r \in Known, Delete(c, r) PROVE Moves(c) /\ ServiceTypes'
  <2>1. \A d \in Calls : d # c => Untouched(d)
    BY <1>2 DEF Delete, Untouched, Inv, RequestTypes, TaskInv, ServiceTypes
  <2>2. ControlAt(c)'
    BY <1>0, <1>2 DEF Delete, ControlAt, CreatingAt, DeletingAt, Inv, RequestTypes, TaskInv, ServiceTypes
  <2>3. ServiceTypes'
    BY <1>2 DEF Delete, TaskInv, ServiceTypes
  <2> QED
    BY <2>1, <2>2, <2>3 DEF Moves
<1>3. ASSUME NEW r \in Known, Update(c, r) PROVE Moves(c) /\ ServiceTypes'
  <2>0. PICK what \in {"update", "hide"} : Ask(c, what, r)
    BY <1>3 DEF Update
  <2>1. \A d \in Calls : d # c => Untouched(d)
    BY <1>3, <2>0 DEF Update, Untouched, Inv, RequestTypes
  <2>2. ControlAt(c)'
    BY <1>0, <1>3, <2>0 DEF Update, ControlAt, CreatingAt, DeletingAt, Inv, RequestTypes
  <2>3. ServiceTypes'
    BY <1>3 DEF Update, TaskInv, ServiceTypes
  <2> QED
    BY <2>1, <2>2, <2>3 DEF Moves
<1>4. ASSUME NEW r \in Known, Find(c, r) PROVE Moves(c) /\ ServiceTypes'
  <2>1. \A d \in Calls : d # c => Untouched(d)
    BY <1>4 DEF Find, Untouched, Inv, RequestTypes
  <2>2. ControlAt(c)'
    BY <1>0, <1>4 DEF Find, ControlAt, CreatingAt, DeletingAt, Inv, RequestTypes
  <2>3. ServiceTypes'
    BY <1>4 DEF Find, TaskInv, ServiceTypes
  <2> QED
    BY <2>1, <2>2, <2>3 DEF Moves
<1> QED
  BY <1>1, <1>2, <1>3, <1>4

LEMMA ControllerMovesCall ==
    ASSUME Inv, TaskInv, NEW c \in Calls, ControllerStep(c) \/ GiveUp(c)
    PROVE  Moves(c) /\ ServiceTypes'
<1> USE DEF Goto, Reply, stores, requests, service, controller, Lanes, SetJob, Purged, Searching
<1>0. ControlAt(c)
  BY DEF TaskInv
<1>1. CASE PostReturns(c)
  <2>1. \A d \in Calls : d # c => Untouched(d)
    BY <1>1 DEF PostReturns, Untouched, Inv, RequestTypes, TaskInv, ServiceTypes
  <2>2. ControlAt(c)'
    BY <1>0, <1>1 DEF PostReturns, ControlAt, CreatingAt, DeletingAt, Inv, RequestTypes, Asked, TaskInv, ServiceTypes
  <2>3. ServiceTypes'
    BY <1>0, <1>1 DEF PostReturns, TaskInv, ServiceTypes
  <2> QED
    BY <2>1, <2>2, <2>3 DEF Moves
<1>2. CASE GiveUp(c)
  <2>1. \A d \in Calls : d # c => Untouched(d)
    BY <1>2 DEF GiveUp, Untouched, Inv, RequestTypes, TaskInv, ServiceTypes
  <2>2. ControlAt(c)'
    BY <1>0, <1>2 DEF GiveUp, ControlAt, CreatingAt, DeletingAt, Inv, RequestTypes, Asked, TaskInv, ServiceTypes
  <2>3. ServiceTypes'
    BY <1>0, <1>2 DEF GiveUp, TaskInv, ServiceTypes
  <2> QED
    BY <2>1, <2>2, <2>3 DEF Moves
<1>3. CASE Undo(c)
  <2>1. \A d \in Calls : d # c => Untouched(d)
    BY <1>3 DEF Undo, Untouched, Inv, RequestTypes, TaskInv, ServiceTypes
  <2>2. ControlAt(c)'
    BY <1>0, <1>3 DEF Undo, ControlAt, CreatingAt, DeletingAt, Inv, RequestTypes, Asked, TaskInv, ServiceTypes
  <2>3. ServiceTypes'
    BY <1>0, <1>3 DEF Undo, TaskInv, ServiceTypes
  <2> QED
    BY <2>1, <2>2, <2>3 DEF Moves
<1>4. CASE Hide(c)
  <2>1. \A d \in Calls : d # c => Untouched(d)
    BY <1>4 DEF Hide, Untouched, Inv, RequestTypes, TaskInv, ServiceTypes
  <2>2. ControlAt(c)'
    BY <1>0, <1>4 DEF Hide, ControlAt, CreatingAt, DeletingAt, Inv, RequestTypes, Asked, TaskInv, ServiceTypes
  <2>3. ServiceTypes'
    BY <1>0, <1>4 DEF Hide, TaskInv, ServiceTypes
  <2> QED
    BY <2>1, <2>2, <2>3 DEF Moves
<1>5. CASE HideRefused(c)
  <2>1. \A d \in Calls : d # c => Untouched(d)
    BY <1>5 DEF HideRefused, Untouched, Inv, RequestTypes, TaskInv, ServiceTypes
  <2>2. ControlAt(c)'
    BY <1>0, <1>5 DEF HideRefused, ControlAt, CreatingAt, DeletingAt, Inv, RequestTypes, Asked, TaskInv, ServiceTypes
  <2>3. ServiceTypes'
    BY <1>0, <1>5 DEF HideRefused, TaskInv, ServiceTypes
  <2> QED
    BY <2>1, <2>2, <2>3 DEF Moves
<1>6. CASE Write(c)
  <2>1. \A d \in Calls : d # c => Untouched(d)
    BY <1>6 DEF Write, Untouched, Inv, RequestTypes, TaskInv, ServiceTypes
  <2>2. ControlAt(c)'
    BY <1>0, <1>6 DEF Write, ControlAt, CreatingAt, DeletingAt, Inv, RequestTypes, Asked, TaskInv, ServiceTypes
  <2>3. ServiceTypes'
    BY <1>0, <1>6 DEF Write, TaskInv, ServiceTypes
  <2> QED
    BY <2>1, <2>2, <2>3 DEF Moves
<1>7. CASE SearchCache(c)
  <2>1. \A d \in Calls : d # c => Untouched(d)
    BY <1>7 DEF SearchCache, Untouched, Inv, RequestTypes, TaskInv, ServiceTypes
  <2>2. ControlAt(c)'
    BY <1>0, <1>7 DEF SearchCache, ControlAt, CreatingAt, DeletingAt, Inv, RequestTypes, Asked, TaskInv, ServiceTypes
  <2>3. ServiceTypes'
    BY <1>0, <1>7 DEF SearchCache, TaskInv, ServiceTypes
  <2> QED
    BY <2>1, <2>2, <2>3 DEF Moves
<1>8. CASE SearchFails(c)
  <2>1. \A d \in Calls : d # c => Untouched(d)
    BY <1>8 DEF SearchFails, Untouched, Inv, RequestTypes, TaskInv, ServiceTypes
  <2>2. ControlAt(c)'
    BY <1>0, <1>8 DEF SearchFails, ControlAt, CreatingAt, DeletingAt, Inv, RequestTypes, Asked, TaskInv, ServiceTypes
  <2>3. ServiceTypes'
    BY <1>0, <1>8 DEF SearchFails, TaskInv, ServiceTypes
  <2> QED
    BY <2>1, <2>2, <2>3 DEF Moves
<1>9. CASE SearchPrimary(c)
  <2>1. \A d \in Calls : d # c => Untouched(d)
    BY <1>9 DEF SearchPrimary, Untouched, Inv, RequestTypes, TaskInv, ServiceTypes
  <2>2. ControlAt(c)'
    BY <1>0, <1>9 DEF SearchPrimary, ControlAt, CreatingAt, DeletingAt, Inv, RequestTypes, Asked, TaskInv, ServiceTypes
  <2>3. ServiceTypes'
    BY <1>0, <1>9 DEF SearchPrimary, TaskInv, ServiceTypes
  <2> QED
    BY <2>1, <2>2, <2>3 DEF Moves
<1>10. CASE Show(c)
  <2>1. \A d \in Calls : d # c => Untouched(d)
    BY <1>10 DEF Show, Untouched, Inv, RequestTypes, TaskInv, ServiceTypes
  <2>2. ControlAt(c)'
    BY <1>0, <1>10 DEF Show, ControlAt, CreatingAt, DeletingAt, Inv, RequestTypes, Asked, TaskInv, ServiceTypes
  <2>3. ServiceTypes'
    BY <1>0, <1>10 DEF Show, TaskInv, ServiceTypes
  <2> QED
    BY <2>1, <2>2, <2>3 DEF Moves
<1> QED
  BY <1>1, <1>2, <1>3, <1>4, <1>5, <1>6, <1>7, <1>8, <1>9, <1>10 DEF ControllerStep

LEMMA ServiceMovesCall ==
    ASSUME Inv, TaskInv, NEW c \in Calls, ServiceStep(c)
    PROVE  Moves(c) /\ ServiceTypes'
<1> USE DEF stores, requests, service, controller, Lanes, SetJob, Purged, Queued, Lanes
<1>0. ControlAt(c) /\ id[c] \in Ids \cup {0} /\ (op[c] # "none" => id[c] \in Ids)
  BY DEF TaskInv, Inv, RequestTypes, Asked
<1>1. CASE LoadClaim(c)
  <2>1. \A d \in Calls : d # c => Untouched(d)
    BY <1>1 DEF LoadClaim, Untouched, Inv, RequestTypes, TaskInv, ServiceTypes
  <2>2. ControlAt(c)'
    BY <1>0, <1>1 DEF LoadClaim, ControlAt, CreatingAt, DeletingAt, Inv, RequestTypes, Asked, TaskInv, ServiceTypes
  <2>3. ServiceTypes'
    BY <1>0, <1>1 DEF LoadClaim, TaskInv, ServiceTypes
  <2> QED
    BY <2>1, <2>2, <2>3 DEF Moves
<1>2. CASE LoadRefused(c)
  <2>1. \A d \in Calls : d # c => Untouched(d)
    BY <1>2 DEF LoadRefused, Untouched, Inv, RequestTypes, TaskInv, ServiceTypes
  <2>2. ControlAt(c)'
    BY <1>0, <1>2 DEF LoadRefused, ControlAt, CreatingAt, DeletingAt, Inv, RequestTypes, Asked, TaskInv, ServiceTypes
  <2>3. ServiceTypes'
    BY <1>0, <1>2 DEF LoadRefused, TaskInv, ServiceTypes
  <2> QED
    BY <2>1, <2>2, <2>3 DEF Moves
<1>3. CASE LoadAccepted(c)
  <2>1. \A d \in Calls : d # c => Untouched(d)
    BY <1>3 DEF LoadAccepted, Untouched, Inv, RequestTypes, TaskInv, ServiceTypes
  <2>2. ControlAt(c)'
    BY <1>0, <1>3 DEF LoadAccepted, ControlAt, CreatingAt, DeletingAt, Inv, RequestTypes, Asked, TaskInv, ServiceTypes
  <2>3. ServiceTypes'
    BY <1>0, <1>3 DEF LoadAccepted, TaskInv, ServiceTypes
  <2> QED
    BY <2>1, <2>2, <2>3 DEF Moves
<1>4. CASE StorePrimary(c)
  <2>1. \A d \in Calls : d # c => Untouched(d)
    BY <1>4 DEF StorePrimary, Untouched, Inv, RequestTypes, TaskInv, ServiceTypes
  <2>2. ControlAt(c)'
    BY <1>0, <1>4 DEF StorePrimary, ControlAt, CreatingAt, DeletingAt, Inv, RequestTypes, Asked, TaskInv, ServiceTypes
  <2>3. ServiceTypes'
    BY <1>0, <1>4 DEF StorePrimary, TaskInv, ServiceTypes
  <2> QED
    BY <2>1, <2>2, <2>3 DEF Moves
<1>5. CASE StoreCache(c)
  <2>1. \A d \in Calls : d # c => Untouched(d)
    BY <1>5 DEF StoreCache, Untouched, Inv, RequestTypes, TaskInv, ServiceTypes
  <2>2. ControlAt(c)'
    BY <1>0, <1>5 DEF StoreCache, ControlAt, CreatingAt, DeletingAt, Inv, RequestTypes, Asked, TaskInv, ServiceTypes
  <2>3. ServiceTypes'
    BY <1>0, <1>5 DEF StoreCache, TaskInv, ServiceTypes
  <2> QED
    BY <2>1, <2>2, <2>3 DEF Moves
<1>6. CASE DeleteAccepted(c)
  <2>1. \A d \in Calls : d # c => Untouched(d)
    BY <1>6 DEF DeleteAccepted, Untouched, Inv, RequestTypes, TaskInv, ServiceTypes
  <2>2. ControlAt(c)'
    BY <1>0, <1>6 DEF DeleteAccepted, ControlAt, CreatingAt, DeletingAt, Inv, RequestTypes, Asked, TaskInv, ServiceTypes
  <2>3. ServiceTypes'
    BY <1>0, <1>6 DEF DeleteAccepted, TaskInv, ServiceTypes
  <2> QED
    BY <2>1, <2>2, <2>3 DEF Moves
<1>7. CASE PurgePrimary(c)
  <2>1. \A d \in Calls : d # c => Untouched(d)
    BY <1>7 DEF PurgePrimary, Untouched, Inv, RequestTypes, TaskInv, ServiceTypes
  <2>2. ControlAt(c)'
    BY <1>0, <1>7 DEF PurgePrimary, ControlAt, CreatingAt, DeletingAt, Inv, RequestTypes, Asked, TaskInv, ServiceTypes
  <2>3. ServiceTypes'
    BY <1>0, <1>7 DEF PurgePrimary, TaskInv, ServiceTypes
  <2> QED
    BY <2>1, <2>2, <2>3 DEF Moves
<1>8. CASE PurgeCache(c)
  <2>1. \A d \in Calls : d # c => Untouched(d)
    BY <1>8 DEF PurgeCache, Untouched, Inv, RequestTypes, TaskInv, ServiceTypes
  <2>2. ControlAt(c)'
    BY <1>0, <1>8 DEF PurgeCache, ControlAt, CreatingAt, DeletingAt, Inv, RequestTypes, Asked, TaskInv, ServiceTypes
  <2>3. ServiceTypes'
    <3>1. docs' \in [Ids -> SUBSET {"new", "shown"}]
      BY <1>8 DEF PurgeCache, TaskInv, ServiceTypes
    <3>2. job' \in [Calls -> [Lanes -> {"none", "queued", "index", "done", "failed"}]]
      BY <1>8 DEF PurgeCache, TaskInv, ServiceTypes
    <3> QED
      BY <1>8, <3>1, <3>2 DEF PurgeCache, TaskInv, ServiceTypes
  <2> QED
    BY <2>1, <2>2, <2>3 DEF Moves
<1>9. CASE PurgeFailed(c)
  <2>1. \A d \in Calls : d # c => Untouched(d)
    BY <1>9 DEF PurgeFailed, Untouched, Inv, RequestTypes, TaskInv, ServiceTypes
  <2>2. ControlAt(c)'
    BY <1>0, <1>9 DEF PurgeFailed, ControlAt, CreatingAt, DeletingAt, Inv, RequestTypes, Asked, TaskInv, ServiceTypes
  <2>3. ServiceTypes'
    BY <1>0, <1>9 DEF PurgeFailed, TaskInv, ServiceTypes
  <2> QED
    BY <2>1, <2>2, <2>3 DEF Moves
<1>10. CASE DoDeleteLook(c)
  <2>1. \A d \in Calls : d # c => Untouched(d)
    BY <1>10 DEF DoDeleteLook, Untouched, Inv, RequestTypes, TaskInv, ServiceTypes
  <2>2. ControlAt(c)'
    BY <1>0, <1>10 DEF DoDeleteLook, ControlAt, CreatingAt, DeletingAt, Inv, RequestTypes, Asked, TaskInv, ServiceTypes
  <2>3. ServiceTypes'
    BY <1>0, <1>10 DEF DoDeleteLook, TaskInv, ServiceTypes
  <2> QED
    BY <2>1, <2>2, <2>3 DEF Moves
<1>11. CASE DoDeleteRemove(c)
  <2>1. \A d \in Calls : d # c => Untouched(d)
    BY <1>11 DEF DoDeleteRemove, Untouched, Inv, RequestTypes, TaskInv, ServiceTypes
  <2>2. ControlAt(c)'
    BY <1>0, <1>11 DEF DoDeleteRemove, ControlAt, CreatingAt, DeletingAt, Inv, RequestTypes, Asked, TaskInv, ServiceTypes
  <2>3. ServiceTypes'
    BY <1>0, <1>11 DEF DoDeleteRemove, TaskInv, ServiceTypes
  <2> QED
    BY <2>1, <2>2, <2>3 DEF Moves
<1>12. CASE FillRead(c)
  <2>1. \A d \in Calls : d # c => Untouched(d)
    BY <1>12 DEF FillRead, Untouched, Inv, RequestTypes, TaskInv, ServiceTypes
  <2>2. ControlAt(c)'
    BY <1>0, <1>12 DEF FillRead, ControlAt, CreatingAt, DeletingAt, Inv, RequestTypes, Asked, TaskInv, ServiceTypes
  <2>3. ServiceTypes'
    BY <1>0, <1>12 DEF FillRead, TaskInv, ServiceTypes
  <2> QED
    BY <2>1, <2>2, <2>3 DEF Moves
<1>13. CASE FillIndex(c)
  <2>1. \A d \in Calls : d # c => Untouched(d)
    BY <1>13 DEF FillIndex, Untouched, Inv, RequestTypes, TaskInv, ServiceTypes
  <2>2. ControlAt(c)'
    BY <1>0, <1>13 DEF FillIndex, ControlAt, CreatingAt, DeletingAt, Inv, RequestTypes, Asked, TaskInv, ServiceTypes
  <2>3. ServiceTypes'
    BY <1>0, <1>13 DEF FillIndex, TaskInv, ServiceTypes
  <2> QED
    BY <2>1, <2>2, <2>3 DEF Moves
<1> QED
  BY <1>1, <1>2, <1>3, <1>4, <1>5, <1>6, <1>7, <1>8, <1>9, <1>10, <1>11, <1>12, <1>13 DEF ServiceStep

-----------------------------------------------------------------------------
(* Who accounts for what is stored of a record and for a record that is    *)
(* gone, when a call moves.                                                *)

Remains(c) == pc[c] # "idle" => op'[c] = op[c] /\ id'[c] = id[c] /\ pc'[c] # "idle"

\* What the record and its fingerprint lose, or do not have yet, is excused.
LossIsExcused(c) ==
    /\ \A r \in Ids : records[r] = "none" /\ records'[r] # "none" => Excused(c, r)'
    /\ \A r \in Ids : rows[r] = {"print"} => rows'[r] = {"print"} \/ Excused(c, r)'

ExcuseLasts(c) ==
    \A r \in Ids : Excused(c, r) =>
       \/ rows'[r] = {"print"} \/ Excused(c, r)'
       \/ id'[c] = r /\ chief'[c] \in {"over", "absent"}

GoneIsRemoved(c) ==
    /\ \A r \in Ids : Removed(c, r) => Removed(c, r)'
    /\ \A r \in Ids : records[r] # "gone" /\ records'[r] = "gone" => Removed(c, r)'

EndIsGone(c) ==
    chief'[c] \in {"over", "absent"} =>
       id'[c] = id[c] /\ (chief'[c] = chief[c] \/ records'[id[c]] = "gone")

Accounts(c) == Remains(c) /\ LossIsExcused(c) /\ ExcuseLasts(c) /\ GoneIsRemoved(c) /\ EndIsGone(c)

LEMMA ArrivalAccounts ==
    ASSUME Inv, TaskInv, NEW c \in Calls,
           Create(c) \/ \E r \in Known : Delete(c, r) \/ Update(c, r) \/ Find(c, r)
    PROVE  Accounts(c)
<1> USE DEF Ask, stores, service
<1>0. /\ pc[c] = "idle" /\ op[c] = "none" /\ ControlAt(c)
  BY DEF Inv, Asked, TaskInv, Create, Delete, Update, Find
<1>1. job[c]["primary"] = "none" /\ chief[c] = "none" /\ \A r \in Ids : ~Excused(c, r) /\ ~Removed(c, r)
  BY <1>0 DEF ControlAt, Excused, Removed
<1>2. CASE Create(c)
  <2>1. PICK state \in {"visible", "hidden"} : SetRecord(Cardinality(Known) + 1, state)
    BY <1>2 DEF Create
  <2>2. op'[c] = "create" /\ id'[c] = Cardinality(Known) + 1
    BY <1>2 DEF Create, Inv, RequestTypes
  <2>3. UNCHANGED <<rows, job, chief>>
    BY <1>2 DEF Create
  <2> QED
    BY <1>0, <1>1, <2>1, <2>2, <2>3 DEF Accounts, Remains, LossIsExcused, ExcuseLasts, GoneIsRemoved, EndIsGone, Excused,
       SetRecord, Inv, RequestTypes
<1>3. ASSUME NEW r \in Known, Delete(c, r) \/ Update(c, r) \/ Find(c, r) PROVE Accounts(c)
  <2>1. UNCHANGED <<records, rows, job, chief>>
    BY <1>3 DEF Delete, Update, Find
  <2> QED
    BY <1>0, <1>1, <2>1 DEF Accounts, Remains, LossIsExcused, ExcuseLasts, GoneIsRemoved, EndIsGone
<1> QED
  BY <1>2, <1>3

LEMMA ControllerAccounts ==
    ASSUME Inv, TaskInv, NEW c \in Calls, ControllerStep(c) \/ GiveUp(c)
    PROVE  Accounts(c)
<1> USE DEF Goto, Reply, SetRecord, Exists, stores, requests, service, SetJob
<1>0. ControlAt(c)
  BY DEF TaskInv
<1>1. CASE PostReturns(c)
  BY <1>0, <1>1
     DEF PostReturns, Accounts, Remains, LossIsExcused, ExcuseLasts, GoneIsRemoved, EndIsGone, Excused, Removed,
         Inv, RequestTypes, Asked, TaskInv, ServiceTypes
<1>2. CASE GiveUp(c)
  BY <1>0, <1>2
     DEF GiveUp, Accounts, Remains, LossIsExcused, ExcuseLasts, GoneIsRemoved, EndIsGone, Excused, Removed,
         Inv, RequestTypes, Asked, TaskInv, ServiceTypes
<1>3. CASE Undo(c)
  <2> USE <1>3 DEF Undo
  <2>1. Remains(c)
    BY DEF Remains, Inv, RequestTypes, Asked, TaskInv, ServiceTypes
  <2>2. LossIsExcused(c)
    BY <1>0 DEF LossIsExcused, Excused, Inv, RequestTypes, Asked, TaskInv, ServiceTypes
  <2>3. ExcuseLasts(c)
    BY <1>0 DEF ExcuseLasts, Excused, Inv, RequestTypes, Asked, TaskInv, ServiceTypes
  <2>4. GoneIsRemoved(c)
    <3>1. op[c] = "create" /\ UNCHANGED <<op, id>> /\ pc[c] = "undo"
      BY <1>0 DEF ControlAt
    <3>2. pc'[c] = "over" /\ answer'[c] # 201
      BY DEF Inv, RequestTypes
    <3>3. \A r \in Ids : r # id[c] => records'[r] = records[r]
      BY DEF Inv, RequestTypes
    <3> HIDE DEF Undo
    <3> QED
      BY <3>1, <3>2, <3>3 DEF GoneIsRemoved, Removed
  <2>5. EndIsGone(c)
    BY <1>0 DEF EndIsGone, Inv, RequestTypes, Asked, TaskInv, ServiceTypes
  <2> QED
    BY <2>1, <2>2, <2>3, <2>4, <2>5 DEF Accounts
<1>4. CASE Hide(c)
  BY <1>0, <1>4
     DEF Hide, Accounts, Remains, LossIsExcused, ExcuseLasts, GoneIsRemoved, EndIsGone, Excused, Removed,
         Inv, RequestTypes, Asked, TaskInv, ServiceTypes
<1>5. CASE HideRefused(c)
  BY <1>0, <1>5
     DEF HideRefused, Accounts, Remains, LossIsExcused, ExcuseLasts, GoneIsRemoved, EndIsGone, Excused, Removed,
         Inv, RequestTypes, Asked, TaskInv, ServiceTypes
<1>6. CASE Write(c)
  BY <1>0, <1>6
     DEF Write, Accounts, Remains, LossIsExcused, ExcuseLasts, GoneIsRemoved, EndIsGone, Excused, Removed,
         Inv, RequestTypes, Asked, TaskInv, ServiceTypes
<1>7. CASE SearchCache(c)
  BY <1>0, <1>7
     DEF SearchCache, Accounts, Remains, LossIsExcused, ExcuseLasts, GoneIsRemoved, EndIsGone, Excused, Removed,
         Inv, RequestTypes, Asked, TaskInv, ServiceTypes
<1>8. CASE SearchFails(c)
  BY <1>0, <1>8
     DEF SearchFails, Accounts, Remains, LossIsExcused, ExcuseLasts, GoneIsRemoved, EndIsGone, Excused, Removed,
         Inv, RequestTypes, Asked, TaskInv, ServiceTypes
<1>9. CASE SearchPrimary(c)
  <2> USE <1>9 DEF SearchPrimary
  <2>1. Remains(c)
    BY DEF Remains, Inv, RequestTypes, Asked, TaskInv, ServiceTypes
  <2>2. LossIsExcused(c)
    BY <1>0 DEF LossIsExcused, Excused, Inv, RequestTypes, Asked, TaskInv, ServiceTypes
  <2>3. ExcuseLasts(c)
    <3>1. op[c] = "find"
      BY DEF Inv, Asked, Searching
    <3> QED
      BY <3>1 DEF ExcuseLasts, Excused
  <2>4. GoneIsRemoved(c)
    BY <1>0 DEF GoneIsRemoved, Removed, Inv, RequestTypes, Asked, TaskInv, ServiceTypes
  <2>5. EndIsGone(c)
    BY <1>0 DEF EndIsGone, Inv, RequestTypes, Asked, TaskInv, ServiceTypes
  <2> QED
    BY <2>1, <2>2, <2>3, <2>4, <2>5 DEF Accounts
<1>10. CASE Show(c)
  BY <1>0, <1>10
     DEF Show, Accounts, Remains, LossIsExcused, ExcuseLasts, GoneIsRemoved, EndIsGone, Excused, Removed,
         Inv, RequestTypes, Asked, TaskInv, ServiceTypes
<1> QED
  BY <1>1, <1>2, <1>3, <1>4, <1>5, <1>6, <1>7, <1>8, <1>9, <1>10 DEF ControllerStep

LEMMA ServiceAccounts ==
    ASSUME Inv, TaskInv, NEW c \in Calls, ServiceStep(c)
    PROVE  Accounts(c)
<1> USE DEF stores, requests, controller, SetJob, SetRecord, Exists, Lanes, Queued, SeenByDoDelete
<1>0. /\ ControlAt(c) /\ CreatingAt(c) /\ DeletingAt(c)
      /\ op[c] # "none" => id[c] \in Ids /\ records[id[c]] # "none"
  BY DEF TaskInv, ControlAt, Inv, RequestTypes, Asked
<1>1. CASE LoadClaim(c)
  <2> USE <1>1 DEF LoadClaim
  <2>1. Remains(c)
    BY DEF Remains, Inv, RequestTypes, Asked, TaskInv, ServiceTypes
  <2>2. LossIsExcused(c)
    <3>1. UNCHANGED records /\ rows[id[c]] = {} /\ \A r \in Ids : r # id[c] => rows'[r] = rows[r]
      BY DEF TaskInv, ServiceTypes
    <3> HIDE DEF LoadClaim
    <3> QED
      BY <3>1 DEF LossIsExcused
  <2>3. ExcuseLasts(c)
    BY <1>0 DEF ExcuseLasts, Excused, Inv, RequestTypes, Asked, TaskInv, ServiceTypes
  <2>4. GoneIsRemoved(c)
    BY <1>0 DEF GoneIsRemoved, Removed, Inv, RequestTypes, Asked, TaskInv, ServiceTypes
  <2>5. EndIsGone(c)
    BY <1>0 DEF EndIsGone, Inv, RequestTypes, Asked, TaskInv, ServiceTypes
  <2> QED
    BY <2>1, <2>2, <2>3, <2>4, <2>5 DEF Accounts
<1>2. CASE LoadRefused(c)
  BY <1>0, <1>2
     DEF LoadRefused, Accounts, Remains, LossIsExcused, ExcuseLasts, GoneIsRemoved, EndIsGone, Excused, Removed,
         Inv, RequestTypes, Asked, TaskInv, ServiceTypes
<1>3. CASE LoadAccepted(c)
  BY <1>0, <1>3
     DEF LoadAccepted, Accounts, Remains, LossIsExcused, ExcuseLasts, GoneIsRemoved, EndIsGone, Excused, Removed,
         Inv, RequestTypes, Asked, TaskInv, ServiceTypes
<1>4. CASE StorePrimary(c)
  BY <1>0, <1>4
     DEF StorePrimary, Accounts, Remains, LossIsExcused, ExcuseLasts, GoneIsRemoved, EndIsGone, Excused, Removed,
         Inv, RequestTypes, Asked, TaskInv, ServiceTypes
<1>5. CASE StoreCache(c)
  BY <1>0, <1>5
     DEF StoreCache, Accounts, Remains, LossIsExcused, ExcuseLasts, GoneIsRemoved, EndIsGone, Excused, Removed,
         Inv, RequestTypes, Asked, TaskInv, ServiceTypes
<1>6. CASE DeleteAccepted(c)
  <2> USE <1>6 DEF DeleteAccepted
  <2>1. Remains(c)
    BY DEF Remains, Inv, RequestTypes, Asked, TaskInv, ServiceTypes
  <2>2. LossIsExcused(c)
    BY <1>0 DEF LossIsExcused, Excused, Inv, RequestTypes, Asked, TaskInv, ServiceTypes
  <2>3. ExcuseLasts(c)
    BY <1>0 DEF ExcuseLasts, Excused, Inv, RequestTypes, Asked, TaskInv, ServiceTypes
  <2>4. GoneIsRemoved(c)
    <3>1. UNCHANGED records /\ op[c] = "delete" /\ chief[c] = "none"
      BY <1>0 DEF DeletingAt
    <3> QED
      BY <3>1 DEF GoneIsRemoved, Removed
  <2>5. EndIsGone(c)
    BY <1>0 DEF EndIsGone, Inv, RequestTypes, Asked, TaskInv, ServiceTypes
  <2> QED
    BY <2>1, <2>2, <2>3, <2>4, <2>5 DEF Accounts
<1>7. CASE PurgePrimary(c)
  <2> USE <1>7 DEF PurgePrimary
  <2>1. Remains(c)
    BY DEF Remains, Inv, RequestTypes, Asked, TaskInv, ServiceTypes
  <2>2. LossIsExcused(c)
    <3>1. UNCHANGED <<records, op, id, chief>> /\ op[c] = "delete" /\ chief[c] \in {"purge", "failed"}
      BY <1>0 DEF DeletingAt, Purged, TaskInv, ServiceTypes
    <3>2. \A r \in Ids : r # id[c] => rows'[r] = rows[r]
      BY DEF TaskInv, ServiceTypes
    <3> HIDE DEF PurgePrimary
    <3> QED
      BY <3>1, <3>2 DEF LossIsExcused, Excused
  <2>3. ExcuseLasts(c)
    BY <1>0 DEF ExcuseLasts, Excused, Inv, RequestTypes, Asked, TaskInv, ServiceTypes
  <2>4. GoneIsRemoved(c)
    BY <1>0 DEF GoneIsRemoved, Removed, Inv, RequestTypes, Asked, TaskInv, ServiceTypes
  <2>5. EndIsGone(c)
    BY <1>0 DEF EndIsGone, Inv, RequestTypes, Asked, TaskInv, ServiceTypes
  <2> QED
    BY <2>1, <2>2, <2>3, <2>4, <2>5 DEF Accounts
<1>8. CASE PurgeCache(c)
  BY <1>0, <1>8
     DEF PurgeCache, Accounts, Remains, LossIsExcused, ExcuseLasts, GoneIsRemoved, EndIsGone, Excused, Removed,
         Inv, RequestTypes, Asked, TaskInv, ServiceTypes
<1>9. CASE PurgeFailed(c)
  BY <1>0, <1>9
     DEF PurgeFailed, Accounts, Remains, LossIsExcused, ExcuseLasts, GoneIsRemoved, EndIsGone, Excused, Removed,
         Inv, RequestTypes, Asked, TaskInv, ServiceTypes
<1>10. CASE DoDeleteLook(c)
  <2> USE <1>10 DEF DoDeleteLook
  <2>1. Remains(c)
    BY DEF Remains, Inv, RequestTypes, Asked, TaskInv, ServiceTypes
  <2>2. LossIsExcused(c)
    BY <1>0 DEF LossIsExcused, Excused, Inv, RequestTypes, Asked, TaskInv, ServiceTypes
  <2>3. ExcuseLasts(c)
    BY <1>0 DEF ExcuseLasts, Excused, Inv, RequestTypes, Asked, TaskInv, ServiceTypes
  <2>4. GoneIsRemoved(c)
    BY <1>0 DEF GoneIsRemoved, Removed, Inv, RequestTypes, Asked, TaskInv, ServiceTypes
  <2>5. EndIsGone(c)
    <3>1. records[id[c]] \in {"none", "visible", "hidden", "gone"} /\ op[c] # "none"
      BY <1>0 DEF Inv, RequestTypes, ControlAt
    <3>2. UNCHANGED <<records, id>> /\ (chief'[c] \in {"over", "absent"} => ~Exists(id[c]))
      BY DEF TaskInv, ServiceTypes
    <3> HIDE DEF DoDeleteLook
    <3> QED
      BY <1>0, <3>1, <3>2 DEF EndIsGone
  <2> QED
    BY <2>1, <2>2, <2>3, <2>4, <2>5 DEF Accounts
<1>11. CASE DoDeleteRemove(c)
  <2> USE <1>11 DEF DoDeleteRemove
  <2>1. Remains(c)
    BY DEF Remains, Inv, RequestTypes, Asked, TaskInv, ServiceTypes
  <2>2. LossIsExcused(c)
    BY <1>0 DEF LossIsExcused, Excused, Inv, RequestTypes, Asked, TaskInv, ServiceTypes
  <2>3. ExcuseLasts(c)
    BY <1>0 DEF ExcuseLasts, Excused, Inv, RequestTypes, Asked, TaskInv, ServiceTypes
  <2>4. GoneIsRemoved(c)
    <3>1. op[c] = "delete" /\ UNCHANGED <<op, id, pc, answer>> /\ id[c] \in Ids /\ chief[c] = "remove"
      BY <1>0 DEF ControlAt, CreatingAt
    <3>2. \A r \in Ids : records'[r] # records[r] => r = id[c] /\ chief'[c] = "over"
      BY DEF Inv, RequestTypes, TaskInv, ServiceTypes
    <3> HIDE DEF DoDeleteRemove
    <3> QED
      BY <3>1, <3>2 DEF GoneIsRemoved, Removed
  <2>5. EndIsGone(c)
    <3>1. /\ op[c] # "none" /\ id[c] \in Ids /\ records[id[c]] # "none" /\ UNCHANGED id
          /\ records[id[c]] \in {"none", "visible", "hidden", "gone"}
      BY <1>0 DEF ControlAt, Inv, RequestTypes
    <3>2. CASE Exists(id[c])
      BY <3>1, <3>2 DEF EndIsGone, Inv, RequestTypes
    <3>3. CASE ~Exists(id[c])
      BY <3>1, <3>3 DEF EndIsGone
    <3> QED
      BY <3>2, <3>3
  <2> QED
    BY <2>1, <2>2, <2>3, <2>4, <2>5 DEF Accounts
<1>12. CASE FillRead(c)
  BY <1>0, <1>12
     DEF FillRead, Accounts, Remains, LossIsExcused, ExcuseLasts, GoneIsRemoved, EndIsGone, Excused, Removed,
         Inv, RequestTypes, Asked, TaskInv, ServiceTypes
<1>13. CASE FillIndex(c)
  BY <1>0, <1>13
     DEF FillIndex, Accounts, Remains, LossIsExcused, ExcuseLasts, GoneIsRemoved, EndIsGone, Excused, Removed,
         Inv, RequestTypes, Asked, TaskInv, ServiceTypes
<1> QED
  BY <1>1, <1>2, <1>3, <1>4, <1>5, <1>6, <1>7, <1>8, <1>9, <1>10, <1>11, <1>12, <1>13 DEF ServiceStep

-----------------------------------------------------------------------------
(* What a step may bring back of a fingerprint.                            *)

LoadingBy(c, r) ==
    /\ op[c] = "create" /\ id[c] = r
    /\ remote[c] \in {"sent", "claimed"} \/ job[c]["primary"] = "queued" \/ job[c]["cache"] = "queued"
FillingBy(c, r) == fill[c] = r /\ job[c]["cache"] = "index"

\* A load is begun for a new record only, a cache fill of something stored,
\* and not unnoticed while the song is being deleted.
LoadsNothing(c) ==
    \A r \in Ids : records[r] # "none" /\ LoadingBy(c, r)' => LoadingBy(c, r)
FillsNoticed(c) ==
    /\ unquiet \subseteq unquiet'
    /\ \A r \in Ids : FillingBy(c, r)' =>
          FillingBy(c, r) \/ (rows[r] # {} /\ (Deleting(r) => r \in unquiet'))

StoresNothing(c) ==
    /\ \A r \in Ids : "new" \in docs'[r] => "new" \in docs[r] \/ LoadingBy(c, r) \/ FillingBy(c, r)
    /\ \A r \in Ids : "shown" \in docs'[r] => "shown" \in docs[r]
    /\ \A r \in Ids : rows[r] = {} => rows'[r] = {} \/ LoadingBy(c, r)

\* A task of a deletion that has succeeded has removed something.
PurgesIt(c) ==
    chief'[c] \in {"purge", "remove", "over"} =>
       \/ DeleteAccepted(c)
       \/ /\ chief[c] \in {"purge", "remove", "over"} /\ id'[c] = id[c]
          /\ job'[c]["primary"] = "done" => job[c]["primary"] = "done" \/ rows'[id[c]] = {}
          /\ job'[c]["cache"] = "done" => job[c]["cache"] = "done" \/ "shown" \notin docs'[id[c]]

Quiets(c) == LoadsNothing(c) /\ FillsNoticed(c) /\ StoresNothing(c) /\ PurgesIt(c)

LEMMA ArrivalQuiets ==
    ASSUME Inv, TaskInv, NEW c \in Calls,
           Create(c) \/ \E r \in Known : Delete(c, r) \/ Update(c, r) \/ Find(c, r)
    PROVE  Quiets(c)
<1> USE DEF Ask, stores, service
<1>0. op[c] = "none" /\ pc[c] = "idle" /\ ControlAt(c)
  BY DEF Inv, Asked, TaskInv, Create, Delete, Update, Find
<1>1. /\ chief[c] = "none" /\ job[c]["primary"] = "none" /\ job[c]["cache"] = "none"
  BY <1>0 DEF ControlAt
<1>2. CASE Create(c)
  <2>1. UNCHANGED <<rows, docs, job, chief, fill, unquiet>>
    BY <1>2 DEF Create
  <2>2. PICK n \in 0 .. MaxId : \A r \in Ids : records[r] = "none" <=> n < r
    BY DEF Inv, Given
  <2>3. id'[c] = n + 1
    BY <1>2, <2>2, IdIsFresh DEF Create, Inv, RequestTypes
  <2>4. \A r \in Ids : records[r] # "none" => id'[c] # r
    BY <2>2, <2>3 DEF Ids
  <2> QED
    BY <1>1, <2>1, <2>4
       DEF Quiets, LoadsNothing, LoadingBy, FillsNoticed, FillingBy, StoresNothing, PurgesIt
<1>3. ASSUME NEW r \in Known, Delete(c, r) \/ Update(c, r) \/ Find(c, r) PROVE Quiets(c)
  <2>1. UNCHANGED <<rows, docs, job, chief, fill, unquiet>> /\ op'[c] # "create"
    <3>1. CASE Delete(c, r)
      BY <3>1 DEF Delete, Inv, RequestTypes
    <3>2. CASE Update(c, r)
      BY <3>2 DEF Update, Inv, RequestTypes
    <3>3. CASE Find(c, r)
      BY <3>3 DEF Find, Inv, RequestTypes
    <3> QED
      BY <1>3, <3>1, <3>2, <3>3
  <2> QED
    BY <1>1, <2>1
       DEF Quiets, LoadsNothing, LoadingBy, FillsNoticed, FillingBy, StoresNothing, PurgesIt
<1> QED
  BY <1>2, <1>3

LEMMA ControllerQuiets ==
    ASSUME Inv, TaskInv, NEW c \in Calls, ControllerStep(c) \/ GiveUp(c)
    PROVE  Quiets(c)
<1> USE DEF Goto, stores, requests, service, SetJob, Lanes
<1>0. ControlAt(c)
  BY DEF TaskInv
<1>1. CASE PostReturns(c)
  BY <1>0, <1>1
     DEF PostReturns, Quiets, LoadsNothing, LoadingBy, FillsNoticed, FillingBy, StoresNothing, PurgesIt,
         Inv, RequestTypes, Asked, TaskInv, ServiceTypes
<1>2. CASE GiveUp(c)
  BY <1>0, <1>2
     DEF GiveUp, Quiets, LoadsNothing, LoadingBy, FillsNoticed, FillingBy, StoresNothing, PurgesIt,
         Inv, RequestTypes, Asked, TaskInv, ServiceTypes
<1>3. CASE Undo(c)
  BY <1>0, <1>3
     DEF Undo, Quiets, LoadsNothing, LoadingBy, FillsNoticed, FillingBy, StoresNothing, PurgesIt,
         Inv, RequestTypes, Asked, TaskInv, ServiceTypes
<1>4. CASE Hide(c)
  BY <1>0, <1>4
     DEF Hide, Quiets, LoadsNothing, LoadingBy, FillsNoticed, FillingBy, StoresNothing, PurgesIt,
         Inv, RequestTypes, Asked, TaskInv, ServiceTypes
<1>5. CASE HideRefused(c)
  BY <1>0, <1>5
     DEF HideRefused, Quiets, LoadsNothing, LoadingBy, FillsNoticed, FillingBy, StoresNothing, PurgesIt,
         Inv, RequestTypes, Asked, TaskInv, ServiceTypes
<1>6. CASE Write(c)
  BY <1>0, <1>6
     DEF Write, Quiets, LoadsNothing, LoadingBy, FillsNoticed, FillingBy, StoresNothing, PurgesIt,
         Inv, RequestTypes, Asked, TaskInv, ServiceTypes
<1>7. CASE SearchCache(c)
  BY <1>0, <1>7
     DEF SearchCache, Quiets, LoadsNothing, LoadingBy, FillsNoticed, FillingBy, StoresNothing, PurgesIt,
         Inv, RequestTypes, Asked, TaskInv, ServiceTypes
<1>8. CASE SearchFails(c)
  BY <1>0, <1>8
     DEF SearchFails, Quiets, LoadsNothing, LoadingBy, FillsNoticed, FillingBy, StoresNothing, PurgesIt,
         Inv, RequestTypes, Asked, TaskInv, ServiceTypes
<1>9. CASE SearchPrimary(c)
  <2> USE <1>9 DEF SearchPrimary
  <2>1. LoadsNothing(c)
    <3>1. op[c] = "find" /\ UNCHANGED op
      BY DEF Inv, Asked, Searching
    <3> QED
      BY <3>1 DEF LoadsNothing, LoadingBy
  <2>2. FillsNoticed(c)
    BY <1>0 DEF FillsNoticed, FillingBy, Inv, RequestTypes, Asked, TaskInv, ServiceTypes
  <2>3. StoresNothing(c)
    BY <1>0 DEF StoresNothing, LoadingBy, FillingBy, Inv, RequestTypes, Asked, TaskInv, ServiceTypes
  <2>4. PurgesIt(c)
    BY <1>0 DEF PurgesIt, Inv, RequestTypes, Asked, TaskInv, ServiceTypes
  <2> QED
    BY <2>1, <2>2, <2>3, <2>4 DEF Quiets
<1>10. CASE Show(c)
  BY <1>0, <1>10
     DEF Show, Quiets, LoadsNothing, LoadingBy, FillsNoticed, FillingBy, StoresNothing, PurgesIt,
         Inv, RequestTypes, Asked, TaskInv, ServiceTypes
<1> QED
  BY <1>1, <1>2, <1>3, <1>4, <1>5, <1>6, <1>7, <1>8, <1>9, <1>10 DEF ControllerStep

LEMMA ServiceQuiets ==
    ASSUME Inv, TaskInv, NEW c \in Calls, ServiceStep(c)
    PROVE  Quiets(c)
<1> USE DEF stores, requests, controller, SetJob, Lanes, Queued
<1>0. /\ ControlAt(c) /\ CreatingAt(c) /\ DeletingAt(c)
      /\ op[c] # "none" => id[c] \in Ids
  BY DEF TaskInv, ControlAt, Inv, RequestTypes, Asked
<1>1. CASE LoadClaim(c)
  BY <1>0, <1>1
     DEF LoadClaim, Quiets, LoadsNothing, LoadingBy, FillsNoticed, FillingBy, StoresNothing, PurgesIt,
         Inv, RequestTypes, Asked, TaskInv, ServiceTypes
<1>2. CASE LoadRefused(c)
  BY <1>0, <1>2
     DEF LoadRefused, Quiets, LoadsNothing, LoadingBy, FillsNoticed, FillingBy, StoresNothing, PurgesIt,
         Inv, RequestTypes, Asked, TaskInv, ServiceTypes
<1>3. CASE LoadAccepted(c)
  BY <1>0, <1>3
     DEF LoadAccepted, Quiets, LoadsNothing, LoadingBy, FillsNoticed, FillingBy, StoresNothing, PurgesIt,
         Inv, RequestTypes, Asked, TaskInv, ServiceTypes
<1>4. CASE StorePrimary(c)
  <2> USE <1>4 DEF StorePrimary
  <2>1. LoadsNothing(c)
    BY <1>0 DEF LoadsNothing, LoadingBy, Inv, RequestTypes, Asked, TaskInv, ServiceTypes
  <2>2. FillsNoticed(c)
    BY <1>0 DEF FillsNoticed, FillingBy, Inv, RequestTypes, Asked, TaskInv, ServiceTypes
  <2>3. StoresNothing(c)
    BY <1>0 DEF StoresNothing, LoadingBy, FillingBy, Inv, RequestTypes, Asked, TaskInv, ServiceTypes
  <2>4. PurgesIt(c)
    <3>1. op[c] = "create" /\ UNCHANGED chief /\ chief[c] = "none"
      BY <1>0 DEF ControlAt, CreatingAt
    <3> QED
      BY <3>1 DEF PurgesIt
  <2> QED
    BY <2>1, <2>2, <2>3, <2>4 DEF Quiets
<1>5. CASE StoreCache(c)
  <2> USE <1>5 DEF StoreCache
  <2>1. LoadsNothing(c)
    BY <1>0 DEF LoadsNothing, LoadingBy, Inv, RequestTypes, Asked, TaskInv, ServiceTypes
  <2>2. FillsNoticed(c)
    BY <1>0 DEF FillsNoticed, FillingBy, Inv, RequestTypes, Asked, TaskInv, ServiceTypes
  <2>3. StoresNothing(c)
    BY <1>0 DEF StoresNothing, LoadingBy, FillingBy, Inv, RequestTypes, Asked, TaskInv, ServiceTypes
  <2>4. PurgesIt(c)
    <3>1. op[c] = "create" /\ UNCHANGED chief /\ chief[c] = "none"
      BY <1>0 DEF ControlAt, CreatingAt
    <3> QED
      BY <3>1 DEF PurgesIt
  <2> QED
    BY <2>1, <2>2, <2>3, <2>4 DEF Quiets
<1>6. CASE DeleteAccepted(c)
  BY <1>0, <1>6
     DEF DeleteAccepted, Quiets, LoadsNothing, LoadingBy, FillsNoticed, FillingBy, StoresNothing, PurgesIt,
         Inv, RequestTypes, Asked, TaskInv, ServiceTypes
<1>7. CASE PurgePrimary(c)
  BY <1>0, <1>7
     DEF PurgePrimary, Quiets, LoadsNothing, LoadingBy, FillsNoticed, FillingBy, StoresNothing, PurgesIt,
         Inv, RequestTypes, Asked, TaskInv, ServiceTypes
<1>8. CASE PurgeCache(c)
  <2> USE <1>8 DEF PurgeCache
  <2>1. LoadsNothing(c)
    BY <1>0 DEF LoadsNothing, LoadingBy, Inv, RequestTypes, Asked, TaskInv, ServiceTypes
  <2>2. FillsNoticed(c)
    BY <1>0 DEF FillsNoticed, FillingBy, Inv, RequestTypes, Asked, TaskInv, ServiceTypes
  <2>3. StoresNothing(c)
    <3>1. UNCHANGED rows /\ \A r \in Ids : docs'[r] \subseteq docs[r]
      BY DEF TaskInv, ServiceTypes
    <3> HIDE DEF PurgeCache
    <3> QED
      BY <3>1 DEF StoresNothing
  <2>4. PurgesIt(c)
    BY <1>0 DEF PurgesIt, Inv, RequestTypes, Asked, TaskInv, ServiceTypes
  <2> QED
    BY <2>1, <2>2, <2>3, <2>4 DEF Quiets
<1>9. CASE PurgeFailed(c)
  BY <1>0, <1>9
     DEF PurgeFailed, Quiets, LoadsNothing, LoadingBy, FillsNoticed, FillingBy, StoresNothing, PurgesIt,
         Inv, RequestTypes, Asked, TaskInv, ServiceTypes
<1>10. CASE DoDeleteLook(c)
  BY <1>0, <1>10
     DEF DoDeleteLook, Quiets, LoadsNothing, LoadingBy, FillsNoticed, FillingBy, StoresNothing, PurgesIt,
         Inv, RequestTypes, Asked, TaskInv, ServiceTypes
<1>11. CASE DoDeleteRemove(c)
  BY <1>0, <1>11
     DEF DoDeleteRemove, Quiets, LoadsNothing, LoadingBy, FillsNoticed, FillingBy, StoresNothing, PurgesIt,
         Inv, RequestTypes, Asked, TaskInv, ServiceTypes
<1>12. CASE FillRead(c)
  <2> USE <1>12 DEF FillRead
  <2>1. LoadsNothing(c)
    BY <1>0 DEF LoadsNothing, LoadingBy, Inv, RequestTypes, Asked, TaskInv, ServiceTypes
  <2>2. FillsNoticed(c)
    BY <1>0 DEF FillsNoticed, FillingBy, Inv, RequestTypes, Asked, TaskInv, ServiceTypes
  <2>3. StoresNothing(c)
    BY <1>0 DEF StoresNothing, LoadingBy, FillingBy, Inv, RequestTypes, Asked, TaskInv, ServiceTypes
  <2>4. PurgesIt(c)
    <3>1. op[c] = "find" /\ UNCHANGED chief /\ chief[c] = "none"
      BY <1>0 DEF ControlAt, CreatingAt
    <3> QED
      BY <3>1 DEF PurgesIt
  <2> QED
    BY <2>1, <2>2, <2>3, <2>4 DEF Quiets
<1>13. CASE FillIndex(c)
  <2> USE <1>13 DEF FillIndex
  <2>1. LoadsNothing(c)
    BY <1>0 DEF LoadsNothing, LoadingBy, Inv, RequestTypes, Asked, TaskInv, ServiceTypes
  <2>2. FillsNoticed(c)
    BY <1>0 DEF FillsNoticed, FillingBy, Inv, RequestTypes, Asked, TaskInv, ServiceTypes
  <2>3. StoresNothing(c)
    BY <1>0 DEF StoresNothing, LoadingBy, FillingBy, Inv, RequestTypes, Asked, TaskInv, ServiceTypes
  <2>4. PurgesIt(c)
    <3>1. UNCHANGED chief /\ job[c]["cache"] = "index"
      OBVIOUS
    <3>2. chief[c] = "none"
      BY <1>0, <3>1 DEF ControlAt, CreatingAt, DeletingAt
    <3> QED
      BY <3>1, <3>2 DEF PurgesIt
  <2> QED
    BY <2>1, <2>2, <2>3, <2>4 DEF Quiets
<1> QED
  BY <1>1, <1>2, <1>3, <1>4, <1>5, <1>6, <1>7, <1>8, <1>9, <1>10, <1>11, <1>12, <1>13 DEF ServiceStep

-----------------------------------------------------------------------------
LEMMA LoadingIsBySome ==
    ASSUME NEW r PROVE Loading(r) <=> \E c \in Calls : LoadingBy(c, r)
  BY DEF Loading, LoadingBy, Lanes

LEMMA FillingIsBySome ==
    ASSUME NEW r PROVE Filling(r) <=> \E c \in Calls : FillingBy(c, r)
  BY DEF Filling, FillingBy

\* A call that has tasks is about a record.
LEMMA TasksAreOfRecords ==
    ASSUME Inv, TaskInv, NEW c \in Calls, chief[c] # "none" \/ job[c]["primary"] # "none"
    PROVE  op[c] # "none" /\ pc[c] # "idle" /\ id[c] \in Ids /\ records[id[c]] # "none"
<1>1. ControlAt(c)
  BY DEF TaskInv
<1> QED
  BY <1>1 DEF ControlAt, Inv, Asked

\* A song that is being deleted, or has been, and quietly, stays quiet.
LEMMA SongStaysQuiet ==
    ASSUME Inv, TaskInv, NEW c \in Calls, \A e \in Calls : e # c => Untouched(e), Quiets(c),
           ServiceTypes',
           NEW d \in Calls, chief[d] \in {"purge", "remove", "over"},
           NEW r \in Ids, r = id[d], r \notin unquiet'
    PROVE  /\ ~Settling(r)'
           /\ rows[r] = {} => rows'[r] = {}
           /\ docs[r] = {} => docs'[r] = {}
           /\ "new" \notin docs'[r]
<1>1. records[r] # "none" /\ op[d] # "none"
  BY TasksAreOfRecords
<1>2. r \notin unquiet
  BY DEF Quiets, FillsNoticed
<1>3. QuietAt(d) /\ DeletingAt(d) /\ ControlAt(d) /\ CreatingAt(d)
  BY DEF TaskInv, ControlAt
<1>4. "new" \notin docs[r] /\ \A e \in Calls : ~LoadingBy(e, r) /\ ~FillingBy(e, r)
  BY <1>2, <1>3, LoadingIsBySome, FillingIsBySome DEF QuietAt, Settling
<1>5. ASSUME NEW e \in Calls PROVE ~LoadingBy(e, r)'
  <2>1. CASE e = c
    BY <1>1, <1>4, <2>1 DEF Quiets, LoadsNothing
  <2>2. CASE e # c
    BY <1>4, <2>2 DEF Untouched, LoadingBy
  <2> QED
    BY <2>1, <2>2
<1>6. rows[r] # {} => Deleting(r)
  <2> SUFFICES ASSUME rows[r] # {} PROVE chief[d] = "purge"
    BY DEF Deleting
  <2>1. ~Purged(d)
    BY <1>2, <1>3 DEF QuietAt, Purged, Lanes
  <2>2. op[d] = "delete"
    BY <1>3 DEF ControlAt, CreatingAt
  <2> QED
    BY <1>3, <2>1, <2>2 DEF DeletingAt
<1>7. ASSUME NEW e \in Calls PROVE ~FillingBy(e, r)'
  <2>1. CASE e = c
    BY <1>4, <1>6, <2>1 DEF Quiets, FillsNoticed
  <2>2. CASE e # c
    BY <1>4, <2>2 DEF Untouched, FillingBy
  <2> QED
    BY <2>1, <2>2
<1>8. "new" \notin docs'[r] /\ (rows[r] = {} => rows'[r] = {})
  BY <1>4 DEF Quiets, StoresNothing
<1>9. docs[r] = {} => docs'[r] = {}
  <2>1. docs'[r] \subseteq {"new", "shown"}
    BY DEF ServiceTypes
  <2> QED
    BY <1>8, <2>1 DEF Quiets, StoresNothing
<1>10. ~Loading(r)' /\ ~Filling(r)'
  BY <1>5, <1>7 DEF Loading, Filling, LoadingBy, FillingBy, Lanes
<1> QED
  BY <1>8, <1>9, <1>10 DEF Settling

LEMMA QuietStep ==
    ASSUME Inv, TaskInv, NEW c \in Calls, Moves(c), Quiets(c), ServiceTypes', NEW d \in Calls
    PROVE  QuietAt(d)'
<1>1. \A e \in Calls : e # c => Untouched(e)
  BY DEF Moves
<1>2. CASE d # c
  <2> SUFFICES ASSUME chief[d] \in {"purge", "remove", "over"}, NEW r \in Ids, r = id[d], r \notin unquiet'
               PROVE  /\ ~Settling(r)'
                      /\ job[d]["primary"] = "done" => rows'[r] = {}
                      /\ job[d]["cache"] = "done" => docs'[r] = {}
    <3>1. id'[d] = id[d] /\ chief'[d] = chief[d] /\ job'[d] = job[d]
      BY <1>1, <1>2 DEF Untouched
    <3>2. chief[d] # "none" => id[d] \in Ids
      BY TasksAreOfRecords
    <3> QED
      BY <3>1, <3>2 DEF QuietAt
  <2>1. r \notin unquiet /\ QuietAt(d)
    BY DEF Quiets, FillsNoticed, TaskInv
  <2> QED
    BY <1>1, <2>1, SongStaysQuiet DEF QuietAt
<1>3. CASE d = c /\ ~DeleteAccepted(c)
  <2> SUFFICES ASSUME chief'[c] \in {"purge", "remove", "over"}, id'[c] \notin unquiet'
               PROVE  QuietAt(c)'
    BY <1>3 DEF QuietAt
  <2>1. /\ chief[c] \in {"purge", "remove", "over"} /\ id'[c] = id[c]
        /\ job'[c]["primary"] = "done" => job[c]["primary"] = "done" \/ rows'[id[c]] = {}
        /\ job'[c]["cache"] = "done" => job[c]["cache"] = "done" \/ "shown" \notin docs'[id[c]]
    BY <1>3 DEF Quiets, PurgesIt
  <2> PICK r \in Ids : r = id[c]
    BY <2>1, TasksAreOfRecords
  <2>2. r \notin unquiet' /\ r \notin unquiet /\ QuietAt(c)
    BY <2>1 DEF Quiets, FillsNoticed, TaskInv
  <2>3. /\ ~Settling(r)'
        /\ rows[r] = {} => rows'[r] = {}
        /\ docs[r] = {} => docs'[r] = {}
        /\ "new" \notin docs'[r]
    BY <1>1, <2>1, <2>2, SongStaysQuiet
  <2>4. docs'[r] \subseteq {"new", "shown"}
    BY DEF ServiceTypes
  <2>5. /\ job'[c]["primary"] = "done" => rows'[r] = {}
        /\ job'[c]["cache"] = "done" => docs'[r] = {}
    BY <2>1, <2>2, <2>3, <2>4 DEF QuietAt
  <2> QED
    BY <2>1, <2>3, <2>5 DEF QuietAt
<1>4. CASE d = c /\ DeleteAccepted(c)
  <2>1. /\ UNCHANGED <<id, op, rows, docs, fill>> /\ op[c] = "delete" /\ id[c] \in Ids
        /\ job'[c] = Queued
        /\ id[c] \notin unquiet' => ~Settling(id[c])
    BY <1>4 DEF DeleteAccepted, stores, requests, Inv, RequestTypes, Asked, TaskInv, ServiceTypes
  <2> SUFFICES ASSUME NEW r \in Ids, r = id[c], r \notin unquiet' PROVE ~Settling(r)'
    BY <1>4, <2>1 DEF QuietAt, Queued, Lanes
  <2>2. ASSUME NEW e \in Calls PROVE ~LoadingBy(e, r)' /\ ~FillingBy(e, r)'
    <3>1. ~LoadingBy(e, r) /\ ~FillingBy(e, r)
      BY <2>1, LoadingIsBySome, FillingIsBySome DEF Settling
    <3>2. CASE e = c
      BY <2>1, <3>2 DEF LoadingBy, FillingBy, Queued, Lanes
    <3>3. CASE e # c
      BY <1>1, <3>1, <3>3 DEF Untouched, LoadingBy, FillingBy
    <3> QED
      BY <3>2, <3>3
  <2>3. "new" \notin docs'[r]
    BY <2>1 DEF Settling
  <2>4. ~Loading(r)' /\ ~Filling(r)'
    BY <2>2 DEF Loading, Filling, LoadingBy, FillingBy, Lanes
  <2> QED
    BY <2>1, <2>3, <2>4 DEF Settling
<1> QED
  BY <1>2, <1>3, <1>4

LEMMA UntouchedKeepsControl ==
    ASSUME NEW d \in Calls, ControlAt(d), Untouched(d)
    PROVE  ControlAt(d)'
  BY DEF ControlAt, CreatingAt, DeletingAt, Purged, Untouched

LEMMA CallKeepsTasks ==
    ASSUME Inv, TaskInv, RecordStep, Inv', NEW c \in Calls, Moves(c), ServiceTypes', Accounts(c), Quiets(c)
    PROVE  TaskInv'
<1>1. \A d \in Calls : d # c => Untouched(d)
  BY DEF Moves
<1>2. ASSUME NEW d \in Calls PROVE ControlAt(d)'
  BY <1>1, UntouchedKeepsControl DEF Moves, TaskInv
<1>3. ASSUME NEW r \in Ids, records[r] = "gone" PROVE records'[r] = "gone"
  BY <1>3 DEF RecordStep, Exists
<1>4. ASSUME NEW d \in Calls PROVE EndedAt(d)'
  <2>1. EndedAt(d) /\ (chief[d] # "none" => id[d] \in Ids)
    BY TasksAreOfRecords DEF TaskInv
  <2>2. CASE d = c
    BY <1>3, <2>1, <2>2 DEF EndedAt, Accounts, EndIsGone
  <2>3. CASE d # c
    BY <1>1, <1>3, <2>1, <2>3 DEF EndedAt, Untouched
  <2> QED
    BY <2>2, <2>3
<1>5. ASSUME NEW d \in Calls PROVE QuietAt(d)'
  BY QuietStep
<1>6. ASSUME NEW r \in Ids PROVE RemovedAt(r)'
  <2> SUFFICES ASSUME records'[r] = "gone" PROVE \E d \in Calls : Removed(d, r)'
    BY DEF RemovedAt
  <2>1. CASE records[r] # "gone"
    BY <2>1 DEF Accounts, GoneIsRemoved
  <2>2. CASE records[r] = "gone"
    <3>1. PICK d \in Calls : Removed(d, r)
      BY <2>2 DEF TaskInv, RemovedAt
    <3>2. CASE d = c
      BY <3>1, <3>2 DEF Accounts, GoneIsRemoved
    <3>3. CASE d # c
      BY <1>1, <3>1, <3>3 DEF Untouched, Removed
    <3> QED
      BY <3>2, <3>3
  <2> QED
    BY <2>1, <2>2
<1>7. ASSUME NEW r \in Ids PROVE KeptAt(r)'
  <2> SUFFICES ASSUME records'[r] \in {"visible", "hidden"}, rows'[r] # {"print"}
               PROVE  \E d \in Calls : Excused(d, r)'
    BY DEF KeptAt
  <2>1. CASE records[r] = "none"
    BY <2>1 DEF Accounts, LossIsExcused
  <2>2. CASE rows[r] = {"print"}
    BY <2>2 DEF Accounts, LossIsExcused
  <2>3. CASE records[r] # "none" /\ rows[r] # {"print"}
    <3>1. records[r] \in {"visible", "hidden"}
      BY <2>3 DEF RecordStep, Exists
    <3>2. PICK d \in Calls : Excused(d, r)
      BY <2>3, <3>1 DEF TaskInv, KeptAt
    <3>3. CASE d # c
      BY <1>1, <3>2, <3>3 DEF Untouched, Excused
    <3>4. CASE d = c
      <4>1. Excused(c, r)' \/ (id'[c] = r /\ chief'[c] \in {"over", "absent"})
        BY <3>2, <3>4 DEF Accounts, ExcuseLasts
      <4>2. EndedAt(c)'
        BY <1>4
      <4> QED
        BY <4>1, <4>2 DEF EndedAt
    <3> QED
      BY <3>3, <3>4
  <2> QED
    BY <2>1, <2>2, <2>3
<1> QED
  BY <1>2, <1>4, <1>5, <1>6, <1>7 DEF TaskInv

\* Elasticsearch makes what it has searchable and adds nothing.
LEMMA RefreshKeepsTasks ==
    ASSUME Inv, TaskInv, Refresh
    PROVE  TaskInv'
<1> USE DEF Refresh, requests, controller, service
<1>1. ServiceTypes'
  <2>1. docs' \in [Ids -> SUBSET {"new", "shown"}]
    BY DEF TaskInv, ServiceTypes
  <2> QED
    BY <2>1 DEF TaskInv, ServiceTypes
<1>2. \A r \in Ids : "new" \notin docs'[r] /\ (docs[r] = {} => docs'[r] = {})
  BY DEF TaskInv, ServiceTypes
<1>3. UNCHANGED <<records, rows, op, id, pc, answer, remote, job, chief, fill, unquiet>>
  OBVIOUS
<1> HIDE DEF Refresh
<1>4. ASSUME NEW c \in Calls PROVE ControlAt(c)' /\ EndedAt(c)'
  BY <1>3 DEF TaskInv, ControlAt, CreatingAt, DeletingAt, Purged, EndedAt
<1>5. ASSUME NEW c \in Calls PROVE QuietAt(c)'
  <2> SUFFICES ASSUME chief[c] \in {"purge", "remove", "over"}, NEW r \in Ids, r = id[c], r \notin unquiet
               PROVE  /\ ~Settling(r)'
                      /\ job[c]["primary"] = "done" => rows[r] = {}
                      /\ job[c]["cache"] = "done" => docs'[r] = {}
    BY <1>3, TasksAreOfRecords DEF QuietAt
  <2>1. ~Loading(r)' /\ ~Filling(r)'
    BY <1>3 DEF TaskInv, QuietAt, Settling, Loading, Filling
  <2> QED
    BY <1>2, <2>1 DEF TaskInv, QuietAt, Settling
<1>6. ASSUME NEW r \in Ids PROVE RemovedAt(r)' /\ KeptAt(r)'
  BY <1>3 DEF TaskInv, RemovedAt, Removed, KeptAt, Excused
<1> QED
  BY <1>1, <1>4, <1>5, <1>6 DEF TaskInv

\* A service that is killed leaves the stores as they are, and its tasks fail.
LEMMA CrashKeepsTasks ==
    ASSUME Inv, TaskInv, FingerprintCrash \/ MetadataCrash
    PROVE  TaskInv'
<1> USE DEF stores, requests
<1>1. /\ UNCHANGED <<records, rows, docs, op, id, answer, fill, unquiet>>
      /\ ServiceTypes'
  BY DEF FingerprintCrash, MetadataCrash, TaskInv, ServiceTypes
<1>2. ASSUME NEW c \in Calls
      PROVE  /\ pc'[c] = pc[c] \/ (pc'[c] = "over" /\ op[c] # "none")
             /\ remote'[c] = remote[c] \/ (remote[c] \in {"sent", "claimed"} /\ remote'[c] = "lost")
             /\ \A l \in Lanes : \/ job'[c][l] = job[c][l]
                                 \/ job[c][l] \in {"queued", "index"} /\ job'[c][l] = "failed"
             /\ \/ chief'[c] = chief[c]
                \/ chief[c] \in {"purge", "remove"} /\ chief'[c] = "failed"
  BY DEF FingerprintCrash, MetadataCrash, TaskInv, ServiceTypes, Inv, RequestTypes
<1>3. ASSUME NEW c \in Calls PROVE ControlAt(c)'
  <2>1. ControlAt(c)
    BY DEF TaskInv
  <2> QED
    BY <1>1, <1>2, <2>1 DEF ControlAt, CreatingAt, DeletingAt, Purged, Lanes
<1>4. ASSUME NEW c \in Calls PROVE EndedAt(c)'
  BY <1>1, <1>2 DEF TaskInv, EndedAt
<1>5. ASSUME NEW r \in Ids, ~Loading(r) /\ ~Filling(r) PROVE ~Loading(r)' /\ ~Filling(r)'
  <2>1. ASSUME NEW c \in Calls PROVE ~LoadingBy(c, r)' /\ ~FillingBy(c, r)'
    <3>1. ~LoadingBy(c, r) /\ ~FillingBy(c, r)
      BY <1>5, LoadingIsBySome, FillingIsBySome
    <3> QED
      BY <1>1, <1>2, <3>1 DEF LoadingBy, FillingBy, Lanes
  <2> QED
    BY <2>1 DEF Loading, Filling, LoadingBy, FillingBy, Lanes
<1>6. ASSUME NEW c \in Calls PROVE QuietAt(c)'
  <2> SUFFICES ASSUME chief'[c] \in {"purge", "remove", "over"}, NEW r \in Ids, r = id[c], r \notin unquiet
               PROVE  /\ ~Settling(r)'
                      /\ job'[c]["primary"] = "done" => rows[r] = {}
                      /\ job'[c]["cache"] = "done" => docs[r] = {}
    BY <1>1, <1>2, TasksAreOfRecords DEF QuietAt
  <2>1. chief[c] \in {"purge", "remove", "over"} /\ QuietAt(c)
    BY <1>2 DEF TaskInv
  <2>2. ~Settling(r)'
    BY <1>1, <1>5, <2>1 DEF QuietAt, Settling
  <2>3. \A l \in Lanes : job'[c][l] = "done" => job[c][l] = "done"
    BY <1>2
  <2> QED
    BY <2>1, <2>2, <2>3 DEF QuietAt, Lanes
<1>7. ASSUME NEW r \in Ids PROVE RemovedAt(r)'
  <2>1. ASSUME NEW c \in Calls, Removed(c, r) PROVE Removed(c, r)'
    BY <1>1, <1>2, <2>1 DEF Removed
  <2> QED
    BY <1>1, <2>1 DEF TaskInv, RemovedAt
<1>8. ASSUME NEW r \in Ids PROVE KeptAt(r)'
  <2>1. ASSUME NEW c \in Calls, Excused(c, r) PROVE Excused(c, r)'
    BY <1>1, <1>2, <2>1 DEF Excused, Lanes
  <2> QED
    BY <1>1, <2>1 DEF TaskInv, KeptAt
<1> QED
  BY <1>1, <1>3, <1>4, <1>6, <1>7, <1>8 DEF TaskInv

LEMMA StepTasks == Inv /\ TaskInv /\ [Next]_vars => TaskInv'
<1> SUFFICES ASSUME Inv, TaskInv, [Next]_vars PROVE TaskInv'
  OBVIOUS
<1>0. Inv' /\ RecordStep
  BY StepInv
<1>1. ASSUME NEW c \in Calls,
             Create(c) \/ \E r \in Known : Delete(c, r) \/ Update(c, r) \/ Find(c, r)
      PROVE  TaskInv'
  BY <1>0, <1>1, ArrivalMoves, ArrivalAccounts, ArrivalQuiets, CallKeepsTasks
<1>2. ASSUME NEW c \in Calls, ControllerStep(c) \/ GiveUp(c) PROVE TaskInv'
  BY <1>0, <1>2, ControllerMovesCall, ControllerAccounts, ControllerQuiets, CallKeepsTasks
<1>3. ASSUME NEW c \in Calls, ServiceStep(c) PROVE TaskInv'
  BY <1>0, <1>3, ServiceMovesCall, ServiceAccounts, ServiceQuiets, CallKeepsTasks
<1>4. CASE Refresh
  BY <1>4, RefreshKeepsTasks
<1>5. CASE FingerprintCrash \/ MetadataCrash
  BY <1>5, CrashKeepsTasks
<1>6. CASE UNCHANGED vars
  BY <1>6 DEF vars, stores, requests, controller, service, TaskInv, ServiceTypes, ControlAt, CreatingAt,
     DeletingAt, Purged, EndedAt, QuietAt, Settling, Loading, Filling, RemovedAt, Removed, KeptAt, Excused
<1> QED
  BY <1>1, <1>2, <1>3, <1>4, <1>5, <1>6 DEF Next, Finished

LEMMA TasksHold == Spec => [](Inv /\ TaskInv)
  BY InitInv, TaskInit, StepInv, StepTasks, PTL DEF Spec

\* A deletion answered 204 has removed the record when all has come to rest,
\* or its task has failed: the 204 needs the task, and a task that ends well
\* has seen the record go.
THEOREM DeletionEnds == Spec => []DeletedIsGone
<1>1. Inv /\ TaskInv => DeletedIsGone
  <2> SUFFICES ASSUME Inv, TaskInv, Rest, NEW c \in Calls, op[c] = "delete", answer[c] = 204
               PROVE  records[id[c]] = "gone" \/ chief[c] = "failed"
    BY DEF DeletedIsGone
  <2>1. chief[c] # "none" /\ chief[c] \notin {"purge", "remove"}
    BY DEF TaskInv, ControlAt, DeletingAt, Rest
  <2> QED
    BY <2>1 DEF TaskInv, ServiceTypes, EndedAt
<1> QED
  BY <1>1, TasksHold, PTL

\* A record that is gone leaves nothing in either storage, but for a creation
\* that was withdrawn and for a deletion that met a load or a fill.
THEOREM NothingIsLeft == Spec => []GoneLeavesNothing
<1>1. Inv /\ TaskInv => GoneLeavesNothing
  <2> SUFFICES ASSUME Inv, TaskInv, NEW r \in Ids, records[r] = "gone", r \notin unquiet,
                      \A c \in Of("create", r) : answer[c] = 201
               PROVE  rows[r] = {} /\ docs[r] = {}
    BY DEF GoneLeavesNothing
  <2>1. PICK c \in Calls : Removed(c, r)
    BY DEF TaskInv, RemovedAt
  <2>2. id[c] = r /\ op[c] = "delete" /\ chief[c] = "over"
    BY <2>1 DEF Removed, Of
  <2>3. QuietAt(c) /\ Purged(c)
    BY <2>2 DEF TaskInv, ControlAt, DeletingAt
  <2> QED
    BY <2>2, <2>3 DEF QuietAt, Purged, Lanes
<1> QED
  BY <1>1, TasksHold, PTL

\* A record that is shown has its fingerprint when all has come to rest, but
\* for a creation that failed after the 201 or was cut short and for a deletion
\* that failed half way.
THEOREM ShownHasPrint == Spec => []ShownIsStored
<1>1. Inv /\ TaskInv => ShownIsStored
  <2> SUFFICES ASSUME Inv, TaskInv, Rest, NEW r \in Ids, records[r] = "visible", rows[r] # {"print"}
               PROVE  \/ \E c \in Of("create", r) : answer[c] # 201 \/ job[c]["primary"] = "failed"
                      \/ \E c \in Of("delete", r) : chief[c] = "failed"
    BY DEF ShownIsStored
  <2>1. PICK c \in Calls : Excused(c, r)
    BY DEF TaskInv, KeptAt
  <2>2. /\ chief[c] \notin {"purge", "remove"}
        /\ job[c]["primary"] \in {"none", "done", "failed"}
    BY DEF Rest, Lanes
  <2>3. op[c] = "create" /\ job[c]["primary"] = "none" => answer[c] # 201
    BY DEF TaskInv, ControlAt, CreatingAt, Lanes
  <2> QED
    BY <2>1, <2>2, <2>3 DEF Excused, Of
<1> QED
  BY <1>1, TasksHold, PTL

FaultsBounded == faults \in 0 .. MaxFaults

\* Nothing leaves its type; the faults stay within their bound.
THEOREM TypesAreKept == Spec => []TypeOK
<1>1. Init => FaultsBounded
  BY LifecycleAssumption DEF Init, FaultsBounded
<1>2. FaultsBounded /\ [Next]_vars => FaultsBounded'
  <2> SUFFICES ASSUME FaultsBounded, [Next]_vars PROVE FaultsBounded'
    OBVIOUS
  <2>1. Fault \/ UNCHANGED faults
    BY DEF Next, Create, Delete, Update, Find, ControllerStep, PostReturns, Undo, Hide, HideRefused,
       Write, SearchCache, SearchFails, SearchPrimary, Show, GiveUp, ServiceStep, LoadClaim, LoadRefused,
       LoadAccepted, StorePrimary, StoreCache, DeleteAccepted, PurgePrimary, PurgeCache, PurgeFailed,
       DoDeleteLook, DoDeleteRemove, FillRead, FillIndex, Refresh, FingerprintCrash, MetadataCrash,
       Finished, vars
  <2> QED
    BY <2>1, LifecycleAssumption DEF Fault, FaultsBounded, LifecycleAssumption
<1>3. Inv /\ TaskInv /\ FaultsBounded => TypeOK
  BY DEF FaultsBounded, Inv, RequestTypes, TaskInv, ServiceTypes, TypeOK
<1> QED
  BY <1>1, <1>2, <1>3, TasksHold, PTL DEF Spec

=============================================================================
