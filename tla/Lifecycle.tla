----------------------------- MODULE Lifecycle -----------------------------
(***************************************************************************)
(* A record of the metadata service and its fingerprint in the fingerprint *)
(* service, from the request that creates both to the one that deletes     *)
(* both.  The services share no transaction: the controllers               *)
(* (metadata_web/controllers/record_controller.ex) write the record, post  *)
(* to the other service and give up on it after a time limit               *)
(* (fingerprint_comm.ex); the handlers (fingerprint/src/api) answer before *)
(* their tasks have run, and the task of a deletion calls back.            *)
(*                                                                         *)
(* A new record gets a new id, so no two records share a song.  What the   *)
(* databases do to one another's connections is in Engine, what collections *)
(* do to a record in Library.                                              *)
(***************************************************************************)
EXTENDS Naturals, FiniteSets

CONSTANTS Calls,       \* the requests of the clients, each made once
          Old,         \* how many records there are at the beginning
          MaxId,       \* bound of the model: the last id given
          MaxFaults    \* bound of the model: how often a request to a database or to a
                       \* service fails, or a service is killed

ASSUME LifecycleAssumption ==
    /\ Old \in Nat /\ MaxId \in Nat /\ Old <= MaxId
    /\ MaxFaults \in Nat

VARIABLES records,   \* table records: the state of each id
          rows,      \* table fingerprint: the claim and the print of each song
          docs,      \* Elasticsearch: documents not yet searchable and searchable
          op,        \* what a call asks for
          id,        \* the record or song it is about
          pc,        \* where its controller or handler is
          answer,    \* the status it was answered, 0 for none
          remote,    \* what the fingerprint service has made of a controller's post
          job,       \* the tasks on the two databases
          chief,     \* the task of a deletion that waits for them
          fill,      \* the song a cache fill is about
          refused,   \* the deletions whose hiding of the record was refused
          before,    \* history: the songs deleted (204) when a search began
          unquiet,   \* history: the songs deleted while something else was going on
          faults     \* how many faults there have been

stores == <<records, rows, docs>>
requests == <<op, id, before>>
controller == <<pc, answer, refused>>
service == <<remote, job, chief, fill, unquiet>>
vars == <<stores, requests, controller, service, faults>>

Ids == 1..MaxId
Lanes == {"primary", "cache"}
NoTask == [l \in Lanes |-> "none"]
Queued == [l \in Lanes |-> "queued"]

TypeOK ==
    /\ records \in [Ids -> {"none", "visible", "hidden", "gone"}]
    /\ rows \in [Ids -> SUBSET {"claim", "print"}]
    /\ docs \in [Ids -> SUBSET {"new", "shown"}]
    /\ op \in [Calls -> {"none", "create", "update", "hide", "delete", "find"}]
    /\ id \in [Calls -> Ids \cup {0}]
    /\ pc \in [Calls -> {"idle", "post", "undo", "hide", "write", "searchCache",
                         "searchPrimary", "show", "over"}]
    /\ answer \in [Calls -> {0, 200, 201, 204, 404, 409, 500}]
    /\ remote \in [Calls -> {"none", "sent", "claimed", "yes", "no", "lost"}]
    /\ job \in [Calls -> [Lanes -> {"none", "queued", "index", "done", "failed"}]]
    /\ chief \in [Calls -> {"none", "purge", "remove", "over", "absent", "failed"}]
    /\ fill \in [Calls -> Ids \cup {0}]
    /\ refused \subseteq Calls
    /\ before \in [Calls -> SUBSET Ids]
    /\ unquiet \subseteq Ids
    /\ faults \in 0..MaxFaults

\* Records created earlier, stored and searchable, in the cache or not.
Init ==
    /\ records = [r \in Ids |-> IF r <= Old THEN "visible" ELSE "none"]
    /\ rows = [r \in Ids |-> IF r <= Old THEN {"print"} ELSE {}]
    /\ docs \in [Ids -> {{}, {"shown"}}]
    /\ \A r \in Ids : r > Old => docs[r] = {}
    /\ op = [c \in Calls |-> "none"]
    /\ id = [c \in Calls |-> 0]
    /\ pc = [c \in Calls |-> "idle"]
    /\ answer = [c \in Calls |-> 0]
    /\ remote = [c \in Calls |-> "none"]
    /\ job = [c \in Calls |-> NoTask]
    /\ chief = [c \in Calls |-> "none"]
    /\ fill = [c \in Calls |-> 0]
    /\ refused = {}
    /\ before = [c \in Calls |-> {}]
    /\ unquiet = {}
    /\ faults = 0

Known == {r \in Ids : records[r] # "none"}
Exists(r) == records[r] \in {"visible", "hidden"}

Goto(c, label) == pc' = [pc EXCEPT ![c] = label]
Reply(c, status) ==
    /\ answer' = [answer EXCEPT ![c] = status]
    /\ Goto(c, "over")
SetRecord(r, state) == records' = [records EXCEPT ![r] = state]
SetJob(c, l, state) == job' = [job EXCEPT ![c][l] = state]

Fault ==
    /\ faults < MaxFaults
    /\ faults' = faults + 1

Ask(c, what, r) ==
    /\ pc[c] = "idle"
    /\ op' = [op EXCEPT ![c] = what]
    /\ id' = [id EXCEPT ![c] = r]

-----------------------------------------------------------------------------
(* RecordController.create *)

\* create_record() inserts a record, which the request may ask to be hidden;
\* post_record() follows.
Create(c) ==
    LET r == Cardinality(Known) + 1 IN
    /\ r \in Ids
    /\ Ask(c, "create", r)
    /\ \E state \in {"visible", "hidden"} : SetRecord(r, state)
    /\ remote' = [remote EXCEPT ![c] = "sent"]
    /\ Goto(c, "post")
    /\ UNCHANGED <<rows, docs, before, answer, refused, job, chief, fill, unquiet, faults>>

\* post_record() or delete_record() of FingerprintComm returns what came back.
PostReturns(c) ==
    /\ pc[c] = "post"
    /\ \/ op[c] = "create" /\ remote[c] = "yes" /\ Reply(c, 201)
       \/ op[c] = "create" /\ remote[c] = "no" /\ Goto(c, "undo") /\ UNCHANGED answer
       \/ op[c] = "delete" /\ remote[c] = "yes" /\ Goto(c, "hide") /\ UNCHANGED answer
    /\ UNCHANGED <<stores, requests, refused, service, faults>>

\* An error or the time limit: false.  The post may have got lost, may be under
\* way, or may have been obeyed.
GiveUp(c) ==
    /\ pc[c] = "post"
    /\ IF op[c] = "create" THEN Goto(c, "undo") /\ UNCHANGED answer ELSE Reply(c, 500)
    /\ \/ UNCHANGED remote
       \/ remote[c] = "sent" /\ remote' = [remote EXCEPT ![c] = "lost"]
    /\ UNCHANGED <<stores, requests, refused, job, chief, fill, unquiet, faults>>

\* delete_record() of a row that is gone raises StaleEntryError.
Undo(c) ==
    /\ pc[c] = "undo"
    /\ IF Exists(id[c])
         THEN SetRecord(id[c], "gone") /\ Reply(c, 500)
         ELSE UNCHANGED records /\ Reply(c, 409)
    /\ UNCHANGED <<rows, docs, requests, refused, service, faults>>

-----------------------------------------------------------------------------
(* RecordController.delete and RecordController.update: get_record() sees   *)
(* visible records only, and what follows relies on what it has seen.       *)

Delete(c, r) ==
    /\ Ask(c, "delete", r)
    /\ IF records[r] = "visible"
         THEN /\ remote' = [remote EXCEPT ![c] = "sent"]
              /\ Goto(c, "post")
              /\ UNCHANGED answer
         ELSE Reply(c, 404) /\ UNCHANGED remote
    /\ UNCHANGED <<stores, before, refused, job, chief, fill, unquiet, faults>>

\* Mutant: the record stays visible.
HideNothing(c) ==
    /\ pc[c] = "hide"
    /\ Reply(c, 204)
    /\ UNCHANGED <<stores, requests, refused, service, faults>>

\* update_record(record, is_visible: false).
Hide(c) ==
    /\ pc[c] = "hide"
    /\ IF Exists(id[c])
         THEN SetRecord(id[c], "hidden") /\ Reply(c, 204)
         ELSE UNCHANGED records /\ Reply(c, 409)
    /\ UNCHANGED <<rows, docs, requests, refused, service, faults>>

\* Its result is ignored: a collection of the record that has been deleted since
\* it was read, or is neither album nor single, makes it a bad request, an artist
\* makes it raise.
HideRefused(c) ==
    /\ pc[c] = "hide"
    /\ Fault
    /\ refused' = refused \cup {c}
    /\ Reply(c, 204) \/ Reply(c, 500)
    /\ UNCHANGED <<stores, requests, service>>

\* A client may hide a record by an update.
Update(c, r) ==
    /\ \E what \in {"update", "hide"} : Ask(c, what, r)
    /\ IF records[r] = "visible"
         THEN Goto(c, "write") /\ UNCHANGED answer
         ELSE Reply(c, 404)
    /\ UNCHANGED <<stores, before, refused, service, faults>>

\* Mutant: every column is written, not the changed ones.
WriteAll(c) ==
    /\ pc[c] = "write"
    /\ IF Exists(id[c])
         THEN /\ SetRecord(id[c], IF op[c] = "hide" THEN "hidden" ELSE "visible")
              /\ Reply(c, 200)
         ELSE UNCHANGED records /\ Reply(c, 409)
    /\ UNCHANGED <<rows, docs, requests, refused, service, faults>>

\* The changeset has what differs from the record that was read: visible.
Write(c) ==
    /\ pc[c] = "write"
    /\ IF Exists(id[c])
         THEN /\ Reply(c, 200)
              /\ IF op[c] = "hide" THEN SetRecord(id[c], "hidden") ELSE UNCHANGED records
         ELSE UNCHANGED records /\ Reply(c, 409)
    /\ UNCHANGED <<rows, docs, requests, refused, service, faults>>

-----------------------------------------------------------------------------
(* LoadTrackByUrl: the claim, the download, and two tasks that nobody waits  *)
(* for.                                                                      *)

LoadClaim(c) ==
    /\ op[c] = "create" /\ remote[c] = "sent"
    /\ rows[id[c]] = {}
    /\ rows' = [rows EXCEPT ![id[c]] = {"claim"}]
    /\ remote' = [remote EXCEPT ![c] = "claimed"]
    /\ UNCHANGED <<records, docs, requests, controller, job, chief, fill, unquiet, faults>>

\* No claim, or no download and the claim stays.
LoadRefused(c) ==
    /\ op[c] = "create" /\ remote[c] \in {"sent", "claimed"}
    /\ Fault
    /\ remote' = [remote EXCEPT ![c] = "no"]
    /\ UNCHANGED <<stores, requests, controller, job, chief, fill, unquiet>>

\* Mutant: the fingerprint is stored in the cache only.
LoadCacheOnly(c) ==
    /\ op[c] = "create" /\ remote[c] = "claimed"
    /\ remote' = [remote EXCEPT ![c] = "yes"]
    /\ job' = [job EXCEPT ![c] = [primary |-> "done", cache |-> "queued"]]
    /\ UNCHANGED <<stores, requests, controller, chief, fill, unquiet, faults>>

LoadAccepted(c) ==
    /\ op[c] = "create" /\ remote[c] = "claimed"
    /\ remote' = [remote EXCEPT ![c] = "yes"]
    /\ job' = [job EXCEPT ![c] = Queued]
    /\ UNCHANGED <<stores, requests, controller, chief, fill, unquiet, faults>>

StorePrimary(c) ==
    LET r == id[c] IN
    /\ op[c] = "create" /\ job[c]["primary"] = "queued"
    /\ \/ /\ rows' = [rows EXCEPT ![r] = {"print"}]
          /\ SetJob(c, "primary", "done")
          /\ UNCHANGED faults
       \/ /\ Fault
          /\ rows' = [rows EXCEPT ![r] = @ \ {"claim"}] \/ UNCHANGED rows
          /\ SetJob(c, "primary", "failed")
    /\ UNCHANGED <<records, docs, requests, controller, remote, chief, fill, unquiet>>

StoreCache(c) ==
    /\ op[c] = "create" /\ job[c]["cache"] = "queued"
    /\ \/ /\ docs' = [docs EXCEPT ![id[c]] = @ \cup {"new"}]
          /\ SetJob(c, "cache", "done")
          /\ UNCHANGED faults
       \/ /\ Fault
          /\ SetJob(c, "cache", "failed")
          /\ UNCHANGED docs
    /\ UNCHANGED <<records, rows, requests, controller, remote, chief, fill, unquiet>>

Refresh ==
    /\ \E r \in Ids : "new" \in docs[r]
    /\ docs' = [r \in Ids |-> IF docs[r] = {} THEN {} ELSE {"shown"}]
    /\ UNCHANGED <<records, rows, requests, controller, service, faults>>

-----------------------------------------------------------------------------
(* DeleteTrackById: yes at once, and a task that purges and then tells the   *)
(* metadata service.  It reads the engine and an address from its CallData,  *)
(* which may be freed by then; if that ends the process it is a              *)
(* FingerprintCrash.                                                         *)

Loading(r) ==
    \E c \in Calls : /\ op[c] = "create" /\ id[c] = r
                     /\ remote[c] \in {"sent", "claimed"} \/ "queued" \in {job[c][l] : l \in Lanes}
Filling(r) == \E c \in Calls : fill[c] = r /\ job[c]["cache"] = "index"
Deleting(r) == \E c \in Calls : id[c] = r /\ chief[c] = "purge"
Settling(r) == Loading(r) \/ Filling(r) \/ "new" \in docs[r]

DeleteAccepted(c) ==
    /\ op[c] = "delete" /\ remote[c] = "sent"
    /\ remote' = [remote EXCEPT ![c] = "yes"]
    /\ job' = [job EXCEPT ![c] = Queued]
    /\ chief' = [chief EXCEPT ![c] = "purge"]
    /\ unquiet' = IF Settling(id[c]) THEN unquiet \cup {id[c]} ELSE unquiet
    /\ UNCHANGED <<stores, requests, controller, fill, faults>>

PurgePrimary(c) ==
    /\ op[c] = "delete" /\ job[c]["primary"] = "queued"
    /\ \/ /\ rows' = [rows EXCEPT ![id[c]] = {}]
          /\ SetJob(c, "primary", "done")
          /\ UNCHANGED faults
       \/ /\ Fault
          /\ SetJob(c, "primary", "failed")
          /\ UNCHANGED rows
    /\ UNCHANGED <<records, docs, requests, controller, remote, chief, fill, unquiet>>

\* _delete_by_query deletes what can be found.
PurgeCache(c) ==
    /\ op[c] = "delete" /\ job[c]["cache"] = "queued"
    /\ \/ /\ docs' = [docs EXCEPT ![id[c]] = @ \ {"shown"}]
          /\ SetJob(c, "cache", "done")
          /\ UNCHANGED faults
       \/ /\ Fault
          /\ SetJob(c, "cache", "failed")
          /\ UNCHANGED docs
    /\ UNCHANGED <<records, rows, requests, controller, remote, chief, fill, unquiet>>

\* Mutant: the metadata service is told whether the purge has succeeded or not.
PurgedAnyhow(c) == "queued" \notin {job[c][l] : l \in Lanes}

\* purgeFingerprintBySongId() has waited for both tasks, and both have succeeded.
Purged(c) == \A l \in Lanes : job[c][l] = "done"

PurgeFailed(c) ==
    /\ chief[c] = "purge"
    /\ "queued" \notin {job[c][l] : l \in Lanes}
    /\ ~Purged(c)
    /\ chief' = [chief EXCEPT ![c] = "failed"]
    /\ UNCHANGED <<stores, requests, controller, remote, job, fill, unquiet, faults>>

\* Mutant: do_delete does not see hidden records.
SeenByGetRecord(r) == records[r] = "visible"

\* get_record_including_hidden()
SeenByDoDelete(r) == Exists(r)

\* The handler calls do_delete, which looks for the record, hidden or not ...
DoDeleteLook(c) ==
    /\ chief[c] = "purge"
    /\ Purged(c)
    /\ \/ chief' = [chief EXCEPT ![c] = IF SeenByDoDelete(id[c]) THEN "remove" ELSE "absent"]
          /\ UNCHANGED faults
       \/ Fault /\ chief' = [chief EXCEPT ![c] = "failed"]
    /\ UNCHANGED <<stores, requests, controller, remote, job, fill, unquiet>>

\* ... and deletes it; one that is gone by now raises.
DoDeleteRemove(c) ==
    /\ chief[c] = "remove"
    /\ IF Exists(id[c])
         THEN SetRecord(id[c], "gone") /\ chief' = [chief EXCEPT ![c] = "over"]
         ELSE UNCHANGED records /\ chief' = [chief EXCEPT ![c] = "absent"]
    /\ UNCHANGED <<rows, docs, requests, controller, remote, job, fill, unquiet, faults>>

-----------------------------------------------------------------------------
(* FindTrackByFingerprint: the song, in the cache or else in the primary     *)
(* storage, if the snippet is good enough, and then its record.              *)

Find(c, r) ==
    /\ Ask(c, "find", r)
    /\ before' = [before EXCEPT ![c] = {id[d] : d \in {e \in Calls : answer[e] = 204}}]
    /\ Goto(c, "searchCache")
    /\ UNCHANGED <<stores, answer, refused, service, faults>>

SearchCache(c) ==
    /\ pc[c] = "searchCache"
    /\ \/ "shown" \in docs[id[c]] /\ Goto(c, "show") /\ UNCHANGED answer
       \/ Goto(c, "searchPrimary") /\ UNCHANGED answer
    /\ UNCHANGED <<stores, requests, refused, service, faults>>

\* A search that fails in the cache finds nothing.
SearchFails(c) ==
    /\ pc[c] = "searchCache"
    /\ Fault
    /\ Reply(c, 404)
    /\ UNCHANGED <<stores, requests, refused, service>>

SearchPrimary(c) ==
    /\ pc[c] = "searchPrimary"
    /\ \/ /\ "print" \in rows[id[c]]
          /\ SetJob(c, "cache", "queued")
          /\ Goto(c, "show")
          /\ UNCHANGED answer
       \/ Reply(c, 404) /\ UNCHANGED job
    /\ UNCHANGED <<stores, requests, refused, remote, chief, fill, unquiet, faults>>

\* RecordController.show; without a record the search is an internal error.
Show(c) ==
    /\ pc[c] = "show"
    /\ Reply(c, IF records[id[c]] = "visible" THEN 200 ELSE 500)
    /\ UNCHANGED <<stores, requests, refused, service, faults>>

\* The song is cached by a task; once the handler has returned, the id it reads
\* may be any.
FillRead(c) ==
    /\ op[c] = "find" /\ job[c]["cache"] = "queued"
    /\ \E s \in Ids :
          /\ pc[c] # "over" => s = id[c]
          /\ IF "shown" \in docs[s] \/ rows[s] = {}
               THEN SetJob(c, "cache", "done") /\ UNCHANGED <<fill, unquiet>>
               ELSE /\ SetJob(c, "cache", "index")
                    /\ fill' = [fill EXCEPT ![c] = s]
                    /\ unquiet' = IF Deleting(s) THEN unquiet \cup {s} ELSE unquiet
    /\ UNCHANGED <<stores, requests, controller, remote, chief, faults>>

FillIndex(c) ==
    /\ job[c]["cache"] = "index"
    /\ docs' = [docs EXCEPT ![fill[c]] = @ \cup {"new"}]
    /\ SetJob(c, "cache", "done")
    /\ UNCHANGED <<records, rows, requests, controller, remote, chief, fill, unquiet, faults>>

-----------------------------------------------------------------------------
(* A service is killed: what it was about to do is not done. *)

FingerprintCrash ==
    /\ Fault
    /\ remote' = [c \in Calls |-> IF remote[c] \in {"sent", "claimed"} THEN "lost" ELSE remote[c]]
    /\ job' = [c \in Calls |-> [l \in Lanes |->
                   IF job[c][l] \in {"queued", "index"} THEN "failed" ELSE job[c][l]]]
    /\ chief' = [c \in Calls |-> IF chief[c] \in {"purge", "remove"} THEN "failed" ELSE chief[c]]
    /\ pc' = [c \in Calls |-> IF op[c] = "find" THEN "over" ELSE pc[c]]
    /\ UNCHANGED <<stores, requests, answer, refused, fill, unquiet>>

MetadataCrash ==
    /\ Fault
    /\ pc' = [c \in Calls |-> IF op[c] \in {"none", "find"} THEN pc[c] ELSE "over"]
    /\ chief' = [c \in Calls |-> IF chief[c] = "remove" THEN "failed" ELSE chief[c]]
    /\ UNCHANGED <<stores, requests, answer, refused, remote, job, fill, unquiet>>

-----------------------------------------------------------------------------
Rest ==
    \A c \in Calls : /\ pc[c] \in {"idle", "over"}
                     /\ remote[c] \notin {"sent", "claimed"}
                     /\ \A l \in Lanes : job[c][l] \in {"none", "done", "failed"}
                     /\ chief[c] \notin {"purge", "remove"}

\* The requests are made and all is done: the only state nothing can follow.
Finished ==
    /\ Rest
    /\ \A c \in Calls : pc[c] = "over"
    /\ UNCHANGED vars

ControllerStep(c) ==
    \/ PostReturns(c) \/ Undo(c) \/ Hide(c) \/ HideRefused(c) \/ Write(c)
    \/ SearchCache(c) \/ SearchFails(c) \/ SearchPrimary(c) \/ Show(c)

ServiceStep(c) ==
    \/ LoadClaim(c) \/ LoadRefused(c) \/ LoadAccepted(c) \/ StorePrimary(c) \/ StoreCache(c)
    \/ DeleteAccepted(c) \/ PurgePrimary(c) \/ PurgeCache(c) \/ PurgeFailed(c)
    \/ DoDeleteLook(c) \/ DoDeleteRemove(c) \/ FillRead(c) \/ FillIndex(c)

Next ==
    \/ \E c \in Calls : \/ Create(c)
                        \/ \E r \in Known : Delete(c, r) \/ Update(c, r) \/ Find(c, r)
                        \/ ControllerStep(c) \/ GiveUp(c) \/ ServiceStep(c)
    \/ Refresh \/ FingerprintCrash \/ MetadataCrash
    \/ Finished

Spec == Init /\ [][Next]_vars

-----------------------------------------------------------------------------
Of(what, r) == {c \in Calls : op[c] = what /\ id[c] = r}

\* What a step may do to a record that is hidden, or gone.
NoRecordReturns ==
    \A r \in Ids : /\ records[r] = "hidden" => records'[r] \in {"hidden", "gone"}
                   /\ records[r] = "gone" => records'[r] = "gone"

(***************************************************************************)
(* A record that is hidden is not shown again, although an update that has *)
(* read it as visible may write after the deletion has hidden it: the      *)
(* changeset has nothing to say about is_visible then                      *)
(* (library.ex:205-230, record.ex:34-40, record_controller.ex:50-61, 82).  *)
(***************************************************************************)
HiddenStaysHidden == [][NoRecordReturns]_vars

(***************************************************************************)
(* A search that begins when a deletion has been answered 204 does not     *)
(* name the record, however late the purge is; unless hiding the record    *)
(* was refused, which delete ignores (record_controller.ex:82-83,          *)
(* find_track.cpp:94-104).                                                 *)
(***************************************************************************)
NoFindAfterDelete ==
    \A c \in Calls : op[c] = "find" /\ answer[c] = 200 /\ id[c] \in before[c] =>
        Of("delete", id[c]) \cap refused # {}

(***************************************************************************)
(* A deletion answered 204 has removed the record when all has come to     *)
(* rest, or its task has failed and the record is left for good, for       *)
(* delete does not see hidden records (delete_track.cpp:45-62,             *)
(* record_controller.ex:63-91).                                            *)
(***************************************************************************)
DeletedIsGone ==
    Rest => \A c \in Calls : op[c] = "delete" /\ answer[c] = 204 =>
        records[id[c]] = "gone" \/ chief[c] = "failed"

(***************************************************************************)
(* What is left of a record that is gone: nothing, unless its creation was *)
(* withdrawn while the fingerprint service went on with the load, or the   *)
(* deletion was accepted while a load or a cache fill of the song was      *)
(* under way or Elasticsearch had not refreshed (record_controller.ex:29,  *)
(* fingerprint_comm.ex:14, delete_track.cpp:44, load_track.cpp:37).        *)
(***************************************************************************)
GoneLeavesNothing ==
    Rest => \A r \in Ids : records[r] = "gone" =>
        \/ rows[r] = {} /\ docs[r] = {}
        \/ r \in unquiet
        \/ \E c \in Of("create", r) : answer[c] # 201

(***************************************************************************)
(* A record that is shown has its fingerprint, unless the task of its      *)
(* creation failed after the 201, its creation was cut short, or a         *)
(* deletion has failed half way (record_controller.ex:22-25,               *)
(* engine.cpp:492-528).                                                    *)
(***************************************************************************)
ShownIsStored ==
    Rest => \A r \in Ids : records[r] = "visible" =>
        \/ rows[r] = {"print"}
        \/ \E c \in Of("create", r) : answer[c] # 201 \/ job[c]["primary"] = "failed"
        \/ \E c \in Of("delete", r) : chief[c] = "failed"

=============================================================================
