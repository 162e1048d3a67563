----------------------------- MODULE Recording -----------------------------
(***************************************************************************)
(* The recordings of one meeting: their rows, the LiveKit egress that      *)
(* renders each, the object it uploads, the legal holds on them, and the   *)
(* handlers that start, stop, list, delete, hold and purge them.           *)
(*                                                                         *)
(* A handler p stops at every statement that writes, every call to LiveKit *)
(* or to the object store, and every read whose answer it carries on.      *)
(* Abort(p) is a request that is cancelled, a statement that fails or a    *)
(* process that dies; PostgreSQL then releases the handler's lock.         *)
(***************************************************************************)
EXTENDS Integers, FiniteSets

CONSTANTS
    Procs,    \* handlers, and runs of the retention worker, in flight at once
    MaxRecs,  \* bound: rows of `recordings` ever inserted for the meeting
    Free      \* a lock that nobody holds

ASSUME ProcsAssumption == Free \notin Procs
ASSUME MaxRecsAssumption == MaxRecs \in Nat \ {0}

VARIABLES
    rec,     \* the rows of `recordings`, in the order they were inserted
    egress,  \* LiveKit: what became of the egress of each recording
    object,  \* the recordings whose object is in the store
    held,    \* the recordings on an active legal hold
    lock,    \* pg_advisory_xact_lock of the governance resource
    req      \* the handlers in flight

vars == <<rec, egress, object, held, lock, req>>

Recs == 1..MaxRecs

Active   == {"STARTING", "RECORDING", "STOPPING"}
Finished == {"READY", "FAILED"}
EgressStatus == {"none", "running", "uploading", "complete", "failed", "forgotten"}

\* sized: size_bytes > 0; expired: retention_expired_at; deleted: storage_deleted_at.
Row == [status: {"NONE"} \cup Active \cup Finished, egressId: BOOLEAN, sized: BOOLEAN,
        expired: BOOLEAN, deleted: BOOLEAN]

Steps == {"idle", "item", "complete", "fail", "stat", "ready", "insert", "launch", "giveup",
          "save", "halt", "stop", "stopped", "revert", "remove", "erase", "purge", "purging",
          "purgeRemove", "purgeErase", "hold"}

\* An item of a reconciliation: ask is whether LiveKit is asked about its egress.
Item == [rec: Recs, ask: BOOLEAN]

Request == [pc: Steps, rec: Recs, starts: BOOLEAN, items: SUBSET Item, todo: SUBSET Recs]

TypeOK ==
    /\ rec \in [Recs -> Row]
    /\ egress \in [Recs -> EgressStatus]
    /\ object \in SUBSET Recs
    /\ held \in SUBSET Recs
    /\ lock \in [Recs -> Procs \cup {Free}]
    /\ req \in [Procs -> Request]

-----------------------------------------------------------------------------
NoRow == [status |-> "NONE", egressId |-> FALSE, sized |-> FALSE,
          expired |-> FALSE, deleted |-> FALSE]

Idle == [pc |-> "idle", rec |-> 1, starts |-> FALSE, items |-> {}, todo |-> {}]

Init ==
    /\ rec = [r \in Recs |-> NoRow]
    /\ egress = [r \in Recs |-> "none"]
    /\ object = {} /\ held = {}
    /\ lock = [r \in Recs |-> Free]
    /\ req = [p \in Procs |-> Idle]

At(p, step) == req[p].pc = step
Goto(p, step) == req' = [req EXCEPT ![p].pc = step]
Done(p) == req' = [req EXCEPT ![p] = Idle]

IsActive(r) == rec[r].status \in Active
ActiveRecs == {r \in Recs : IsActive(r)}

\* The unique index allows one active recording of a meeting.
IndexAllows(r, status) == status \in Active => ActiveRecs \subseteq {r}

External == <<egress, object, held, lock>>

-----------------------------------------------------------------------------
(* reconcileRecordingStatuses, by the library and before a recording starts *)

\* Mutant: forgets the rows a stop left behind.
ReconcileNotStopping(p, starts) ==
    /\ At(p, "idle")
    /\ LET stale == {r \in Recs : /\ ~rec[r].expired
                                  /\ \/ rec[r].status \in {"STARTING", "RECORDING"}
                                     \/ rec[r].status = "READY" /\ ~rec[r].sized}
       IN  req' = [req EXCEPT ![p] = [Idle EXCEPT !.pc = "item", !.starts = starts,
                      !.items = {[rec |-> r, ask |-> rec[r].egressId /\ IsActive(r)] : r \in stale}]]
    /\ UNCHANGED <<rec, External>>

\* Mutant: forgets the READY rows without a size.
ReconcileActive(p, starts) ==
    /\ At(p, "idle")
    /\ req' = [req EXCEPT ![p] = [Idle EXCEPT !.pc = "item", !.starts = starts,
                  !.items = {[rec |-> r, ask |-> rec[r].egressId] :
                             r \in {s \in ActiveRecs : ~rec[s].expired}}]]
    /\ UNCHANGED <<rec, External>>

Reconcile(p, starts) ==
    /\ At(p, "idle")
    /\ LET stale == {r \in Recs : /\ ~rec[r].expired
                                  /\ IsActive(r) \/ (rec[r].status = "READY" /\ ~rec[r].sized)}
       IN  req' = [req EXCEPT ![p] = [Idle EXCEPT !.pc = "item", !.starts = starts,
                      !.items = {[rec |-> r, ask |-> rec[r].egressId /\ IsActive(r)] : r \in stale}]]
    /\ UNCHANGED <<rec, External>>

\* ListEgress; an egress that LiveKit has forgotten, or an error, is no answer.
Answers(r) ==
    CASE egress[r] = "complete" -> {"complete", "stat"}
      [] egress[r] = "failed"   -> {"fail", "stat"}
      [] OTHER                  -> {"stat"}

ReconcileItem(p) ==
    /\ At(p, "item")
    /\ \E i \in req[p].items : \E step \in (IF i.ask THEN Answers(i.rec) ELSE {"stat"}) :
          req' = [req EXCEPT ![p].items = @ \ {i}, ![p].rec = i.rec, ![p].pc = step]
    /\ UNCHANGED <<rec, External>>

\* The row is written whatever has happened to it since it was read.  Without a
\* size in the egress result the object is looked for next.
ReconcileComplete(p) ==
    LET r == req[p].rec IN
    /\ At(p, "complete")
    /\ \E size \in BOOLEAN :
          /\ rec' = [rec EXCEPT ![r].status = "READY", ![r].sized = @ \/ size]
          /\ Goto(p, IF size THEN "item" ELSE "stat")
    /\ UNCHANGED External

ReconcileFail(p) ==
    LET r == req[p].rec IN
    /\ At(p, "fail")
    /\ rec' = IF IsActive(r) THEN [rec EXCEPT ![r].status = "FAILED"] ELSE rec
    /\ Goto(p, "item")
    /\ UNCHANGED External

ReconcileStat(p) ==
    /\ At(p, "stat")
    /\ Goto(p, IF req[p].rec \in object THEN "ready" ELSE "item")
    /\ UNCHANGED <<rec, External>>

ReconcileReady(p) ==
    LET r == req[p].rec IN
    /\ At(p, "ready")
    /\ rec' = [rec EXCEPT ![r].status = "READY", ![r].sized = TRUE]
    /\ Goto(p, "item")
    /\ UNCHANGED External

ReconcileDone(p) ==
    /\ At(p, "item") /\ req[p].items = {}
    /\ IF req[p].starts
       THEN req' = [req EXCEPT ![p] = [Idle EXCEPT !.pc = "insert"]] ELSE Done(p)
    /\ UNCHANGED <<rec, External>>

-----------------------------------------------------------------------------
(* startRecording *)

\* The index refuses the row while another recording of the meeting is active.
StartInsert(p) ==
    /\ At(p, "insert")
    /\ IF ActiveRecs = {}
       THEN \E r \in Recs :
              /\ rec[r].status = "NONE" /\ \A s \in Recs : s < r => rec[s].status # "NONE"
              /\ rec' = [rec EXCEPT ![r].status = "STARTING"]
              /\ req' = [req EXCEPT ![p].pc = "launch", ![p].rec = r]
       ELSE Done(p) /\ UNCHANGED rec
    /\ UNCHANGED External

\* StartRoomCompositeEgress may fail before it starts anything, or after.
StartLaunch(p) ==
    LET r == req[p].rec IN
    /\ At(p, "launch")
    /\ \/ egress' = [egress EXCEPT ![r] = "running"] /\ (Goto(p, "save") \/ Goto(p, "giveup"))
       \/ Goto(p, "giveup") /\ UNCHANGED egress
    /\ UNCHANGED <<rec, object, held, lock>>

StartGiveUp(p) ==
    /\ At(p, "giveup")
    /\ rec' = [rec EXCEPT ![req[p].rec].status = "FAILED"]
    /\ Done(p)
    /\ UNCHANGED External

StartSave(p) ==
    LET r == req[p].rec IN
    /\ At(p, "save")
    /\ \/ /\ IndexAllows(r, "RECORDING")
          /\ rec' = [rec EXCEPT ![r].status = "RECORDING", ![r].egressId = TRUE]
          /\ Done(p)
       \/ Goto(p, "halt") /\ UNCHANGED rec
    /\ UNCHANGED External

\* StopEgress on an egress that is no longer running, or a lost call, changes nothing.
StopCall(r) == egress' = [egress EXCEPT ![r] = IF @ = "running" THEN "uploading" ELSE @]

StartHalt(p) ==
    /\ At(p, "halt")
    /\ StopCall(req[p].rec)
    /\ Done(p)
    /\ UNCHANGED <<rec, object, held, lock>>

-----------------------------------------------------------------------------
(* stopRecording *)

\* RETURNING egress_id fails to scan when it is NULL: the row stays STOPPING.
Stop(p) ==
    /\ At(p, "idle")
    /\ \E r \in ActiveRecs :
          /\ rec[r].status # "STOPPING"
          /\ rec' = [rec EXCEPT ![r].status = "STOPPING"]
          /\ IF rec[r].egressId
             THEN req' = [req EXCEPT ![p] = [Idle EXCEPT !.pc = "stop", !.rec = r]]
             ELSE UNCHANGED req
    /\ UNCHANGED External

StopEgress(p) ==
    LET r == req[p].rec IN
    /\ At(p, "stop")
    /\ \/ StopCall(r) /\ Goto(p, IF egress[r] = "running" THEN "stopped" ELSE "revert")
       \/ Goto(p, "revert") /\ UNCHANGED egress
    /\ UNCHANGED <<rec, object, held, lock>>

\* Mutant: a status the table does not know.
StopReadyUnknown(p) ==
    /\ At(p, "stopped")
    /\ rec' = [rec EXCEPT ![req[p].rec].status = "STOPPED"]
    /\ Done(p)
    /\ UNCHANGED External

StopReady(p) ==
    /\ At(p, "stopped")
    /\ rec' = [rec EXCEPT ![req[p].rec].status = "READY"]
    /\ Done(p)
    /\ UNCHANGED External

\* When the index refuses the UPDATE its error is dropped.
StopRevert(p) ==
    LET r == req[p].rec IN
    /\ At(p, "revert")
    /\ rec' = IF IndexAllows(r, "RECORDING")
              THEN [rec EXCEPT ![r].status = "RECORDING"] ELSE rec
    /\ Done(p)
    /\ UNCHANGED External

-----------------------------------------------------------------------------
(* deleteRecording and deleteLibraryRecording *)

Delete(p, r) ==
    /\ At(p, "idle")
    /\ rec[r].status \in Finished /\ ~rec[r].expired /\ r \notin held
    /\ req' = [req EXCEPT ![p] = [Idle EXCEPT !.pc = "remove", !.rec = r]]
    /\ UNCHANGED <<rec, External>>

DeleteRemove(p) ==
    /\ At(p, "remove")
    /\ object' = object \ {req[p].rec}
    /\ Goto(p, "erase")
    /\ UNCHANGED <<rec, egress, held, lock>>

DeleteErase(p) ==
    LET r == req[p].rec IN
    /\ At(p, "erase")
    /\ rec' = IF rec[r].expired THEN rec
              ELSE [rec EXCEPT ![r].expired = TRUE, ![r].deleted = TRUE, ![r].sized = FALSE]
    /\ Done(p)
    /\ UNCHANGED External

-----------------------------------------------------------------------------
(* applyGovernanceRetention and purgeExpiredRecordingObjects *)

\* Every row past the retention period, which any row may be, unless it is held.
Expire(p) ==
    /\ At(p, "idle")
    /\ \E old \in SUBSET {r \in Recs : rec[r].status # "NONE"} :
          rec' = [r \in Recs |-> IF r \in old \ held
                                 THEN [rec[r] EXCEPT !.expired = TRUE] ELSE rec[r]]
    /\ req' = [req EXCEPT ![p] = [Idle EXCEPT !.pc = "purge"]]
    /\ UNCHANGED External

\* Mutant: only what is still in the store.
PurgeSelectStored(p) ==
    /\ At(p, "purge")
    /\ req' = [req EXCEPT ![p].pc = "purging",
                  ![p].todo = {r \in object : rec[r].expired /\ ~rec[r].deleted /\ r \notin held}]
    /\ UNCHANGED <<rec, External>>

PurgeSelect(p) ==
    /\ At(p, "purge")
    /\ req' = [req EXCEPT ![p].pc = "purging",
                  ![p].todo = {r \in Recs : rec[r].expired /\ ~rec[r].deleted /\ r \notin held}]
    /\ UNCHANGED <<rec, External>>

\* A transaction for each: take the resource's lock, then look for a hold again.
PurgeLock(p) ==
    /\ At(p, "purging")
    /\ \E r \in req[p].todo :
          /\ lock[r] = Free
          /\ IF r \in held
             THEN req' = [req EXCEPT ![p].todo = @ \ {r}] /\ UNCHANGED lock
             ELSE /\ req' = [req EXCEPT ![p].todo = @ \ {r}, ![p].rec = r,
                                        ![p].pc = "purgeRemove"]
                  /\ lock' = [lock EXCEPT ![r] = p]
    /\ UNCHANGED <<rec, egress, object, held>>

PurgeRemove(p) ==
    /\ At(p, "purgeRemove")
    /\ object' = object \ {req[p].rec}
    /\ Goto(p, "purgeErase")
    /\ UNCHANGED <<rec, egress, held, lock>>

\* The connection of the transaction is lost, and the lock with it; the purge does not know.
PurgeUnlocks(p) ==
    LET r == req[p].rec IN
    /\ req[p].pc \in {"purgeRemove", "purgeErase"} /\ lock[r] = p
    /\ lock' = [lock EXCEPT ![r] = Free]
    /\ UNCHANGED <<rec, egress, object, held, req>>

\* The UPDATE needs the transaction.
PurgeErase(p) ==
    LET r == req[p].rec IN
    /\ At(p, "purgeErase") /\ lock[r] = p
    /\ rec' = IF rec[r].expired /\ ~rec[r].deleted /\ r \notin held
              THEN [rec EXCEPT ![r].deleted = TRUE, ![r].sized = FALSE] ELSE rec
    /\ lock' = [lock EXCEPT ![r] = Free]
    /\ Goto(p, "purging")
    /\ UNCHANGED <<egress, object, held>>

\* RemoveObject fails, before or after the object is gone, or the UPDATE does: the
\* transaction rolls back and the pass goes on.
PurgeFails(p) ==
    LET r == req[p].rec IN
    /\ req[p].pc \in {"purgeRemove", "purgeErase"}
    /\ \/ At(p, "purgeRemove") /\ object' = object \ {r}
       \/ UNCHANGED object
    /\ lock' = [lock EXCEPT ![r] = IF @ = p THEN Free ELSE @]
    /\ Goto(p, "purging")
    /\ UNCHANGED <<rec, egress, held>>

PurgeDone(p) ==
    /\ At(p, "purging") /\ req[p].todo = {}
    /\ Done(p)
    /\ UNCHANGED <<rec, External>>

-----------------------------------------------------------------------------
(* legalHoldResource and releaseLegalHold *)

\* Mutant: does not take the resource's lock.
HoldUnlocked(p, r) ==
    /\ At(p, "idle")
    /\ rec[r].status # "NONE" /\ ~rec[r].deleted
    /\ req' = [req EXCEPT ![p] = [Idle EXCEPT !.pc = "hold", !.rec = r]]
    /\ UNCHANGED <<rec, External>>

\* PUT: in a transaction that holds the resource's lock, the object must not be
\* known deleted.
Hold(p, r) ==
    /\ At(p, "idle") /\ lock[r] = Free
    /\ rec[r].status # "NONE" /\ ~rec[r].deleted
    /\ lock' = [lock EXCEPT ![r] = p]
    /\ req' = [req EXCEPT ![p] = [Idle EXCEPT !.pc = "hold", !.rec = r]]
    /\ UNCHANGED <<rec, egress, object, held>>

HoldInsert(p) ==
    LET r == req[p].rec IN
    /\ At(p, "hold")
    /\ held' = held \cup {r}
    /\ lock' = [lock EXCEPT ![r] = IF @ = p THEN Free ELSE @]
    /\ Done(p)
    /\ UNCHANGED <<rec, egress, object>>

\* DELETE of the resource, or release of its hold: one statement, no lock.
Release(r) ==
    /\ r \in held /\ held' = held \ {r}
    /\ UNCHANGED <<rec, egress, object, lock, req>>

-----------------------------------------------------------------------------
(* LiveKit and failures *)

\* The room empties or closes and the egress ends by itself, or it breaks.
EgressEnds(r) ==
    /\ egress[r] = "running" /\ egress' \in {[egress EXCEPT ![r] = s] : s \in {"uploading", "failed"}}
    /\ UNCHANGED <<rec, object, held, lock, req>>

\* A multipart upload is visible when it is complete.
EgressUploads(r) ==
    /\ egress[r] = "uploading"
    /\ \/ egress' = [egress EXCEPT ![r] = "complete"] /\ object' = object \cup {r}
       \/ egress' = [egress EXCEPT ![r] = "failed"] /\ UNCHANGED object
    /\ UNCHANGED <<rec, held, lock, req>>

EgressForgotten(r) ==
    /\ egress[r] \in {"complete", "failed"} /\ egress' = [egress EXCEPT ![r] = "forgotten"]
    /\ UNCHANGED <<rec, object, held, lock, req>>

Abort(p) ==
    /\ req[p].pc # "idle"
    /\ lock' = [r \in Recs |-> IF lock[r] = p THEN Free ELSE lock[r]]
    /\ Done(p)
    /\ UNCHANGED <<rec, egress, object, held>>

-----------------------------------------------------------------------------
ReconcileNext(p) ==
    \/ ReconcileItem(p) \/ ReconcileComplete(p) \/ ReconcileFail(p)
    \/ ReconcileStat(p) \/ ReconcileReady(p) \/ ReconcileDone(p)

StartNext(p) ==
    StartInsert(p) \/ StartLaunch(p) \/ StartGiveUp(p) \/ StartSave(p) \/ StartHalt(p)

StopNext(p) == Stop(p) \/ StopEgress(p) \/ StopReady(p) \/ StopRevert(p)

DeleteNext(p) == (\E r \in Recs : Delete(p, r)) \/ DeleteRemove(p) \/ DeleteErase(p)

RetentionNext(p) ==
    \/ Expire(p) \/ PurgeSelect(p) \/ PurgeLock(p) \/ PurgeRemove(p)
    \/ PurgeUnlocks(p) \/ PurgeErase(p) \/ PurgeFails(p) \/ PurgeDone(p)

HoldNext(p) == (\E r \in Recs : Hold(p, r)) \/ HoldInsert(p)

LiveKit == \E r \in Recs : EgressEnds(r) \/ EgressUploads(r) \/ EgressForgotten(r)

Next ==
    \/ \E p \in Procs :
          \/ \E starts \in BOOLEAN : Reconcile(p, starts)
          \/ ReconcileNext(p) \/ StartNext(p) \/ StopNext(p) \/ DeleteNext(p)
          \/ RetentionNext(p) \/ HoldNext(p) \/ Abort(p)
    \/ \E r \in Recs : Release(r)
    \/ LiveKit

Spec == Init /\ [][Next]_vars

\* What a handler in flight does next.
Continue(p) ==
    \/ ReconcileNext(p) \/ StartNext(p) \/ StopEgress(p) \/ StopReady(p) \/ StopRevert(p)
    \/ DeleteRemove(p) \/ DeleteErase(p) \/ PurgeSelect(p) \/ PurgeLock(p) \/ PurgeRemove(p)
    \/ PurgeErase(p) \/ PurgeFails(p) \/ PurgeDone(p) \/ HoldInsert(p) \/ Abort(p)

\* A handler in flight goes on or fails.  The library is opened again and again, and
\* not every reconciliation it starts is cut short.  The governance worker ticks, and not
\* every purge of a recording is cut short or loses its lock.  LiveKit finishes an upload.
FairSpec ==
    /\ Spec
    /\ \A p \in Procs :
          /\ WF_vars(Continue(p))
          /\ SF_vars(Reconcile(p, FALSE))
          /\ SF_vars(ReconcileItem(p))
          /\ SF_vars(ReconcileComplete(p))
          /\ SF_vars(ReconcileFail(p))
          /\ SF_vars(ReconcileStat(p))
          /\ SF_vars(ReconcileReady(p))
          /\ SF_vars(Expire(p))
          /\ SF_vars(PurgeSelect(p))
          /\ SF_vars(PurgeLock(p))
          /\ SF_vars(PurgeRemove(p) /\ lock[req[p].rec] = p)
          /\ SF_vars(PurgeErase(p))
    /\ \A r \in Recs : WF_vars(EgressUploads(r))

-----------------------------------------------------------------------------
(* What must hold *)

\* While a purge that has the lock removes an object and marks its row, nobody can have
\* put the recording on hold: the hold and the purge take the same advisory lock, and the
\* purge looks for a hold again under it (purgeExpiredRecordingObjects).
PurgeSparesHeld ==
    \A p \in Procs : req[p].pc \in {"purgeRemove", "purgeErase"} /\ lock[req[p].rec] = p =>
        req[p].rec \notin held

\* A hold that is being placed has the lock: the part of the induction that keeps it and a
\* purge apart.
LockHeld ==
    /\ PurgeSparesHeld
    /\ \A p \in Procs : At(p, "hold") => lock[req[p].rec] = p

\* A stored object is lost while its recording is on hold only to one who removes it without
\* the lock of the resource: a delete, which looked for the hold before it was placed, or a
\* purge whose connection was lost.  Never to a purge under its lock, to a stop or to a
\* reconciliation (deleteRecording, purgeExpiredRecordingObjects).
HeldLostOnlyUnlocked ==
    [][\A r \in object \cap held : r \notin object' =>
         \E p \in Procs : /\ req[p].rec = r
                          /\ At(p, "remove") \/ (At(p, "purgeRemove") /\ lock[r] # p)]_vars

\* A meeting has one recording in progress at a time, whatever stops, reverts,
\* failures and reconciliations of two recordings interleave: a stop that fails
\* late brings its recording back only if no other has begun.
OneActiveRecording == \A r, s \in ActiveRecs : r = s

\* A recording whose egress is known and is complete leaves the list of active
\* recordings, unless retention hides it first: the library repairs a row that a
\* stop or a start left behind when its process died.
FinishedIsListed ==
    \A r \in Recs : (IsActive(r) /\ rec[r].egressId /\ egress[r] = "complete")
                       ~> (~IsActive(r) \/ rec[r].expired)

\* A recording that is READY without a size, as a stop leaves it, gets its size
\* from the uploaded object, unless the object or the listing is removed first.
UploadedIsSized ==
    \A r \in Recs : (rec[r].status = "READY" /\ r \in object)
                       ~> (rec[r].sized \/ rec[r].expired \/ r \notin object)

\* What retention has expired is marked as deleted in the end, or is on hold, though purges
\* fail or die between removing the object and marking the row: a later one finds the row
\* again, object or not (purgeExpiredRecordingObjects).
ExpiredIsPurged ==
    \A r \in Recs : rec[r].expired ~> (rec[r].deleted \/ r \in held)

-----------------------------------------------------------------------------
(* What the code says and does not do *)

\* "recording cannot be deleted while a legal hold is active" (deleteRecording).
HeldNeverRemoved == [][object \cap held \subseteq object']_vars
=============================================================================
