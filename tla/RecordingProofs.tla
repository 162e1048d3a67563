-------------------------- MODULE RecordingProofs --------------------------
(* Theorems about Recording for any set of handlers and number of recordings. *)
EXTENDS Recording, TLAPS

USE ProcsAssumption, MaxRecsAssumption

LEMMA RecsType == 1 \in Recs
BY DEF Recs

\* Erasing a row leaves a row.
LEMMA EraseType ==
    ASSUME NEW row \in Row
    PROVE  /\ [row EXCEPT !.expired = TRUE, !.deleted = TRUE, !.sized = FALSE] \in Row
           /\ [row EXCEPT !.deleted = TRUE, !.sized = FALSE] \in Row
BY DEF Row

LEMMA IdleType == Idle \in Request
BY RecsType DEF Idle, Request, Steps

\* A request that moves to another step, perhaps on another recording, is a request.
LEMMA MoveType ==
    ASSUME NEW q \in Request, NEW step \in Steps, NEW r \in Recs
    PROVE  /\ [q EXCEPT !.pc = step] \in Request
           /\ [q EXCEPT !.rec = r, !.pc = step] \in Request
           /\ [q EXCEPT !.pc = step, !.rec = r] \in Request
BY DEF Request

\* Every step of a reconciliation keeps the variables in their types.
LEMMA ReconcileType ==
    ASSUME TypeOK, NEW p \in Procs,
           (\E starts \in BOOLEAN : Reconcile(p, starts)) \/ ReconcileNext(p)
    PROVE  TypeOK'
<1> USE DEF TypeOK, At, Done, Goto, External
<1> USE IdleType
<1>0. /\ req[p] \in Request
      /\ req[p].rec \in Recs
      /\ \A q \in Request : [req EXCEPT ![p] = q] \in [Procs -> Request]
  BY DEF Request
<1>1. ASSUME NEW starts \in BOOLEAN, Reconcile(p, starts) PROVE TypeOK'
  <2> DEFINE stale == {r \in Recs : /\ ~rec[r].expired
                                    /\ IsActive(r) \/ (rec[r].status = "READY" /\ ~rec[r].sized)}
             items == {[rec |-> r, ask |-> rec[r].egressId /\ IsActive(r)] : r \in stale}
             begun == [Idle EXCEPT !.pc = "item", !.starts = starts, !.items = items]
  <2>1. items \in SUBSET Item
    <3>1. ASSUME NEW r \in stale
          PROVE  [rec |-> r, ask |-> rec[r].egressId /\ IsActive(r)] \in Item
      <4>1. (rec[r].egressId /\ IsActive(r)) \in BOOLEAN
        OBVIOUS
      <4> QED BY <4>1 DEF Item
    <3> QED BY <3>1
  <2>2. begun \in Request
    <3> HIDE DEF items
    <3> QED BY <2>1 DEF Idle, Request, Steps
  <2>3. req' = [req EXCEPT ![p] = begun] /\ UNCHANGED <<rec, External>>
    BY <1>1 DEF Reconcile
  <2> HIDE DEF begun
  <2> QED BY <1>0, <2>2, <2>3
<1>2. CASE ReconcileItem(p)
  <2>1. PICK i \in req[p].items, step \in {"complete", "fail", "stat"} :
          req' = [req EXCEPT ![p].items = @ \ {i}, ![p].rec = i.rec, ![p].pc = step]
    BY <1>2 DEF ReconcileItem, Answers
  <2>2. [req[p] EXCEPT !.items = @ \ {i}, !.rec = i.rec, !.pc = step] \in Request
    BY <1>0 DEF Request, Item, Steps
  <2> QED BY <1>2, <1>0, <2>1, <2>2 DEF ReconcileItem
<1>3. CASE ReconcileComplete(p)
  <2>1. PICK size \in BOOLEAN :
          /\ rec' = [rec EXCEPT ![req[p].rec].status = "READY", ![req[p].rec].sized = @ \/ size]
          /\ req' = [req EXCEPT ![p].pc = IF size THEN "item" ELSE "stat"]
    BY <1>3 DEF ReconcileComplete
  <2>2. rec' \in [Recs -> Row]
    <3>1. (rec[req[p].rec].sized \/ size) \in BOOLEAN
      OBVIOUS
    <3> QED BY <1>0, <2>1, <3>1 DEF Row, Finished
  <2>3. req' \in [Procs -> Request]
    BY <1>0, <2>1 DEF Request, Steps
  <2> QED BY <1>3, <2>2, <2>3 DEF ReconcileComplete
<1>4. CASE ReconcileFail(p)
  <2>1. rec' \in [Recs -> Row]
    BY <1>0, <1>4 DEF ReconcileFail, Row, Finished
  <2>2. req' \in [Procs -> Request]
    BY <1>0, <1>4 DEF ReconcileFail, Request, Steps
  <2> QED BY <1>4, <2>1, <2>2 DEF ReconcileFail
<1>5. CASE ReconcileStat(p)
  BY <1>0, <1>5 DEF ReconcileStat, Request, Steps
<1>6. CASE ReconcileReady(p)
  <2>1. rec' \in [Recs -> Row]
    BY <1>0, <1>6 DEF ReconcileReady, Row, Finished
  <2>2. req' \in [Procs -> Request]
    BY <1>0, <1>6 DEF ReconcileReady, Request, Steps
  <2> QED BY <1>6, <2>1, <2>2 DEF ReconcileReady
<1>7. CASE ReconcileDone(p)
  <2>1. [Idle EXCEPT !.pc = "insert"] \in Request
    BY MoveType, RecsType DEF Steps
  <2> QED BY <1>0, <1>7, <2>1 DEF ReconcileDone
<1> QED BY <1>1, <1>2, <1>3, <1>4, <1>5, <1>6, <1>7 DEF ReconcileNext

\* Every step that starts or stops a recording keeps the variables in their types.
LEMMA StartStopType ==
    ASSUME TypeOK, NEW p \in Procs, StartNext(p) \/ StopNext(p)
    PROVE  TypeOK'
<1> USE DEF TypeOK, At, Done, Goto, External
<1> USE IdleType
<1>0. /\ req[p] \in Request
      /\ req[p].rec \in Recs
      /\ \A q \in Request : [req EXCEPT ![p] = q] \in [Procs -> Request]
  BY DEF Request
<1>e. \A r \in Recs : StopCall(r) => egress' \in [Recs -> EgressStatus]
  BY DEF StopCall, EgressStatus
<1>1. CASE StartInsert(p)
  <2>1. ASSUME NEW r \in Recs,
               rec' = [rec EXCEPT ![r].status = "STARTING"],
               req' = [req EXCEPT ![p].pc = "launch", ![p].rec = r]
        PROVE  rec' \in [Recs -> Row] /\ req' \in [Procs -> Request]
    <3>1. rec' \in [Recs -> Row]
      BY <2>1 DEF Row, Active
    <3>2. req' \in [Procs -> Request]
      BY <1>0, <2>1 DEF Request, Steps
    <3> QED BY <3>1, <3>2
  <2> QED BY <1>1, <1>0, <2>1 DEF StartInsert
<1>2. CASE StartLaunch(p)
  <2>1. egress' \in [Recs -> EgressStatus]
    BY <1>0, <1>2 DEF StartLaunch, EgressStatus
  <2>2. req' \in [Procs -> Request]
    BY <1>0, <1>2 DEF StartLaunch, Request, Steps
  <2> QED BY <1>2, <2>1, <2>2 DEF StartLaunch
<1>3. CASE StartGiveUp(p)
  <2>1. rec' \in [Recs -> Row]
    BY <1>0, <1>3 DEF StartGiveUp, Row, Finished
  <2> QED BY <1>0, <1>3, <2>1 DEF StartGiveUp
<1>4. CASE StartSave(p)
  <2>1. rec' \in [Recs -> Row]
    BY <1>0, <1>4 DEF StartSave, Row, Active
  <2>2. req' \in [Procs -> Request]
    BY <1>0, <1>4 DEF StartSave, Request, Steps
  <2> QED BY <1>4, <2>1, <2>2 DEF StartSave
<1>5. CASE StartHalt(p)
  BY <1>0, <1>e, <1>5 DEF StartHalt
<1>6. CASE Stop(p)
  <2>1. PICK r \in Recs :
          /\ rec' = [rec EXCEPT ![r].status = "STOPPING"]
          /\ \/ req' = [req EXCEPT ![p] = [Idle EXCEPT !.pc = "stop", !.rec = r]]
             \/ req' = req
    BY <1>6 DEF Stop, ActiveRecs
  <2>2. rec' \in [Recs -> Row]
    BY <2>1 DEF Row, Active
  <2>3. [Idle EXCEPT !.pc = "stop", !.rec = r] \in Request
    BY MoveType DEF Steps
  <2> QED BY <1>0, <1>6, <2>1, <2>2, <2>3 DEF Stop
<1>7. CASE StopEgress(p)
  <2>1. egress' \in [Recs -> EgressStatus]
    BY <1>0, <1>e, <1>7 DEF StopEgress
  <2>2. req' \in [Procs -> Request]
    BY <1>0, <1>7 DEF StopEgress, Request, Steps
  <2> QED BY <1>7, <2>1, <2>2 DEF StopEgress
<1>8. CASE StopReady(p)
  <2>1. rec' \in [Recs -> Row]
    BY <1>0, <1>8 DEF StopReady, Row, Finished
  <2> QED BY <1>0, <1>8, <2>1 DEF StopReady
<1>9. CASE StopRevert(p)
  <2>1. rec' \in [Recs -> Row]
    BY <1>0, <1>9 DEF StopRevert, Row, Active
  <2> QED BY <1>0, <1>9, <2>1 DEF StopRevert
<1> QED BY <1>1, <1>2, <1>3, <1>4, <1>5, <1>6, <1>7, <1>8, <1>9 DEF StartNext, StopNext

\* Every step that removes, expires or holds a recording keeps the variables in
\* their types, and so does a failure.
LEMMA GovernanceType ==
    ASSUME TypeOK, NEW p \in Procs,
           DeleteNext(p) \/ RetentionNext(p) \/ HoldNext(p) \/ Abort(p)
    PROVE  TypeOK'
<1> USE DEF TypeOK, At, Done, Goto, External
<1> USE IdleType
<1>0. /\ req[p] \in Request
      /\ req[p].rec \in Recs
      /\ \A q \in Request : [req EXCEPT ![p] = q] \in [Procs -> Request]
  BY DEF Request
<1>1. ASSUME NEW r \in Recs, Delete(p, r) PROVE TypeOK'
  <2>1. [Idle EXCEPT !.pc = "remove", !.rec = r] \in Request
    BY MoveType DEF Steps
  <2> QED BY <1>0, <1>1, <2>1 DEF Delete
<1>2. CASE DeleteRemove(p)
  BY <1>0, <1>2 DEF DeleteRemove, Request, Steps
<1>3. CASE DeleteErase(p)
  <2>1. rec' \in [Recs -> Row]
    BY <1>0, <1>3, EraseType DEF DeleteErase
  <2> QED BY <1>0, <1>3, <2>1 DEF DeleteErase
<1>4. CASE Expire(p)
  <2>1. PICK old \in SUBSET Recs :
          rec' = [r \in Recs |-> IF r \in old \ held
                                 THEN [rec[r] EXCEPT !.expired = TRUE] ELSE rec[r]]
    BY <1>4 DEF Expire
  <2>2. rec' \in [Recs -> Row]
    <3>1. \A row \in Row : [row EXCEPT !.expired = TRUE] \in Row
      BY DEF Row
    <3> QED BY <2>1, <3>1
  <2>3. [Idle EXCEPT !.pc = "purge"] \in Request
    BY MoveType, RecsType DEF Steps
  <2> QED BY <1>0, <1>4, <2>2, <2>3 DEF Expire
<1>5. CASE PurgeSelect(p)
  <2>1. PICK todo \in SUBSET Recs : req' = [req EXCEPT ![p].pc = "purging", ![p].todo = todo]
    BY <1>5 DEF PurgeSelect
  <2>2. req' \in [Procs -> Request]
    BY <1>0, <2>1 DEF Request, Steps
  <2> QED BY <1>5, <2>2 DEF PurgeSelect
<1>6. CASE PurgeLock(p)
  <2>1. PICK r \in req[p].todo :
          \/ /\ req' = [req EXCEPT ![p].todo = @ \ {r}]
             /\ lock' = lock
          \/ /\ req' = [req EXCEPT ![p].todo = @ \ {r}, ![p].rec = r, ![p].pc = "purgeRemove"]
             /\ lock' = [lock EXCEPT ![r] = p]
    BY <1>6 DEF PurgeLock
  <2>2. r \in Recs
    BY <1>0 DEF Request
  <2>3. req' \in [Procs -> Request]
    BY <1>0, <2>1, <2>2 DEF Request, Steps
  <2> QED BY <1>6, <2>1, <2>2, <2>3 DEF PurgeLock
<1>7. CASE PurgeRemove(p)
  BY <1>0, <1>7 DEF PurgeRemove, Request, Steps
<1>8. CASE PurgeErase(p)
  <2>1. rec' \in [Recs -> Row]
    BY <1>0, <1>8, EraseType DEF PurgeErase
  <2>2. req' \in [Procs -> Request]
    BY <1>0, <1>8 DEF PurgeErase, Request, Steps
  <2> QED BY <1>8, <2>1, <2>2 DEF PurgeErase
<1>9. CASE PurgeDone(p)
  BY <1>0, <1>9 DEF PurgeDone
<1>10. ASSUME NEW r \in Recs, Hold(p, r) PROVE TypeOK'
  <2>1. [Idle EXCEPT !.pc = "hold", !.rec = r] \in Request
    BY MoveType DEF Steps
  <2> QED BY <1>0, <1>10, <2>1 DEF Hold
<1>11. CASE HoldInsert(p)
  BY <1>0, <1>11 DEF HoldInsert
<1>12. CASE Abort(p)
  BY <1>0, <1>12 DEF Abort
<1>13. CASE PurgeUnlocks(p)
  BY <1>0, <1>13 DEF PurgeUnlocks
<1>14. CASE PurgeFails(p)
  <2>1. req' \in [Procs -> Request]
    BY <1>0, <1>14 DEF PurgeFails, Request, Steps
  <2> QED BY <1>14, <2>1 DEF PurgeFails
<1> QED
  BY <1>1, <1>2, <1>3, <1>4, <1>5, <1>6, <1>7, <1>8, <1>9, <1>10, <1>11, <1>12, <1>13, <1>14
  DEF DeleteNext, RetentionNext, HoldNext

\* Every step keeps the variables in their types.
LEMMA TypeStep == TypeOK /\ [Next]_vars => TypeOK'
<1> SUFFICES ASSUME TypeOK, [Next]_vars PROVE TypeOK'
  OBVIOUS
<1>1. CASE UNCHANGED vars
  BY <1>1 DEF vars, TypeOK
<1>2. ASSUME NEW r \in Recs, Release(r) PROVE TypeOK'
  BY <1>2 DEF TypeOK, Release
<1>3. ASSUME NEW r \in Recs, EgressEnds(r) \/ EgressUploads(r) \/ EgressForgotten(r)
      PROVE  TypeOK'
  BY <1>3 DEF TypeOK, EgressEnds, EgressUploads, EgressForgotten, EgressStatus
<1> QED
  BY <1>1, <1>2, <1>3, ReconcileType, StartStopType, GovernanceType DEF Next, LiveKit

LEMMA TypeInit == Init => TypeOK
<1>1. NoRow \in Row
  BY DEF NoRow, Row
<1> QED BY <1>1, IdleType DEF Init, TypeOK, EgressStatus

\* Every variable of the recordings keeps its type.
THEOREM RecordingTypeCorrect == Spec => []TypeOK
BY TypeInit, TypeStep, PTL DEF Spec

-----------------------------------------------------------------------------
Locked == {"purgeRemove", "purgeErase", "hold"}

\* What a step of handler p does that neither takes a lock nor places a hold.
Unlocked(p) ==
    /\ lock' = lock /\ held' = held
    /\ \A q \in Procs \ {p} : req'[q] = req[q]
    /\ req'[p] = req[p] \/ req'[p].pc \notin Locked

LEMMA UnlockedKeeps ==
    ASSUME LockHeld, NEW p \in Procs, Unlocked(p) PROVE LockHeld'
BY DEF LockHeld, PurgeSparesHeld, Unlocked, Locked, At

\* Reconciling, starting, stopping and deleting leave locks and holds alone, and so
\* does retention outside its transactions.
LEMMA UnlockedStep ==
    ASSUME TypeOK, NEW p \in Procs,
           \/ \E starts \in BOOLEAN : Reconcile(p, starts)
           \/ ReconcileNext(p) \/ StartNext(p) \/ StopNext(p)
           \/ DeleteNext(p) \/ Expire(p) \/ PurgeSelect(p) \/ PurgeDone(p)
    PROVE  Unlocked(p)
<1> USE DEF At, Done, Goto, External
<1>i. Idle.pc = "idle" /\ Idle \in Request
  BY IdleType DEF Idle
<1>t. req \in [Procs -> Request] /\ req[p] \in Request
  BY DEF TypeOK
<1>1. ASSUME NEW starts \in BOOLEAN, Reconcile(p, starts) PROVE Unlocked(p)
  <2>1. PICK items : req' = [req EXCEPT ![p] = [Idle EXCEPT !.pc = "item", !.starts = starts,
                                                            !.items = items]]
    BY <1>1 DEF Reconcile
  <2> QED BY <1>1, <1>i, <1>t, <2>1 DEF Reconcile, Request, Unlocked, Locked
<1>2. CASE ReconcileItem(p)
  BY <1>2, <1>t DEF ReconcileItem, Answers, Request, Unlocked, Locked
<1>3. CASE ReconcileComplete(p)
  BY <1>3, <1>t DEF ReconcileComplete, Request, Unlocked, Locked
<1>4. CASE ReconcileFail(p)
  BY <1>4, <1>t DEF ReconcileFail, Request, Unlocked, Locked
<1>5. CASE ReconcileStat(p)
  BY <1>5, <1>t DEF ReconcileStat, Request, Unlocked, Locked
<1>6. CASE ReconcileReady(p)
  BY <1>6, <1>t DEF ReconcileReady, Request, Unlocked, Locked
<1>7. CASE ReconcileDone(p)
  BY <1>7, <1>i, <1>t DEF ReconcileDone, Request, Unlocked, Locked
<1>8. CASE StartInsert(p)
  BY <1>8, <1>i, <1>t DEF StartInsert, Request, Unlocked, Locked
<1>9. CASE StartLaunch(p)
  BY <1>9, <1>t DEF StartLaunch, Request, Unlocked, Locked
<1>10. CASE StartGiveUp(p)
  BY <1>10, <1>i, <1>t DEF StartGiveUp, Unlocked, Locked
<1>11. CASE StartSave(p)
  BY <1>11, <1>i, <1>t DEF StartSave, Request, Unlocked, Locked
<1>12. CASE StartHalt(p)
  BY <1>12, <1>i, <1>t DEF StartHalt, Unlocked, Locked
<1>13. CASE Stop(p)
  <2>1. PICK r \in Recs : \/ req' = [req EXCEPT ![p] = [Idle EXCEPT !.pc = "stop", !.rec = r]]
                          \/ req' = req
    BY <1>13 DEF Stop, ActiveRecs
  <2>2. [Idle EXCEPT !.pc = "stop", !.rec = r].pc = "stop"
    BY <1>i DEF Request
  <2> QED BY <1>13, <1>t, <2>1, <2>2 DEF Stop, Unlocked, Locked
<1>14. CASE StopEgress(p)
  BY <1>14, <1>t DEF StopEgress, Request, Unlocked, Locked
<1>15. CASE StopReady(p)
  BY <1>15, <1>i, <1>t DEF StopReady, Unlocked, Locked
<1>16. CASE StopRevert(p)
  BY <1>16, <1>i, <1>t DEF StopRevert, Unlocked, Locked
<1>17. ASSUME NEW r \in Recs, Delete(p, r) PROVE Unlocked(p)
  BY <1>17, <1>i, <1>t DEF Delete, Request, Unlocked, Locked
<1>18. CASE DeleteRemove(p)
  BY <1>18, <1>t DEF DeleteRemove, Request, Unlocked, Locked
<1>19. CASE DeleteErase(p)
  BY <1>19, <1>i, <1>t DEF DeleteErase, Unlocked, Locked
<1>20. CASE Expire(p)
  BY <1>20, <1>i, <1>t DEF Expire, Request, Unlocked, Locked
<1>21. CASE PurgeSelect(p)
  BY <1>21, <1>t DEF PurgeSelect, Request, Unlocked, Locked
<1>22. CASE PurgeDone(p)
  BY <1>22, <1>i, <1>t DEF PurgeDone, Unlocked, Locked
<1> QED
  BY <1>1, <1>2, <1>3, <1>4, <1>5, <1>6, <1>7, <1>8, <1>9, <1>10, <1>11, <1>12, <1>13,
     <1>14, <1>15, <1>16, <1>17, <1>18, <1>19, <1>20, <1>21, <1>22
  DEF ReconcileNext, StartNext, StopNext, DeleteNext

\* Every step keeps LockHeld: a handler past a lock keeps every other from it.
LEMMA LockStep == TypeOK /\ LockHeld /\ [Next]_vars => LockHeld'
<1> SUFFICES ASSUME TypeOK, LockHeld, [Next]_vars PROVE LockHeld'
  OBVIOUS
<1> USE DEF At, Done, Goto
<1>i. Idle.pc = "idle" /\ Idle \in Request
  BY IdleType DEF Idle
<1>t. /\ req \in [Procs -> Request] /\ lock \in [Recs -> Procs \cup {Free}]
      /\ \A p \in Procs : req[p] \in Request /\ req[p].rec \in Recs
  BY DEF TypeOK, Request
<1>0. CASE UNCHANGED vars
  BY <1>0 DEF vars, LockHeld, PurgeSparesHeld
<1>1. ASSUME NEW p \in Procs, PurgeLock(p) PROVE LockHeld'
  <2>1. PICK r \in req[p].todo :
          /\ lock[r] = Free
          /\ \/ /\ req' = [req EXCEPT ![p].todo = @ \ {r}]
                /\ lock' = lock
             \/ /\ r \notin held
                /\ req' = [req EXCEPT ![p].todo = @ \ {r}, ![p].rec = r, ![p].pc = "purgeRemove"]
                /\ lock' = [lock EXCEPT ![r] = p]
    BY <1>1 DEF PurgeLock
  <2>2. held' = held /\ r \in Recs /\ req[p].pc = "purging"
    BY <1>1, <1>t DEF PurgeLock, Request
  <2> QED BY <1>t, <2>1, <2>2, ProcsAssumption DEF LockHeld, PurgeSparesHeld, Request
<1>2. ASSUME NEW p \in Procs, PurgeRemove(p) PROVE LockHeld'
  BY <1>2, <1>t DEF PurgeRemove, LockHeld, PurgeSparesHeld, Request
<1>3. ASSUME NEW p \in Procs, PurgeErase(p) PROVE LockHeld'
  BY <1>3, <1>t DEF PurgeErase, LockHeld, PurgeSparesHeld, Request
<1>4. ASSUME NEW p \in Procs, NEW r \in Recs, Hold(p, r) PROVE LockHeld'
  BY <1>4, <1>t, <1>i DEF Hold, LockHeld, PurgeSparesHeld, Request
<1>5. ASSUME NEW p \in Procs, HoldInsert(p) PROVE LockHeld'
  BY <1>5, <1>t, <1>i DEF HoldInsert, LockHeld, PurgeSparesHeld
<1>6. ASSUME NEW p \in Procs, Abort(p) PROVE LockHeld'
  BY <1>6, <1>t, <1>i DEF Abort, LockHeld, PurgeSparesHeld
<1>7. ASSUME NEW r \in Recs, Release(r) PROVE LockHeld'
  BY <1>7 DEF Release, LockHeld, PurgeSparesHeld
<1>8. CASE LiveKit
  BY <1>8 DEF LiveKit, EgressEnds, EgressUploads, EgressForgotten, LockHeld, PurgeSparesHeld
<1>9. ASSUME NEW p \in Procs, PurgeUnlocks(p) \/ PurgeFails(p) PROVE LockHeld'
  <2>1. /\ \A r \in Recs : lock'[r] = lock[r] \/ (lock[r] = p /\ lock'[r] = Free)
        /\ held' = held
    BY <1>9, <1>t DEF PurgeUnlocks, PurgeFails
  <2>2. /\ req[p].pc # "hold" /\ \A q \in Procs : q # p => req'[q] = req[q]
        /\ req' = req \/ req'[p].pc = "purging"
    BY <1>9, <1>t DEF PurgeUnlocks, PurgeFails, Request
  <2> QED BY <1>t, <2>1, <2>2, ProcsAssumption DEF LockHeld, PurgeSparesHeld
<1> QED
  BY <1>0, <1>1, <1>2, <1>3, <1>4, <1>5, <1>6, <1>7, <1>8, <1>9, UnlockedStep, UnlockedKeeps
  DEF Next, RetentionNext, HoldNext

LEMMA LockInit == Init => LockHeld
BY DEF Init, Idle, LockHeld, PurgeSparesHeld, At

LEMMA LockInv == Spec => [](TypeOK /\ LockHeld)
<1>1. Init => TypeOK /\ LockHeld
  BY TypeInit, LockInit
<1>2. TypeOK /\ LockHeld /\ [Next]_vars => (TypeOK /\ LockHeld)'
  BY TypeStep, LockStep
<1> QED BY <1>1, <1>2, PTL DEF Spec

\* No purge that has its lock is removing, or marking removed, a recording on legal hold.
THEOREM PurgeNeverTouchesHeld == Spec => []PurgeSparesHeld
<1>1. LockHeld => PurgeSparesHeld
  BY DEF LockHeld
<1> QED BY <1>1, LockInv, PTL

\* A stored object on legal hold is lost only to a delete, whose check came first, or to a
\* purge whose connection, and lock, was lost (deleteRecording, purgeExpiredRecordingObjects).
THEOREM HeldObjectsSurvive == Spec => HeldLostOnlyUnlocked
<1> DEFINE WithoutLock(r) ==
      \E p \in Procs : /\ req[p].rec = r
                       /\ At(p, "remove") \/ (At(p, "purgeRemove") /\ lock[r] # p)
<1>1. TypeOK /\ LockHeld /\ [Next]_vars =>
        [\A r \in object \cap held : r \notin object' => WithoutLock(r)]_vars
  <2> SUFFICES ASSUME LockHeld, [Next]_vars, NEW r \in object \cap held, r \notin object'
               PROVE  WithoutLock(r)
    OBVIOUS
  <2>1. CASE \E p \in Procs : DeleteRemove(p)
    BY <2>1 DEF DeleteRemove
  <2>2. CASE \E p \in Procs : PurgeRemove(p) \/ PurgeFails(p)
    BY <2>2 DEF PurgeRemove, PurgeFails, LockHeld, PurgeSparesHeld, At
  <2>3. CASE LiveKit
    BY <2>3 DEF LiveKit, EgressEnds, EgressUploads, EgressForgotten
  <2>4. CASE object' = object
    BY <2>4
  <2>5. ASSUME NEW p \in Procs,
               \/ \E starts \in BOOLEAN : Reconcile(p, starts)
               \/ ReconcileNext(p) \/ StartNext(p) \/ StopNext(p)
        PROVE  object' = object
    BY <2>5 DEF External, Reconcile, ReconcileNext, ReconcileItem, ReconcileComplete,
       ReconcileFail, ReconcileStat, ReconcileReady, ReconcileDone, StartNext, StartInsert,
       StartLaunch, StartGiveUp, StartSave, StartHalt, StopNext, Stop, StopEgress, StopReady,
       StopRevert
  <2>6. ASSUME NEW p \in Procs,
               \/ \E s \in Recs : Delete(p, s) \/ Hold(p, s)
               \/ DeleteErase(p) \/ Expire(p) \/ PurgeSelect(p) \/ PurgeLock(p)
               \/ PurgeUnlocks(p) \/ PurgeErase(p) \/ PurgeDone(p) \/ HoldInsert(p) \/ Abort(p)
        PROVE  object' = object
    BY <2>6 DEF External, Delete, Hold, DeleteErase, Expire, PurgeSelect, PurgeLock,
       PurgeUnlocks, PurgeErase, PurgeDone, HoldInsert, Abort
  <2>7. CASE (\E s \in Recs : Release(s)) \/ UNCHANGED vars
    BY <2>7 DEF Release, vars
  <2> QED
    BY <2>1, <2>2, <2>3, <2>4, <2>5, <2>6, <2>7 DEF Next, DeleteNext, RetentionNext, HoldNext
<1> QED BY <1>1, LockInv, PTL DEF Spec, HeldLostOnlyUnlocked

-----------------------------------------------------------------------------
\* A write to row r keeps one active recording when the row it leaves is not
\* active, was active before, or is allowed by the index.
LEMMA OneWrite ==
    ASSUME OneActiveRecording, NEW r \in Recs,
           \A s \in Recs \ {r} : rec'[s].status = rec[s].status,
           \/ rec'[r].status \notin Active
           \/ IsActive(r)
           \/ IndexAllows(r, rec'[r].status)
    PROVE  OneActiveRecording'
BY DEF OneActiveRecording, ActiveRecs, IsActive, IndexAllows

\* A step that leaves every status alone.
LEMMA SameStatus ==
    ASSUME OneActiveRecording, \A s \in Recs : rec'[s].status = rec[s].status
    PROVE  OneActiveRecording'
BY DEF OneActiveRecording, ActiveRecs, IsActive

\* Every step keeps one active recording.
LEMMA OneStep == TypeOK /\ OneActiveRecording /\ [Next]_vars => OneActiveRecording'
<1> SUFFICES ASSUME TypeOK, OneActiveRecording, [Next]_vars PROVE OneActiveRecording'
  OBVIOUS
<1>t. /\ \A p \in Procs : req[p].rec \in Recs
      /\ rec \in [Recs -> Row] /\ \A r \in Recs : rec[r] \in Row
  BY DEF TypeOK, Request
<1>1. CASE rec' = rec
  BY <1>1, SameStatus
<1>2. ASSUME NEW p \in Procs,
             \/ ReconcileComplete(p) \/ ReconcileFail(p) \/ ReconcileReady(p)
             \/ StartGiveUp(p) \/ StopReady(p)
      PROVE  OneActiveRecording'
  <2>1. /\ \A s \in Recs \ {req[p].rec} : rec'[s].status = rec[s].status
        /\ rec'[req[p].rec].status \in {"READY", "FAILED"} \/ rec' = rec
    <3>1. CASE ReconcileComplete(p)
      <4>1. PICK size \in BOOLEAN :
              rec' = [rec EXCEPT ![req[p].rec].status = "READY",
                                 ![req[p].rec].sized = @ \/ size]
        BY <3>1 DEF ReconcileComplete
      <4> QED BY <4>1, <1>t DEF Row
    <3>2. CASE ReconcileFail(p)
      BY <3>2, <1>t DEF ReconcileFail, Row
    <3>3. CASE ReconcileReady(p)
      BY <3>3, <1>t DEF ReconcileReady, Row
    <3>4. CASE StartGiveUp(p) \/ StopReady(p)
      BY <3>4, <1>t DEF StartGiveUp, StopReady, Row
    <3> QED BY <1>2, <3>1, <3>2, <3>3, <3>4
  <2>2. CASE rec' # rec
    <3>1. rec'[req[p].rec].status \notin Active
      BY <2>1, <2>2 DEF Active
    <3> QED BY <2>1, <3>1, <1>t, OneWrite
  <2> QED BY <2>2, <1>1
<1>3. ASSUME NEW p \in Procs, StartInsert(p) PROVE OneActiveRecording'
  <2>1. CASE ActiveRecs = {}
    <3>1. PICK r \in Recs : rec' = [rec EXCEPT ![r].status = "STARTING"]
      BY <1>3, <2>1 DEF StartInsert
    <3>2. IndexAllows(r, rec'[r].status) /\ \A s \in Recs \ {r} : rec'[s].status = rec[s].status
      BY <2>1, <3>1, <1>t DEF IndexAllows
    <3> QED BY <3>2, OneWrite
  <2>2. CASE ActiveRecs # {}
    BY <1>1, <1>3, <2>2 DEF StartInsert
  <2> QED BY <2>1, <2>2
<1>4. ASSUME NEW p \in Procs, StartSave(p) \/ StopRevert(p) PROVE OneActiveRecording'
  <2>1. CASE rec' # rec
    <3>1. /\ IndexAllows(req[p].rec, "RECORDING")
          /\ rec'[req[p].rec].status = "RECORDING"
          /\ \A s \in Recs \ {req[p].rec} : rec'[s].status = rec[s].status
      <4>1. /\ IndexAllows(req[p].rec, "RECORDING")
            /\ \/ rec' = [rec EXCEPT ![req[p].rec].status = "RECORDING",
                                   ![req[p].rec].egressId = TRUE]
               \/ rec' = [rec EXCEPT ![req[p].rec].status = "RECORDING"]
        BY <1>4, <2>1 DEF StartSave, StopRevert
      <4> QED BY <4>1, <1>t DEF Row
    <3> QED BY <3>1, <1>t, OneWrite
  <2> QED BY <2>1, <1>1
<1>5. ASSUME NEW p \in Procs, Stop(p) PROVE OneActiveRecording'
  <2>1. PICK r \in ActiveRecs : rec' = [rec EXCEPT ![r].status = "STOPPING"]
    BY <1>5 DEF Stop
  <2>2. r \in Recs /\ IsActive(r) /\ \A s \in Recs \ {r} : rec'[s].status = rec[s].status
    BY <2>1, <1>t DEF ActiveRecs
  <2> QED BY <2>2, OneWrite
<1>6. ASSUME NEW p \in Procs, DeleteErase(p) \/ Expire(p) \/ PurgeErase(p)
      PROVE  OneActiveRecording'
  <2>1. \A s \in Recs : rec'[s].status = rec[s].status
    <3>1. CASE DeleteErase(p)
      BY <3>1, <1>t DEF DeleteErase, Row
    <3>2. CASE PurgeErase(p)
      BY <3>2, <1>t DEF PurgeErase, Row
    <3>3. CASE Expire(p)
      BY <3>3, <1>t DEF Expire, Row
    <3> QED BY <1>6, <3>1, <3>2, <3>3
  <2> QED BY <2>1, SameStatus
<1>7. ASSUME NEW p \in Procs,
             \/ \E starts \in BOOLEAN : Reconcile(p, starts)
             \/ ReconcileItem(p) \/ ReconcileStat(p) \/ ReconcileDone(p)
             \/ StartLaunch(p) \/ StartHalt(p) \/ StopEgress(p)
             \/ \E s \in Recs : Delete(p, s) \/ Hold(p, s)
             \/ DeleteRemove(p) \/ PurgeSelect(p) \/ PurgeLock(p) \/ PurgeRemove(p)
             \/ PurgeUnlocks(p) \/ PurgeFails(p) \/ PurgeDone(p) \/ HoldInsert(p) \/ Abort(p)
      PROVE  rec' = rec
  BY <1>7 DEF Reconcile, ReconcileItem, ReconcileStat, ReconcileDone, StartLaunch, StartHalt,
     StopEgress, Delete, Hold, DeleteRemove, PurgeSelect, PurgeLock, PurgeRemove, PurgeUnlocks,
     PurgeFails, PurgeDone, HoldInsert, Abort
<1>8. CASE LiveKit \/ (\E s \in Recs : Release(s)) \/ UNCHANGED vars
  <2>1. rec' = rec
    BY <1>8 DEF LiveKit, EgressEnds, EgressUploads, EgressForgotten, Release, vars
  <2> QED BY <2>1, <1>1
<1> QED
  BY <1>1, <1>2, <1>3, <1>4, <1>5, <1>6, <1>7, <1>8
  DEF Next, ReconcileNext, StartNext, StopNext, DeleteNext, RetentionNext, HoldNext

\* A meeting has one recording in progress, however many handlers start, stop,
\* revert and reconcile its recordings.
THEOREM OneRecordingAtATime == Spec => []OneActiveRecording
<1>1. Init => TypeOK /\ OneActiveRecording
  <2>1. Init => OneActiveRecording
    BY DEF Init, NoRow, OneActiveRecording, ActiveRecs, IsActive, Active
  <2> QED BY <2>1, TypeInit
<1>2. (TypeOK /\ OneActiveRecording) /\ [Next]_vars => (TypeOK /\ OneActiveRecording)'
  BY TypeStep, OneStep
<1> QED BY <1>1, <1>2, PTL DEF Spec
=============================================================================
