-------------------------- MODULE MeetingRoomProofs --------------------------
(* Theorems about MeetingRoom for any set of users, handlers and rows. *)
EXTENDS MeetingRoom, TLAPS

USE UsersAssumption, MaxRowsAssumption

\* Idle and the records a handler starts with are requests.
LEMMA IdleType == Idle \in Request
BY DEF Idle, Request, Steps

\* Every step keeps the variables in their types.
LEMMA TypeStep == TypeOK /\ [Next]_vars => TypeOK'
<1> SUFFICES ASSUME TypeOK, [Next]_vars PROVE TypeOK'
  OBVIOUS
<1> USE DEF TypeOK
<1> USE IdleType
<1>0. CASE UNCHANGED vars
  BY <1>0 DEF vars
<1>1. ASSUME NEW p \in Procs, NEW with \in Request, Begin(p, with) PROVE TypeOK'
  BY <1>1 DEF Begin
<1>2. ASSUME NEW p \in Procs, Arrive(p) PROVE TypeOK'
  <2>1. ASSUME NEW u \in Users, Join(p, u) PROVE TypeOK'
    <3>1. [Idle EXCEPT !.pc = "insert", !.user = u,
                       !.starts = (u = Host /\ meeting.status # "ACTIVE")] \in Request
      BY DEF Idle, Request, Steps
    <3> QED BY <3>1, <2>1, <1>1 DEF Join
  <2>2. ASSUME NEW u \in Users, Token(p, u) PROVE TypeOK'
    <3>1. PICK r \in RowIds :
            Begin(p, IF rows[r].status = "JOINED"
                     THEN [Idle EXCEPT !.pc = "sign", !.user = u]
                     ELSE [Idle EXCEPT !.pc = "restore", !.user = u, !.row = r])
      BY <2>2 DEF Token
    <3>2. /\ [Idle EXCEPT !.pc = "sign", !.user = u] \in Request
          /\ [Idle EXCEPT !.pc = "restore", !.user = u, !.row = r] \in Request
      BY DEF Idle, Request, Steps
    <3> QED BY <3>1, <3>2, <1>1
  <2>7. ASSUME NEW u \in Users, Leave(p, u) PROVE TypeOK'
    <3>1. PICK r \in RowIds : Begin(p, [Idle EXCEPT !.pc = "leave", !.row = r])
      BY <2>7 DEF Leave
    <3>2. [Idle EXCEPT !.pc = "leave", !.row = r] \in Request
      BY DEF Idle, Request, Steps
    <3> QED BY <3>1, <3>2, <1>1
  <2>3. ASSUME NEW u \in Users, List(p, u) PROVE TypeOK'
    <3>1. [Idle EXCEPT !.pc = "snapshot"] \in Request
      BY DEF Idle, Request, Steps
    <3> QED BY <3>1, <2>3, <1>1 DEF List
  <2>4. ASSUME NEW u \in Users, Delete(p, u) PROVE TypeOK'
    <3>1. [Idle EXCEPT !.pc = "delete"] \in Request
      BY DEF Idle, Request, Steps
    <3> QED BY <3>1, <2>4, <1>1 DEF Delete
  <2>5. ASSUME NEW u \in Users, NEW r \in RowIds, NEW act \in RowActions,
               Moderate(p, u, r, act)
        PROVE TypeOK'
    <3>1. [Idle EXCEPT !.pc = "update", !.row = r, !.act = act] \in Request
      BY DEF Idle, Request, Steps
    <3> QED BY <3>1, <2>5, <1>1 DEF Moderate
  <2>6. ASSUME NEW u \in Users, NEW act \in MeetingActions, Control(p, u, act) PROVE TypeOK'
    <3>1. [Idle EXCEPT !.pc = "control", !.act = act] \in Request
      BY DEF Idle, Request, Steps
    <3> QED BY <3>1, <2>6, <1>1 DEF Control
  <2> QED BY <1>2, <2>1, <2>2, <2>3, <2>4, <2>5, <2>6, <2>7 DEF Arrive
<1>3. ASSUME NEW p \in Procs, Continue(p) PROVE TypeOK'
  <2> USE DEF At, Done
  <2>1. CASE JoinInsert(p)
    <3>1. rows' \in [RowIds -> Row]
      <4>1. NewRow(req[p].user) \in Row
        BY DEF NewRow, JoinRole, Row, Roles, RowStatus, Active, Present, Request
      <4>2. ASSUME NEW u \in Users PROVE JoinRole(u) \in Roles
        BY DEF JoinRole, Roles
      <4>3. req[p].user \in Users
        BY DEF Request
      <4> QED BY <2>1, <4>1, <4>2, <4>3 DEF JoinInsert, Upsert, RowsOf, Row
    <3>2. [Idle EXCEPT !.pc = "activate"] \in Request
      BY DEF Idle, Request, Steps
    <3> QED BY <2>1, <3>1, <3>2 DEF JoinInsert
  <2>2. CASE JoinActivate(p)
    BY <2>2 DEF JoinActivate, MeetingStatus
  <2>3. CASE TokenRestore(p)
    <3>1. rows' \in [RowIds -> Row]
      BY <2>3 DEF TokenRestore, Row, RowStatus, Active, Present
    <3>2. [req[p] EXCEPT !.pc = "sign", !.row = 0] \in Request
      BY DEF Request, Steps
    <3> QED BY <2>3, <3>1, <3>2 DEF TokenRestore
  <2>4. CASE TokenSign(p)
    BY <2>4 DEF TokenSign, Request
  <2>5. CASE ReconcileSnapshot(p)
    <3>1. [req[p] EXCEPT !.live = live, !.pc = "select"] \in Request
      BY DEF Request, Steps
    <3> QED BY <2>5, <3>1 DEF ReconcileSnapshot
  <2>6. CASE ReconcileSelect(p)
    <3>1. PICK old \in SUBSET {r \in RowIds : rows[r].status \in Present} :
            req' = [req EXCEPT ![p] = [Idle EXCEPT !.pc = "reconcile",
                     !.todo = {[row |-> r, was |-> rows[r].status,
                                online |-> rows[r].user \in req[p].live] : r \in old}]]
      BY <2>6 DEF ReconcileSelect
    <3>2. {[row |-> r, was |-> rows[r].status,
            online |-> rows[r].user \in req[p].live] : r \in old} \in SUBSET Candidate
      <4>1. ASSUME NEW r \in old
            PROVE [row |-> r, was |-> rows[r].status,
                   online |-> rows[r].user \in req[p].live] \in Candidate
        <5>1. (rows[r].user \in req[p].live) \in BOOLEAN
          OBVIOUS
        <5>2. r \in RowIds /\ rows[r].status \in Present
          OBVIOUS
        <5> QED BY <5>1, <5>2 DEF Candidate
      <4> QED BY <4>1
    <3>3. [Idle EXCEPT !.pc = "reconcile",
              !.todo = {[row |-> r, was |-> rows[r].status,
                         online |-> rows[r].user \in req[p].live] : r \in old}] \in Request
      BY <3>2 DEF Idle, Request, Steps
    <3> QED BY <2>6, <3>1, <3>3 DEF ReconcileSelect
  <2>7. CASE ReconcileRow(p)
    <3>1. PICK c \in req[p].todo :
            /\ \E to \in Verdict(c) :
                  rows' = IF rows[c.row].status = c.was
                          THEN [rows EXCEPT ![c.row].status = to] ELSE rows
            /\ req' = [req EXCEPT ![p].todo = @ \ {c}]
      BY <2>7 DEF ReconcileRow
    <3>2. c \in Candidate
      BY DEF Request
    <3>3. Verdict(c) \subseteq RowStatus
      BY DEF Verdict, RowStatus, Active, Present, Gone
    <3>4. rows' \in [RowIds -> Row]
      BY <3>1, <3>2, <3>3 DEF Row, Candidate
    <3>5. [req[p] EXCEPT !.todo = @ \ {c}] \in Request
      BY DEF Request
    <3> QED BY <2>7, <3>1, <3>4, <3>5 DEF ReconcileRow
  <2>8. CASE ReconcileDone(p)
    BY <2>8 DEF ReconcileDone
  <2>9. CASE ModerateUpdate(p)
    <3>1. rows' \in [RowIds -> Row]
      <4>1. ASSUME NEW row \in Row, NEW act PROVE Moderated(row, act) \in Row
        BY DEF Moderated, Row, RowStatus, Roles, Active, Present, Gone
      <4>2. req[p].row \in RowIds => Moderated(rows[req[p].row], req[p].act) \in Row
        BY <4>1
      <4>3. rows' \in {rows, [rows EXCEPT ![req[p].row] = Moderated(rows[req[p].row], req[p].act)]}
        BY <2>9 DEF ModerateUpdate
      <4> QED BY <4>2, <4>3
    <3>2. [Idle EXCEPT !.pc = "sync", !.row = req[p].row] \in Request
      BY DEF Idle, Request, Steps
    <3> QED BY <2>9, <3>1, <3>2 DEF ModerateUpdate
  <2>10. CASE ModerateSync(p)
    BY <2>10 DEF ModerateSync
  <2>11. CASE ControlUpdate(p)
    <3>1. [Idle EXCEPT !.pc = "close"] \in Request
      BY DEF Idle, Request, Steps
    <3> QED BY <2>11, <3>1 DEF ControlUpdate, MeetingStatus
  <2>12. CASE ControlClose(p)
    BY <2>12 DEF ControlClose
  <2>13. CASE DeleteUpdate(p)
    BY <2>13 DEF DeleteUpdate, MeetingStatus
  <2>14. CASE LeaveUpdate(p)
    <3> DEFINE r == req[p].row
    <3>1. r \in RowIds => [rows[r] EXCEPT !.status = "LEFT"] \in Row
      BY DEF Row, RowStatus, Gone
    <3>2. rows' = [rows EXCEPT ![r] = [rows[r] EXCEPT !.status = "LEFT"]]
      BY <2>14 DEF LeaveUpdate
    <3>3. rows' \in [RowIds -> Row]
      BY <3>1, <3>2
    <3> QED BY <2>14, <3>3 DEF LeaveUpdate
  <2> QED BY <1>3, <2>1, <2>2, <2>3, <2>4, <2>5, <2>6, <2>7, <2>8, <2>9, <2>10, <2>11,
             <2>12, <2>13, <2>14 DEF Continue
<1>4. ASSUME NEW p \in Procs, Abort(p) PROVE TypeOK'
  BY <1>4 DEF Abort, Done
<1>5. CASE Worker
  <2>1. CASE WorkerSelect
    BY <2>1 DEF WorkerSelect
  <2>2. CASE WorkerExpire
    <3>1. rows' \in [RowIds -> Row]
      <4>1. ASSUME NEW r \in RowIds PROVE [rows[r] EXCEPT !.status = "LEFT"] \in Row
        BY DEF Row, RowStatus, Gone
      <4> QED BY <2>2, <4>1 DEF WorkerExpire
    <3>2. /\ meeting' \in {meeting, [meeting EXCEPT !.status = "ENDED", !.planEnded = TRUE]}
          /\ wk' \in {"idle", "close"}
          /\ UNCHANGED <<live, tokens, overdue, req>>
      BY <2>2 DEF WorkerExpire
    <3> QED BY <3>1, <3>2 DEF MeetingStatus
  <2>3. CASE WorkerClose
    BY <2>3 DEF WorkerClose
  <2>4. CASE WorkerMark
    BY <2>4 DEF WorkerMark
  <2> QED BY <1>5, <2>1, <2>2, <2>3, <2>4 DEF Worker
<1>6. CASE WorkerFail
  BY <1>6 DEF WorkerFail
<1>7. CASE LimitReached
  BY <1>7 DEF LimitReached
<1>8. CASE World
  BY <1>8 DEF World, Connect, Disconnect, TokenExpires
<1> QED BY <1>0, <1>2, <1>3, <1>4, <1>5, <1>6, <1>7, <1>8 DEF Next

\* The program starts well typed.
LEMMA TypeInit == Init => TypeOK
<1> SUFFICES ASSUME Init PROVE TypeOK
  OBVIOUS
<1>1. EmptyRow \in Row
  BY DEF EmptyRow, Row, Roles, RowStatus
<1>2. /\ rows \in [RowIds -> Row] /\ req \in [Procs -> Request]
      /\ live \in SUBSET Users /\ tokens \in SUBSET Users
      /\ overdue \in BOOLEAN /\ wk \in {"idle", "expire", "close", "mark"}
  BY <1>1, IdleType DEF Init
<1>3. meeting \in [status: MeetingStatus, locked: BOOLEAN, waitingRoom: BOOLEAN,
                   planEnded: BOOLEAN, roomClosed: BOOLEAN]
  BY DEF Init, MeetingStatus
<1> QED BY <1>2, <1>3 DEF TypeOK

\* Every variable keeps to its type.
THEOREM TypeCorrect == Spec => []TypeOK
<1> QED BY TypeInit, TypeStep, PTL DEF Spec

-----------------------------------------------------------------------------
(* What one step can do to a row: nothing, an evolution, an insertion, or the UPDATE of a *)
(* leave whose row is history by then.                                                   *)

\* A row that has not ended keeps its user and its standing among the roles; it is
\* past the waiting room only by admission; the host's is never removed.
Evolves(old, new) ==
    /\ old.status \in Active /\ new.status \in Active \cup Gone
    /\ new.user = old.user
    /\ old.admitted => new.admitted
    /\ old.status = "WAITING_ROOM" /\ new.status \in Present => new.admitted
    /\ new.status = "WAITING_ROOM" => old.status = "WAITING_ROOM"
    /\ (old.role = "HOST" <=> old.user = Host) => (new.role = "HOST" <=> new.user = Host)
    /\ (old.role = "GUEST" <=> old.user \in Guests) => (new.role = "GUEST" <=> new.user \in Guests)
    /\ new.status = "REMOVED" => old.role # "HOST"

Inserts(u, r) ==
    /\ rows[r].status = "NONE" /\ \A s \in RowIds : s < r => rows[s].status # "NONE"
    /\ \A s \in RowsOf(u) : rows[s].status \notin Active
    /\ rows' = [rows EXCEPT ![r] = NewRow(u)]

LeavesLate(p, r) ==
    /\ At(p, "leave") /\ req[p].row = r /\ rows[r].status \in Gone
    /\ rows' = [rows EXCEPT ![r].status = "LEFT"]

\* One row evolving is enough to know about an UPDATE by its key.
LEMMA EvolveOne ==
    ASSUME TypeOK, NEW r \in RowIds, NEW row \in Row,
           rows' = [rows EXCEPT ![r] = row], row = rows[r] \/ Evolves(rows[r], row)
    PROVE  \A s \in RowIds : rows'[s] = rows[s] \/ Evolves(rows[s], rows'[s])
BY DEF TypeOK

LEMMA RowStep ==
    ASSUME TypeOK, TargetsExist, Next
    PROVE  \/ \A r \in RowIds : rows'[r] = rows[r] \/ Evolves(rows[r], rows'[r])
           \/ \E u \in Users, r \in RowIds : Inserts(u, r)
           \/ \E p \in Procs, r \in RowIds : LeavesLate(p, r)
<1> DEFINE Evolving == \A r \in RowIds : rows'[r] = rows[r] \/ Evolves(rows[r], rows'[r])
           Inserting == \E u \in Users, r \in RowIds : Inserts(u, r)
           Late == \E p \in Procs, r \in RowIds : LeavesLate(p, r)
<1> SUFFICES Evolving \/ Inserting \/ Late
  OBVIOUS
<1>1. CASE UNCHANGED rows
  BY <1>1
<1>2. ASSUME NEW p \in Procs, JoinInsert(p) PROVE Evolving \/ Inserting
  <2> DEFINE u == req[p].user
  <2>0. u \in Users
    BY DEF TypeOK, Request
  <2>1. CASE \E r \in RowsOf(u) :
                /\ rows[r].status \in Active
                /\ rows' = [rows EXCEPT ![r].role =
                               IF u \in Externals \/ @ = "CO_HOST" THEN @ ELSE JoinRole(u)]
    <3>1. PICK r \in RowIds :
             /\ rows[r].user = u /\ rows[r].status \in Active
             /\ rows' = [rows EXCEPT ![r].role =
                            IF u \in Externals \/ @ = "CO_HOST" THEN @ ELSE JoinRole(u)]
      BY <2>1 DEF RowsOf
    <3> DEFINE role == IF u \in Externals \/ rows[r].role = "CO_HOST" THEN rows[r].role
                       ELSE JoinRole(u)
               row == [rows[r] EXCEPT !.role = role]
    <3>2. rows' = [rows EXCEPT ![r] = row]
      BY <3>1 DEF TypeOK
    <3>3. rows[r] \in Row
      BY DEF TypeOK
    <3>4. role \in Roles /\ JoinRole(u) \in Roles
      BY <3>3 DEF JoinRole, Roles, Row
    <3>5. row \in Row
      BY <3>3, <3>4 DEF Row
    <3>6. /\ (rows[r].role = "HOST" <=> u = Host) => (role = "HOST" <=> u = Host)
          /\ (rows[r].role = "GUEST" <=> u \in Guests) => (role = "GUEST" <=> u \in Guests)
      BY DEF JoinRole
    <3>7. /\ row.status = rows[r].status /\ row.user = u /\ row.role = role
          /\ row.admitted = rows[r].admitted
      BY <3>1, <3>3 DEF Row
    <3>8. Evolves(rows[r], row)
      BY <3>1, <3>6, <3>7 DEF Evolves, Active, Present
    <3> QED BY <3>2, <3>5, <3>8, EvolveOne
  <2>2. CASE /\ \A r \in RowsOf(u) : rows[r].status \notin Active
             /\ \E r \in RowIds :
                   /\ rows[r].status = "NONE"
                   /\ \A s \in RowIds : s < r => rows[s].status # "NONE"
                   /\ rows' = [rows EXCEPT ![r] = NewRow(u)]
    BY <2>0, <2>2 DEF Inserts
  <2> QED BY <1>2, <2>1, <2>2 DEF JoinInsert, Upsert
<1>3. ASSUME NEW p \in Procs, TokenRestore(p) PROVE Evolving
  <2> DEFINE r == req[p].row  row == [rows[r] EXCEPT !.status = "JOINED"]
  <2>1. CASE UNCHANGED rows
    BY <2>1
  <2>2. CASE rows[r].status = "DISCONNECTED" /\ rows' = [rows EXCEPT ![r].status = "JOINED"]
    <3>1. r \in RowIds /\ rows[r] \in Row
      BY <1>3 DEF TokenRestore, At, TargetsExist, TypeOK
    <3>2. row \in Row /\ Evolves(rows[r], row)
      BY <2>2, <3>1 DEF Row, RowStatus, Evolves, Active, Present
    <3>3. rows' = [rows EXCEPT ![r] = row]
      BY <2>2, <3>1 DEF TypeOK
    <3> QED BY <3>1, <3>2, <3>3, EvolveOne
  <2> QED BY <1>3, <2>1, <2>2 DEF TokenRestore
<1>4. ASSUME NEW p \in Procs, LeaveUpdate(p) PROVE Evolving \/ Late
  <2> DEFINE r == req[p].row  row == [rows[r] EXCEPT !.status = "LEFT"]
  <2>1. /\ r \in RowIds /\ rows[r] \in Row /\ rows[r].status # "NONE"
        /\ rows' = [rows EXCEPT ![r].status = "LEFT"]
    BY <1>4 DEF LeaveUpdate, At, TargetsExist, TypeOK
  <2>2. CASE rows[r].status \in Active
    <3>1. row \in Row /\ Evolves(rows[r], row)
      BY <2>1, <2>2 DEF Row, RowStatus, Evolves, Active, Present, Gone
    <3>2. rows' = [rows EXCEPT ![r] = row]
      BY <2>1 DEF TypeOK
    <3> QED BY <2>1, <3>1, <3>2, EvolveOne
  <2>3. CASE rows[r].status \in Gone
    <3>1. LeavesLate(p, r)
      BY <1>4, <2>1, <2>3 DEF LeavesLate, LeaveUpdate
    <3> QED BY <2>1, <3>1
  <2> QED BY <2>1, <2>2, <2>3 DEF Row, RowStatus
<1>5. ASSUME NEW p \in Procs, ReconcileRow(p) PROVE Evolving
  <2>1. PICK c \in req[p].todo : \E to \in Verdict(c) :
                  rows' = IF rows[c.row].status = c.was
                          THEN [rows EXCEPT ![c.row].status = to] ELSE rows
    BY <1>5 DEF ReconcileRow
  <2>2. PICK to \in Verdict(c) :
                  rows' = IF rows[c.row].status = c.was
                          THEN [rows EXCEPT ![c.row].status = to] ELSE rows
    BY <2>1
  <2>3. c \in Candidate
    BY DEF TypeOK, Request
  <2> DEFINE r == c.row  row == [rows[r] EXCEPT !.status = to]
  <2>4. r \in RowIds /\ rows[r] \in Row /\ c.was \in Present
    BY <2>3 DEF Candidate, TypeOK
  <2>5. to \in Present \cup {"LEFT"}
    BY DEF Verdict, Present
  <2>6. CASE rows[r].status = c.was
    <3>1. row \in Row
      BY <2>4, <2>5 DEF Row, RowStatus, Active, Gone
    <3>2. Evolves(rows[r], row)
      BY <2>4, <2>5, <2>6 DEF Row, Evolves, Active, Present, Gone
    <3>3. rows' = [rows EXCEPT ![r] = row]
      BY <2>2, <2>4, <2>6 DEF TypeOK
    <3> QED BY <2>4, <3>1, <3>2, <3>3, EvolveOne
  <2> QED BY <2>2, <2>6
<1>6. ASSUME NEW p \in Procs, ModerateUpdate(p) PROVE Evolving
  <2> DEFINE r == req[p].row  act == req[p].act  row == Moderated(rows[r], act)
  <2>1. r \in RowIds /\ rows[r].status # "NONE" /\ act \in RowActions /\ rows[r] \in Row
    BY <1>6 DEF ModerateUpdate, At, TargetsExist, TypeOK
  <2>2. CASE Allowed(rows[r], act) /\ rows' = [rows EXCEPT ![r] = row]
    <3>1. row \in Row
      BY <2>1 DEF Moderated, Row, RowStatus, Roles, Active, Present, Gone
    <3>2. Evolves(rows[r], row)
      <4>1. CASE act = "admit"
        BY <2>1, <2>2, <4>1 DEF Allowed, Moderated, Row, Evolves, Active, Present
      <4>2. CASE act = "promote"
        BY <2>1, <2>2, <4>2 DEF Allowed, Moderated, Row, Evolves, Active, Present
      <4>3. CASE act \in {"reject", "remove"}
        BY <2>1, <2>2, <4>3
        DEF Allowed, Moderated, Row, RowStatus, Evolves, Active, Present, Gone
      <4> QED BY <2>1, <4>1, <4>2, <4>3 DEF RowActions
    <3> QED BY <2>1, <2>2, <3>1, <3>2, EvolveOne
  <2> QED BY <1>6, <2>2 DEF ModerateUpdate
<1>7. ASSUME WorkerExpire PROVE Evolving
  <2>1. ASSUME NEW r \in RowIds PROVE rows'[r] = rows[r] \/ Evolves(rows[r], rows'[r])
    <3>1. rows[r] \in Row
      BY DEF TypeOK
    <3>2. rows'[r] = rows[r] \/ (rows[r].status \in Active
                                 /\ rows'[r] = [rows[r] EXCEPT !.status = "LEFT"])
      BY <1>7 DEF WorkerExpire
    <3> QED BY <3>1, <3>2 DEF Row, Evolves, Active, Present, Gone
  <2> QED BY <2>1
<1>8. ASSUME NEW p \in Procs, Arrive(p) PROVE UNCHANGED rows
  BY <1>8 DEF Arrive, Join, Token, Leave, List, Delete, Moderate, Control, Begin
<1>9. ASSUME NEW p \in Procs, Continue(p) PROVE Evolving \/ Inserting \/ Late
  BY <1>1, <1>2, <1>3, <1>4, <1>5, <1>6, <1>9
  DEF Continue, JoinActivate, TokenSign, ReconcileSnapshot, ReconcileSelect, ReconcileDone,
      ModerateSync, ControlUpdate, ControlClose, DeleteUpdate
<1>10. CASE Worker
  BY <1>1, <1>7, <1>10 DEF Worker, WorkerSelect, WorkerClose, WorkerMark
<1>11. CASE World
  BY <1>1, <1>11 DEF World, Connect, Disconnect, TokenExpires
<1>12. ASSUME NEW p \in Procs, Abort(p) PROVE UNCHANGED rows
  BY <1>12 DEF Abort
<1>13. CASE WorkerFail \/ LimitReached
  BY <1>1, <1>13 DEF WorkerFail, LimitReached
<1> QED BY <1>1, <1>8, <1>9, <1>10, <1>11, <1>12, <1>13 DEF Next

-----------------------------------------------------------------------------
(* What one step can do to the rest of the state. *)

\* A row once inserted stays, with its user and its admission.
LEMMA RowsPersist ==
    ASSUME TypeOK, TargetsExist, [Next]_vars
    PROVE  \A r \in RowIds : rows[r].status # "NONE" =>
              /\ rows'[r].status # "NONE" /\ rows'[r].user = rows[r].user
              /\ rows[r].admitted => rows'[r].admitted
<1>1. CASE UNCHANGED vars
  BY <1>1 DEF vars
<1>2. CASE Next
  <2>1. CASE \A r \in RowIds : rows'[r] = rows[r] \/ Evolves(rows[r], rows'[r])
    BY <2>1 DEF Evolves, Active, Present, Gone
  <2>2. CASE \E u \in Users, r \in RowIds : Inserts(u, r)
    BY <2>2 DEF Inserts, TypeOK
  <2>3. CASE \E p \in Procs, r \in RowIds : LeavesLate(p, r)
    BY <2>3 DEF LeavesLate, TypeOK, Row
  <2> QED BY <1>2, <2>1, <2>2, <2>3, RowStep
<1> QED BY <1>1, <1>2

\* How a handler comes to be about to restore a row, sign a token, moderate or leave a row.
ReqMove(p) ==
    \/ req'[p] = req[p]
    \/ req'[p].pc \notin {"restore", "sign", "update", "leave"}
    \/ /\ req'[p].pc \in {"restore", "sign"}
       /\ \E r \in RowIds : /\ rows[r].user = req'[p].user /\ rows[r].status \in Present
                            /\ req'[p].pc = "restore" => req'[p].row = r
    \/ /\ req[p].pc = "restore" /\ req'[p].pc = "sign" /\ req'[p].user = req[p].user
    \/ /\ req'[p].pc = "update" /\ req'[p].row \in RowIds
       /\ rows[req'[p].row].status # "NONE" /\ req'[p].act \in RowActions
    \/ /\ req'[p].pc = "leave" /\ req'[p].row \in RowIds
       /\ rows[req'[p].row].status # "NONE"

LEMMA ReqStep ==
    ASSUME TypeOK, Next, NEW p \in Procs
    PROVE  ReqMove(p)
<1> DEFINE Goal == ReqMove(p)
<1> USE DEF ReqMove
<1>0. req \in [Procs -> Request] /\ req[p] \in Request /\ Idle.pc = "idle"
  BY DEF TypeOK, Idle
<1>1. ASSUME NEW q \in Procs, NEW r, req' = [req EXCEPT ![q] = r],
             r.pc \notin {"restore", "sign", "update", "leave"}
      PROVE  Goal
  BY <1>0, <1>1
<1>2. ASSUME NEW q \in Procs, Done(q) PROVE Goal
  BY <1>0, <1>1, <1>2 DEF Done
<1>3. ASSUME NEW q \in Procs, Arrive(q) PROVE Goal
  <2>1. ASSUME NEW u \in Users, Join(q, u) \/ List(q, u) \/ Delete(q, u) PROVE Goal
    BY <1>1, <2>1 DEF Join, List, Delete, Begin, Idle
  <2>2. ASSUME NEW u \in Users, Token(q, u) PROVE Goal
    <3>1. PICK r \in RowIds :
            /\ IsLast(r, RowsOf(u)) /\ rows[r].status \in Present
            /\ req' = [req EXCEPT ![q] =
                 IF rows[r].status = "JOINED"
                 THEN [Idle EXCEPT !.pc = "sign", !.user = u]
                 ELSE [Idle EXCEPT !.pc = "restore", !.user = u, !.row = r]]
      BY <2>2 DEF Token, Begin
    <3>2. rows[r].user = u
      BY <3>1 DEF IsLast, RowsOf
    <3>3. CASE q = p
      BY <1>0, <3>1, <3>2, <3>3 DEF Idle
    <3> QED BY <1>0, <3>1, <3>3
  <2>3. ASSUME NEW u \in Users, NEW r \in RowIds, NEW act \in RowActions, Moderate(q, u, r, act)
        PROVE  Goal
    <3>1. CASE q = p
      BY <1>0, <2>3, <3>1 DEF Moderate, Begin, Idle
    <3> QED BY <1>0, <2>3, <3>1 DEF Moderate, Begin
  <2>4. ASSUME NEW u \in Users, NEW act \in MeetingActions, Control(q, u, act) PROVE Goal
    BY <1>1, <2>4 DEF Control, Begin, Idle
  <2>5. ASSUME NEW u \in Users, Leave(q, u) PROVE Goal
    <3>1. PICK r \in RowIds :
            /\ rows[r].status \in {"JOINED", "WAITING_ROOM"}
            /\ req' = [req EXCEPT ![q] = [Idle EXCEPT !.pc = "leave", !.row = r]]
      BY <2>5 DEF Leave, IsLast, Begin
    <3>2. CASE q = p
      BY <1>0, <3>1, <3>2 DEF Idle
    <3> QED BY <1>0, <3>1, <3>2
  <2> QED BY <1>3, <2>1, <2>2, <2>3, <2>4, <2>5 DEF Arrive
<1>4. ASSUME NEW q \in Procs, Continue(q) PROVE Goal
  <2>1. CASE JoinInsert(q)
    BY <1>0, <1>1, <2>1 DEF JoinInsert, Idle
  <2>2. CASE \/ JoinActivate(q) \/ TokenSign(q) \/ ReconcileDone(q) \/ ModerateSync(q)
             \/ ControlClose(q) \/ DeleteUpdate(q) \/ LeaveUpdate(q)
    BY <1>2, <2>2 DEF JoinActivate, TokenSign, ReconcileDone, ModerateSync, ControlClose,
                      DeleteUpdate, LeaveUpdate
  <2>3. CASE TokenRestore(q)
    BY <1>0, <1>2, <2>3 DEF TokenRestore, At, Request
  <2>4. CASE ReconcileSnapshot(q) \/ ReconcileRow(q)
    BY <1>0, <2>4 DEF ReconcileSnapshot, ReconcileRow, At, Request
  <2>5. CASE ReconcileSelect(q)
    BY <1>1, <2>5 DEF ReconcileSelect, Idle
  <2>6. CASE ModerateUpdate(q)
    <3>1. \/ Done(q) \/ req' = [req EXCEPT ![q] = Idle]
          \/ req' = [req EXCEPT ![q] = [Idle EXCEPT !.pc = "sync", !.row = req[q].row]]
      BY <2>6 DEF ModerateUpdate
    <3> QED BY <1>1, <1>2, <3>1 DEF Idle
  <2>7. CASE ControlUpdate(q)
    <3>1. \/ req' = [req EXCEPT ![q] = Idle]
          \/ req' = [req EXCEPT ![q] = [Idle EXCEPT !.pc = "close"]]
      BY <2>7 DEF ControlUpdate
    <3> QED BY <1>1, <3>1 DEF Idle
  <2> QED BY <1>4, <2>1, <2>2, <2>3, <2>4, <2>5, <2>6, <2>7 DEF Continue
<1>5. CASE Worker \/ WorkerFail \/ LimitReached \/ World
  BY <1>5 DEF Worker, WorkerSelect, WorkerExpire, WorkerClose, WorkerMark, WorkerFail,
     LimitReached, World, Connect, Disconnect, TokenExpires
<1> QED BY <1>2, <1>3, <1>4, <1>5 DEF Next, Abort

\* Tokens are signed by handlers at that step, connections need a token, and the
\* waiting room of a meeting is for good.
LEMMA MediaStep ==
    ASSUME TypeOK, Next
    PROVE  /\ tokens' \subseteq tokens \cup {req[p].user : p \in {q \in Procs : req[q].pc = "sign"}}
           /\ live' \subseteq live \cup tokens
           /\ meeting'.waitingRoom = meeting.waitingRoom
<1>1. ASSUME NEW p \in Procs, Arrive(p) PROVE UNCHANGED <<tokens, live, meeting>>
  BY <1>1 DEF Arrive, Join, Token, Leave, List, Delete, Moderate, Control, Begin
<1>2. ASSUME NEW p \in Procs, TokenSign(p)
      PROVE  tokens' = tokens \cup {req[p].user} /\ req[p].pc = "sign"
             /\ UNCHANGED <<live, meeting>>
  BY <1>2 DEF TokenSign, At
<1>3. ASSUME NEW p \in Procs, Continue(p), ~TokenSign(p)
      PROVE  tokens' = tokens /\ live' \subseteq live
             /\ meeting'.waitingRoom = meeting.waitingRoom
  BY <1>3 DEF Continue, JoinInsert, JoinActivate, TokenRestore, LeaveUpdate, ReconcileSnapshot,
     ReconcileSelect, ReconcileRow, ReconcileDone, ModerateUpdate, ModerateSync,
     ControlUpdate, ControlClose, DeleteUpdate, TypeOK
<1>4. CASE Worker
  BY <1>4 DEF Worker, WorkerSelect, WorkerExpire, WorkerClose, WorkerMark, TypeOK
<1>5. CASE WorkerFail \/ LimitReached \/ \E p \in Procs : Abort(p)
  BY <1>5 DEF WorkerFail, LimitReached, Abort
<1>6. CASE World
  BY <1>6 DEF World, Connect, Disconnect, TokenExpires
<1> QED BY <1>1, <1>2, <1>3, <1>4, <1>5, <1>6 DEF Next

-----------------------------------------------------------------------------
(* The inductive invariant, conjunct by conjunct. *)

\* The conjuncts about the rows alone follow from what a step does to rows.
LEMMA RowsInv ==
    ASSUME IInv, Next
    PROVE  RowsInOrder' /\ ActiveIsLatest' /\ RolesKept' /\ PresentAdmitted'
<1> USE DEF IInv
<1>0. rows \in [RowIds -> Row] /\ meeting'.waitingRoom = meeting.waitingRoom
  BY MediaStep DEF TypeOK
<1>1. CASE \A r \in RowIds : rows'[r] = rows[r] \/ Evolves(rows[r], rows'[r])
  <2>1. RowsInOrder'
    <3>1. \A r \in RowIds : rows'[r].user = rows[r].user
                            /\ (rows'[r].status = "NONE" <=> rows[r].status = "NONE")
      BY <1>1 DEF Evolves, Active, Present, Gone
    <3> QED BY <3>1 DEF RowsInOrder
  <2>2. ActiveIsLatest'
    <3>1. \A r \in RowIds : rows'[r].user = rows[r].user
                            /\ (rows'[r].status \in Active => rows[r].status \in Active)
      BY <1>1 DEF Evolves
    <3> QED BY <3>1 DEF ActiveIsLatest
  <2>3. RolesKept'
    <3>1. ASSUME NEW r \in RowIds, rows'[r].status # "NONE"
          PROVE  /\ rows'[r].role = "HOST" <=> rows'[r].user = Host
                 /\ rows'[r].role = "GUEST" <=> rows'[r].user \in Guests
                 /\ rows'[r].user = Host => rows'[r].status \notin {"REMOVED", "WAITING_ROOM"}
      <4>1. CASE rows'[r] = rows[r]
        BY <3>1, <4>1 DEF RolesKept
      <4>2. CASE Evolves(rows[r], rows'[r])
        <5>1. rows[r].status # "NONE"
          BY <4>2 DEF Evolves, Active, Present
        <5> QED BY <4>2, <5>1 DEF Evolves, RolesKept
      <4> QED BY <1>1, <4>1, <4>2
    <3> QED BY <3>1 DEF RolesKept
  <2>4. PresentAdmitted'
    <3>1. ASSUME meeting.waitingRoom, NEW r \in RowIds,
                 rows'[r].status \in Present, rows'[r].user # Host
          PROVE  rows'[r].admitted
      <4>1. CASE rows'[r] = rows[r]
        BY <3>1, <4>1 DEF PresentAdmitted
      <4>2. CASE Evolves(rows[r], rows'[r])
        BY <3>1, <4>2 DEF Evolves, PresentAdmitted, Active
      <4> QED BY <1>1, <4>1, <4>2
    <3> QED BY <1>0, <3>1 DEF PresentAdmitted
  <2> QED BY <2>1, <2>2, <2>3, <2>4
<1>2. ASSUME NEW u \in Users, NEW r \in RowIds, Inserts(u, r)
      PROVE  RowsInOrder' /\ ActiveIsLatest' /\ RolesKept' /\ PresentAdmitted'
  <2> DEFINE new == NewRow(u)
  <2>1. /\ new.user = u /\ new.role = JoinRole(u) /\ new.admitted = FALSE
        /\ new.status = IF meeting.waitingRoom /\ u # Host THEN "WAITING_ROOM" ELSE "JOINED"
    BY DEF NewRow
  <2>2. /\ rows'[r] = new /\ \A s \in RowIds \ {r} : rows'[s] = rows[s]
    BY <1>0, <1>2 DEF Inserts
  <2>3. rows[r].status = "NONE" /\ \A s \in RowIds : s < r => rows[s].status # "NONE"
    BY <1>2 DEF Inserts
  <2>4. \A s \in RowIds : rows[s].status # "NONE" => s < r
    <3>1. ASSUME NEW s \in RowIds, rows[s].status # "NONE", ~(s < r) PROVE FALSE
      <4>1. r < s
        BY <2>3, <3>1 DEF RowIds
      <4> QED BY <2>3, <3>1, <4>1 DEF RowsInOrder
    <3> QED BY <3>1
  <2>5. RowsInOrder'
    BY <2>1, <2>2, <2>3, <2>4 DEF RowsInOrder, RowIds
  <2>6. ActiveIsLatest'
    <3>1. ASSUME NEW x \in RowIds, NEW y \in RowIds,
                 rows'[x].status \in Active, rows'[y].user = rows'[x].user
          PROVE  y <= x
      <4>1. CASE x = r
        <5>1. CASE y = r
          BY <4>1, <5>1 DEF RowIds
        <5>2. CASE y # r
          <6>1. rows[y].user = u
            BY <2>1, <2>2, <3>1, <4>1, <5>2
          <6>2. rows[y].status # "NONE"
            BY <6>1 DEF RowsInOrder
          <6> QED BY <2>4, <4>1, <6>2 DEF RowIds
        <5> QED BY <5>1, <5>2
      <4>2. CASE x # r /\ y # r
        BY <2>2, <3>1, <4>2 DEF ActiveIsLatest
      <4>3. CASE x # r /\ y = r
        BY <1>2, <2>1, <2>2, <3>1, <4>3 DEF Inserts, RowsOf
      <4> QED BY <4>1, <4>2, <4>3
    <3> QED BY <3>1 DEF ActiveIsLatest
  <2>7. RolesKept'
    <3>1. /\ new.role = "HOST" <=> u = Host
          /\ new.role = "GUEST" <=> u \in Guests
      BY <2>1 DEF JoinRole
    <3> QED BY <2>1, <2>2, <3>1 DEF RolesKept
  <2>8. PresentAdmitted'
    BY <1>0, <2>1, <2>2 DEF PresentAdmitted, Present
  <2> QED BY <2>5, <2>6, <2>7, <2>8
<1>3. ASSUME NEW p \in Procs, NEW r \in RowIds, LeavesLate(p, r)
      PROVE  RowsInOrder' /\ ActiveIsLatest' /\ RolesKept' /\ PresentAdmitted'
  <2>1. \A s \in RowIds :
            /\ rows'[s].user = rows[s].user /\ rows'[s].role = rows[s].role
            /\ rows'[s].admitted = rows[s].admitted
            /\ \/ rows'[s].status = rows[s].status
               \/ rows[s].status \in Gone /\ rows'[s].status = "LEFT"
    BY <1>0, <1>3 DEF LeavesLate, Row
  <2>2. RowsInOrder'
    BY <2>1 DEF RowsInOrder, Gone
  <2>3. ActiveIsLatest'
    BY <2>1 DEF ActiveIsLatest, Active, Present
  <2>4. RolesKept'
    BY <2>1 DEF RolesKept, Gone
  <2>5. PresentAdmitted'
    BY <1>0, <2>1 DEF PresentAdmitted, Present
  <2> QED BY <2>2, <2>3, <2>4, <2>5
<1> QED BY <1>1, <1>2, <1>3, RowStep

\* A handler's target, once found, stays.
LEMMA TargetsInv ==
    ASSUME IInv, Next
    PROVE  TargetsExist'
<1> USE DEF IInv
<1> SUFFICES ASSUME NEW p \in Procs
    PROVE /\ req'[p].pc \in {"restore", "update", "leave"} =>
                req'[p].row \in RowIds /\ rows'[req'[p].row].status # "NONE"
          /\ req'[p].pc = "restore" => rows'[req'[p].row].user = req'[p].user
          /\ req'[p].pc = "update" => req'[p].act \in RowActions
  BY DEF TargetsExist
<1>1. \A r \in RowIds : rows[r].status # "NONE" =>
          rows'[r].status # "NONE" /\ rows'[r].user = rows[r].user
  BY RowsPersist
<1>2. ReqMove(p)
  BY ReqStep
<1>3. CASE req'[p] = req[p]
  BY <1>1, <1>3 DEF TargetsExist
<1>4. CASE /\ req'[p].pc \in {"restore", "sign"}
           /\ \E r \in RowIds : /\ rows[r].user = req'[p].user /\ rows[r].status \in Present
                                /\ req'[p].pc = "restore" => req'[p].row = r
  BY <1>1, <1>4 DEF Present
<1> QED BY <1>1, <1>2, <1>3, <1>4 DEF ReqMove

\* Whoever is about to be given a token has been admitted.
LEMMA SignersInv ==
    ASSUME IInv, Next
    PROVE  SignersAdmitted'
<1> USE DEF IInv
<1>0. meeting'.waitingRoom = meeting.waitingRoom
  BY MediaStep
<1> SUFFICES ASSUME meeting.waitingRoom, NEW p \in Procs,
                    req'[p].pc \in {"restore", "sign"}, req'[p].user # Host
             PROVE  \E r \in RowIds : rows'[r].user = req'[p].user /\ rows'[r].admitted
  BY <1>0 DEF SignersAdmitted, RowsOf
<1>1. \A r \in RowIds : rows[r].status # "NONE" =>
          rows'[r].user = rows[r].user /\ (rows[r].admitted => rows'[r].admitted)
  BY RowsPersist
<1>2. req[p].user \in Users /\ req'[p].user \in Users
  BY TypeStep DEF TypeOK, Request
<1>3. SUFFICES \E r \in RowIds : rows[r].user = req'[p].user /\ rows[r].admitted
  BY <1>1, <1>2 DEF RowsInOrder
<1>4. ReqMove(p)
  BY ReqStep
<1>5. CASE req'[p] = req[p]
  BY <1>5 DEF SignersAdmitted, RowsOf
<1>6. CASE req[p].pc = "restore" /\ req'[p].pc = "sign" /\ req'[p].user = req[p].user
  BY <1>6 DEF SignersAdmitted, RowsOf
<1>7. CASE \E r \in RowIds : rows[r].user = req'[p].user /\ rows[r].status \in Present
  BY <1>7 DEF PresentAdmitted
<1> QED BY <1>4, <1>5, <1>6, <1>7 DEF ReqMove

\* How a handler comes to be about to insert a row or to start the meeting.
LEMMA StarterStep ==
    ASSUME TypeOK, Next, NEW p \in Procs
    PROVE  \/ req'[p] = req[p]
           \/ req'[p].pc \notin {"insert", "activate"}
           \/ req'[p].pc = "insert" /\ (req'[p].starts => req'[p].user = Host)
           \/ /\ req[p].pc = "insert" /\ req[p].starts /\ Upsert(req[p].user)
              /\ req'[p].pc = "activate"
<1> DEFINE Goal == \/ req'[p] = req[p]
                   \/ req'[p].pc \notin {"insert", "activate"}
                   \/ req'[p].pc = "insert" /\ (req'[p].starts => req'[p].user = Host)
                   \/ /\ req[p].pc = "insert" /\ req[p].starts /\ Upsert(req[p].user)
                      /\ req'[p].pc = "activate"
<1> SUFFICES Goal
  OBVIOUS
<1>0. req \in [Procs -> Request] /\ req[p] \in Request /\ Idle.pc = "idle"
  BY DEF TypeOK, Idle
<1>1. ASSUME NEW q \in Procs, NEW next, req' = [req EXCEPT ![q] = next],
             next.pc \notin {"insert", "activate"}
      PROVE  Goal
  BY <1>0, <1>1
<1>2. ASSUME NEW q \in Procs, Done(q) PROVE Goal
  BY <1>0, <1>1, <1>2 DEF Done
<1>3. ASSUME NEW q \in Procs, Arrive(q) PROVE Goal
  <2>1. ASSUME NEW u \in Users, Join(q, u) PROVE Goal
    BY <1>0, <2>1 DEF Join, Begin, Idle
  <2>2. ASSUME NEW u \in Users, List(q, u) \/ Delete(q, u) PROVE Goal
    BY <1>1, <2>2 DEF List, Delete, Begin, Idle
  <2>3. ASSUME NEW u \in Users, Token(q, u) \/ Leave(q, u) PROVE Goal
    BY <1>1, <2>3 DEF Token, Leave, Begin, Idle
  <2>4. ASSUME NEW u \in Users, NEW r \in RowIds, NEW act \in RowActions, Moderate(q, u, r, act)
        PROVE  Goal
    BY <1>1, <2>4 DEF Moderate, Begin, Idle
  <2>5. ASSUME NEW u \in Users, NEW act \in MeetingActions, Control(q, u, act) PROVE Goal
    BY <1>1, <2>5 DEF Control, Begin, Idle
  <2> QED BY <1>3, <2>1, <2>2, <2>3, <2>4, <2>5 DEF Arrive
<1>4. ASSUME NEW q \in Procs, Continue(q) PROVE Goal
  <2>1. CASE JoinInsert(q)
    BY <1>0, <2>1 DEF JoinInsert, At, Idle
  <2>2. CASE \/ JoinActivate(q) \/ TokenSign(q) \/ ReconcileDone(q) \/ ModerateSync(q)
             \/ ControlClose(q) \/ DeleteUpdate(q) \/ LeaveUpdate(q)
    BY <1>2, <2>2 DEF JoinActivate, TokenSign, ReconcileDone, ModerateSync, ControlClose,
                      DeleteUpdate, LeaveUpdate
  <2>3. CASE TokenRestore(q)
    BY <1>0, <1>2, <2>3 DEF TokenRestore, At, Request
  <2>4. CASE ReconcileSnapshot(q) \/ ReconcileRow(q)
    BY <1>0, <2>4 DEF ReconcileSnapshot, ReconcileRow, At, Request
  <2>5. CASE ReconcileSelect(q)
    BY <1>1, <2>5 DEF ReconcileSelect, Idle
  <2>6. CASE ModerateUpdate(q)
    <3>1. \/ Done(q) \/ req' = [req EXCEPT ![q] = Idle]
          \/ req' = [req EXCEPT ![q] = [Idle EXCEPT !.pc = "sync", !.row = req[q].row]]
      BY <2>6 DEF ModerateUpdate
    <3> QED BY <1>1, <1>2, <3>1 DEF Idle
  <2>7. CASE ControlUpdate(q)
    BY <1>0, <2>7 DEF ControlUpdate, Idle
  <2> QED BY <1>4, <2>1, <2>2, <2>3, <2>4, <2>5, <2>6, <2>7 DEF Continue
<1>5. CASE Worker \/ WorkerFail \/ LimitReached \/ World
  BY <1>5 DEF Worker, WorkerSelect, WorkerExpire, WorkerClose, WorkerMark, WorkerFail,
     LimitReached, World, Connect, Disconnect, TokenExpires
<1> QED BY <1>2, <1>3, <1>4, <1>5 DEF Next, Abort

\* Whoever is about to start the meeting is the host, with a row.
LEMMA StartersInv ==
    ASSUME IInv, Next
    PROVE  StartersHosted'
<1> USE DEF IInv
<1> SUFFICES ASSUME NEW p \in Procs
    PROVE /\ req'[p].pc = "insert" /\ req'[p].starts => req'[p].user = Host
          /\ req'[p].pc = "activate" => \E r \in RowIds : rows'[r].user = Host
  BY DEF StartersHosted, RowsOf
<1>1. ASSUME NEW r \in RowIds, rows[r].user = Host
      PROVE  \E s \in RowIds : rows'[s].user = Host
  BY <1>1, RowsPersist DEF RowsInOrder
<1>2. CASE req'[p] = req[p]
  BY <1>1, <1>2 DEF StartersHosted, RowsOf
<1>3. CASE /\ req[p].pc = "insert" /\ req[p].starts /\ Upsert(req[p].user)
           /\ req'[p].pc = "activate"
  <2>1. req[p].user = Host
    BY <1>3 DEF StartersHosted
  <2>2. CASE \E r \in RowsOf(Host) : rows[r].status \in Active
    BY <1>1, <1>3, <2>2 DEF RowsOf
  <2>3. CASE \A r \in RowsOf(Host) : rows[r].status \notin Active
    <3>1. PICK r \in RowIds : rows' = [rows EXCEPT ![r] = NewRow(Host)]
      BY <1>3, <2>1, <2>3 DEF Upsert
    <3>2. rows'[r].user = Host
      BY <3>1 DEF NewRow, TypeOK
    <3> QED BY <1>3, <3>2
  <2> QED BY <2>2, <2>3
<1> QED BY <1>2, <1>3, StarterStep

\* Whoever holds a token, or is connected with one, has been admitted.
LEMMA MediaInv ==
    ASSUME IInv, Next
    PROVE  AdmittedOnly'
<1> USE DEF IInv
<1>0. meeting'.waitingRoom = meeting.waitingRoom
  BY MediaStep
<1> SUFFICES ASSUME meeting.waitingRoom, NEW u \in (tokens' \cup live') \ {Host}
             PROVE  \E r \in RowIds : rows'[r].user = u /\ rows'[r].admitted
  BY <1>0 DEF AdmittedOnly, RowsOf
<1>1. \A r \in RowIds : rows[r].status # "NONE" =>
          rows'[r].user = rows[r].user /\ (rows[r].admitted => rows'[r].admitted)
  BY RowsPersist
<1>2. u \in Users
  BY TypeStep DEF TypeOK
<1>3. SUFFICES \E r \in RowIds : rows[r].user = u /\ rows[r].admitted
  BY <1>1, <1>2 DEF RowsInOrder
<1>4. CASE u \in tokens \cup live
  BY <1>4 DEF AdmittedOnly, RowsOf
<1>5. CASE \E p \in Procs : req[p].pc = "sign" /\ u = req[p].user
  BY <1>5 DEF SignersAdmitted, RowsOf
<1>6. \/ u \in tokens \cup live
      \/ \E p \in Procs : req[p].pc = "sign" /\ u = req[p].user
  BY MediaStep
<1> QED BY <1>4, <1>5, <1>6

\* IInv is inductive: it holds at first and every step keeps it.
THEOREM Invariant == Spec => []IInv
<1>1. Init => IInv
  <2> SUFFICES ASSUME Init PROVE IInv
    OBVIOUS
  <2>1. TypeOK
    BY TypeInit
  <2>2. /\ \A r \in RowIds : rows[r] = EmptyRow
        /\ \A p \in Procs : req[p].pc = "idle"
        /\ tokens \cup live = {}
    BY DEF Init, Idle
  <2> QED BY <2>1, <2>2 DEF IInv, RowsInOrder, TargetsExist, PresentAdmitted, SignersAdmitted,
             StartersHosted, ActiveIsLatest, AdmittedOnly, RolesKept, EmptyRow, Active, Present
<1>2. IInv /\ [Next]_vars => IInv'
  <2> SUFFICES ASSUME IInv, [Next]_vars PROVE IInv'
    OBVIOUS
  <2>1. CASE Next
    <3>1. TypeOK'
      BY <2>1, TypeStep DEF IInv
    <3> QED BY <2>1, <3>1, RowsInv, TargetsInv, SignersInv, StartersInv, MediaInv DEF IInv
  <2>2. CASE UNCHANGED vars
    BY <2>2 DEF vars, IInv, TypeOK, RowsInOrder, TargetsExist, PresentAdmitted,
       SignersAdmitted, StartersHosted, ActiveIsLatest, AdmittedOnly, RolesKept, RowsOf
  <2> QED BY <2>1, <2>2
<1> QED BY <1>1, <1>2, PTL DEF Spec

\* README.md:56-57: nobody has a media token, or a connection, that a waiting room
\* has not let through.
THEOREM WaitingRoomHolds == Spec => []AdmittedOnly
<1>1. IInv => AdmittedOnly
  BY DEF IInv
<1> QED BY <1>1, Invariant, PTL

\* The row every handler looks for by created_at is the only one that is active.
THEOREM LatestRowIsTheSession == Spec => []ActiveIsLatest
<1>1. IInv => ActiveIsLatest
  BY DEF IInv
<1> QED BY <1>1, Invariant, PTL

\* No order of joins, promotions and removals puts the host out or a guest in charge.
THEOREM RolesAreKept == Spec => []RolesKept
<1>1. IInv => RolesKept
  BY DEF IInv
<1> QED BY <1>1, Invariant, PTL

\* LEFT and REMOVED rows do not come back, however late a handler writes, and only a
\* leave that was late itself rewrites one.
THEOREM GoneRowsStay == Spec => GoneStaysGone
<1> DEFINE Kept == \A r \in RowIds :
          /\ rows[r].status \in Gone =>
                \/ rows'[r] = rows[r]
                \/ /\ rows'[r] = [rows[r] EXCEPT !.status = "LEFT"]
                   /\ \E p \in Procs : At(p, "leave") /\ req[p].row = r
          /\ rows[r].status # "NONE" => rows'[r].user = rows[r].user
<1>1. IInv /\ [Next]_vars => [Kept]_vars
  <2> SUFFICES ASSUME IInv, Next PROVE Kept
    OBVIOUS
  <2>1. CASE \A r \in RowIds : rows'[r] = rows[r] \/ Evolves(rows[r], rows'[r])
    BY <2>1 DEF Evolves, Active, Present, Gone
  <2>2. CASE \E u \in Users, r \in RowIds : Inserts(u, r)
    BY <2>2 DEF Inserts, IInv, TypeOK, Gone
  <2>3. ASSUME NEW p \in Procs, NEW s \in RowIds, LeavesLate(p, s) PROVE Kept
    <3>1. /\ rows'[s] = [rows[s] EXCEPT !.status = "LEFT"] /\ rows'[s].user = rows[s].user
          /\ \A r \in RowIds \ {s} : rows'[r] = rows[r]
      BY <2>3 DEF LeavesLate, IInv, TypeOK, Row
    <3>2. At(p, "leave") /\ req[p].row = s
      BY <2>3 DEF LeavesLate
    <3> QED BY <3>1, <3>2
  <2> QED BY <2>1, <2>2, <2>3, RowStep DEF IInv
<1> QED BY <1>1, Invariant, PTL DEF Spec, GoneStaysGone

\* A meeting that is over is not started again.
THEOREM OverStaysOver == Spec => OverIsFinal
<1> DEFINE Kept == meeting.status \in Over => meeting'.status \in Over
<1>1. TypeOK /\ [Next]_vars => [Kept]_vars
  <2> SUFFICES ASSUME TypeOK, Next PROVE Kept
    OBVIOUS
  <2>1. ASSUME NEW p \in Procs, Arrive(p) PROVE Kept
    BY <2>1 DEF Arrive, Join, Token, Leave, List, Delete, Moderate, Control, Begin
  <2>2. ASSUME NEW p \in Procs, Continue(p) PROVE Kept
    BY <2>2 DEF Continue, JoinInsert, JoinActivate, TokenRestore, TokenSign, LeaveUpdate, ReconcileSnapshot,
       ReconcileSelect, ReconcileRow, ReconcileDone, ModerateUpdate, ModerateSync,
       ControlUpdate, ControlClose, DeleteUpdate, TypeOK, Over
  <2>3. CASE Worker
    BY <2>3 DEF Worker, WorkerSelect, WorkerExpire, WorkerClose, WorkerMark, TypeOK, Over
  <2>4. CASE WorkerFail \/ LimitReached \/ \E p \in Procs : Abort(p)
    BY <2>4 DEF WorkerFail, LimitReached, Abort
  <2>5. CASE World
    BY <2>5 DEF World, Connect, Disconnect, TokenExpires
  <2> QED BY <2>1, <2>2, <2>3, <2>4, <2>5 DEF Next
<1> QED BY <1>1, TypeCorrect, PTL DEF Spec, OverIsFinal
-----------------------------------------------------------------------------
(* The refinement: what the handlers do to the phase, the joins being served and the *)
(* seats, which the mapping of MeetingRoom reads from the rows and the requests.     *)

\* A handler that goes on without joining leaves the joins being served as they were;
\* one that has inserted its row, or stops, is no longer served unless another of the
\* same user is; one that arrives is served from then on.
LEMMA InvitedStep ==
    ASSUME TypeOK, NEW p \in Procs, NEW next, req' = [req EXCEPT ![p] = next]
    PROVE  /\ req[p].pc # "insert" /\ next.pc # "insert" => Invited' = Invited
           /\ req[p].pc = "insert" /\ next.pc # "insert" =>
                 /\ req[p].user \in Invited
                 /\ Invited' = Invited \/ Invited' = Invited \ {req[p].user}
           /\ req[p].pc # "insert" /\ next.pc = "insert" =>
                 Invited' = Invited \cup {next.user}
<1> DEFINE Others == {req[q].user : q \in {o \in Procs \ {p} : req[o].pc = "insert"}}
<1>1. req \in [Procs -> Request]
  BY DEF TypeOK
<1>2. Invited = Others \cup (IF req[p].pc = "insert" THEN {req[p].user} ELSE {})
  BY DEF Invited
<1>3. Invited' = Others \cup (IF next.pc = "insert" THEN {next.user} ELSE {})
  <2>1. \A q \in Procs : req'[q] = IF q = p THEN next ELSE req[q]
    BY <1>1
  <2> QED BY <2>1 DEF Invited
<1> HIDE DEF Others
<1> QED BY <1>2, <1>3

\* The seat that an active row gives its user.
SeatAt(status) == IF status = "WAITING_ROOM" THEN "waiting" ELSE "in"

\* The one active row of a user decides the seat.
LEMMA SeatIs ==
    ASSUME TypeOK, ActiveIsLatest, NEW r \in RowIds, rows[r].status \in Active
    PROVE  SeatOf(rows[r].user) = SeatAt(rows[r].status)
<1> DEFINE mine == {s \in RowsOf(rows[r].user) : rows[s].status \in Active}
<1>1. mine = {r}
  <2>1. r \in mine
    BY DEF RowsOf
  <2>2. ASSUME NEW s \in mine PROVE s = r
    <3>1. s \in RowIds /\ rows[s].status \in Active /\ rows[s].user = rows[r].user
      BY DEF RowsOf
    <3>2. s <= r /\ r <= s
      BY <3>1 DEF ActiveIsLatest
    <3> QED BY <3>1, <3>2 DEF RowIds
  <2> QED BY <2>1, <2>2
<1> QED BY <1>1 DEF SeatOf, SeatAt

\* A user without an active row has no seat.
LEMMA SeatOut ==
    ASSUME NEW u, \A r \in RowsOf(u) : rows[r].status \notin Active
    PROVE  SeatOf(u) = "out"
BY DEF SeatOf

\* Rows that keep user and status, or end as they had ended, keep everybody's seat.
LEMMA SeatKept ==
    ASSUME \A r \in RowIds : /\ rows'[r].user = rows[r].user
                             /\ \/ rows'[r].status = rows[r].status
                                \/ rows[r].status \in Gone /\ rows'[r].status \in Gone
    PROVE  SeatMap' = SeatMap /\ Hosted' = Hosted
<1>1. ASSUME NEW u PROVE RowsOf(u)' = RowsOf(u)
  BY DEF RowsOf
<1>2. ASSUME NEW u PROVE SeatOf(u)' = SeatOf(u)
  <2>1. \A r \in RowsOf(u) : /\ rows'[r].status \in Active <=> rows[r].status \in Active
                             /\ rows'[r].status = "WAITING_ROOM" <=> rows[r].status = "WAITING_ROOM"
    BY DEF RowsOf, Active, Present, Gone
  <2> QED BY <1>1, <2>1 DEF SeatOf
<1> QED BY <1>1, <1>2 DEF SeatMap, Hosted

\* An UPDATE of an active row moves its user's seat and no other.
LEMMA SeatMoves ==
    ASSUME TypeOK, RowsInOrder, ActiveIsLatest,
           NEW r \in RowIds, NEW row \in Row, rows' = [rows EXCEPT ![r] = row],
           rows[r].status \in Active, row.user = rows[r].user
    PROVE  LET u == rows[r].user IN
           /\ u \in Users /\ Hosted' = Hosted
           /\ SeatMap[u] = SeatAt(rows[r].status)
           /\ SeatMap' = [SeatMap EXCEPT ![u] =
                  IF row.status \in Active THEN SeatAt(row.status) ELSE "out"]
<1>1. PICK u \in Users : u = rows[r].user
  BY DEF TypeOK, RowsInOrder, Row, Active, Present
<1>2. \A s \in RowIds : rows'[s] = IF s = r THEN row ELSE rows[s]
  BY DEF TypeOK
<1>3. ASSUME NEW v PROVE RowsOf(v)' = RowsOf(v)
  BY <1>2 DEF RowsOf
<1>4. SeatOf(u) = SeatAt(rows[r].status)
  BY <1>1, SeatIs
<1>5. ASSUME NEW v \in Users \ {u} PROVE SeatOf(v)' = SeatOf(v)
  <2>1. \A s \in RowsOf(v) : rows'[s] = rows[s]
    BY <1>1, <1>2 DEF RowsOf
  <2> QED BY <1>3, <2>1 DEF SeatOf
<1>6. SeatOf(u)' = IF row.status \in Active THEN SeatAt(row.status) ELSE "out"
  <2>1. \A s \in RowsOf(u) : rows'[s].status \in Active <=> s = r /\ row.status \in Active
    <3>1. ASSUME NEW s \in RowsOf(u), rows[s].status \in Active PROVE s = r
      <4>1. s \in RowIds /\ rows[s].user = rows[r].user
        BY <1>1 DEF RowsOf
      <4>2. s <= r /\ r <= s
        BY <3>1, <4>1 DEF ActiveIsLatest
      <4> QED BY <4>1, <4>2 DEF RowIds
    <3> QED BY <1>2, <3>1 DEF RowsOf
  <2>2. r \in RowsOf(u)
    BY <1>1 DEF RowsOf
  <2>3. {s \in RowsOf(u) : rows'[s].status \in Active} =
            IF row.status \in Active THEN {r} ELSE {}
    BY <2>1, <2>2
  <2>4. rows'[r].status = row.status
    BY <1>2
  <2> QED BY <1>3, <2>3, <2>4 DEF SeatOf, SeatAt
<1>7. Hosted' = Hosted
  BY <1>3 DEF Hosted
<1> QED BY <1>1, <1>4, <1>5, <1>6, <1>7 DEF SeatMap

\* An INSERT gives its user, who had no seat, the seat of a new row.
LEMMA SeatTaken ==
    ASSUME TypeOK, RowsInOrder, NEW u \in Users, NEW r \in RowIds, Inserts(u, r)
    PROVE  /\ Hosted' = (Hosted \/ u = Host)
           /\ SeatMap[u] = "out"
           /\ SeatMap' = [SeatMap EXCEPT ![u] = SeatAt(NewRow(u).status)]
<1>1. /\ \A s \in RowIds : rows'[s] = IF s = r THEN NewRow(u) ELSE rows[s]
      /\ rows[r].user = NoUser
  BY DEF Inserts, TypeOK, RowsInOrder
<1>2. NewRow(u).user = u /\ NewRow(u).status \in Active
  BY DEF NewRow, Active, Present
<1>3. RowsOf(u)' = RowsOf(u) \cup {r} /\ r \notin RowsOf(u)
  BY <1>1, <1>2 DEF RowsOf
<1>4. ASSUME NEW v \in Users \ {u} PROVE RowsOf(v)' = RowsOf(v) /\ r \notin RowsOf(v)
  BY <1>1, <1>2 DEF RowsOf
<1>5. SeatOf(u) = "out"
  BY SeatOut DEF Inserts
<1>6. SeatOf(u)' = SeatAt(NewRow(u).status)
  <2>1. \A s \in RowsOf(u) : rows'[s].status \notin Active
    BY <1>1, <1>3 DEF Inserts, RowsOf
  <2>2. rows'[r] = NewRow(u)
    BY <1>1
  <2>3. {s \in RowsOf(u) \cup {r} : rows'[s].status \in Active} = {r}
    BY <1>2, <2>1, <2>2
  <2> QED BY <1>3, <2>2, <2>3 DEF SeatOf, SeatAt
<1>7. ASSUME NEW v \in Users \ {u} PROVE SeatOf(v)' = SeatOf(v)
  <2>1. \A s \in RowsOf(v) : rows'[s] = rows[s]
    BY <1>1, <1>4 DEF RowsOf
  <2> QED BY <1>4, <2>1 DEF SeatOf
<1>8. Hosted' = (Hosted \/ u = Host)
  BY <1>3, <1>4 DEF Hosted
<1> QED BY <1>5, <1>6, <1>7, <1>8 DEF SeatMap

-----------------------------------------------------------------------------
(* The handlers keep the promise of MeetingSeats: one lemma for each kind of step. *)

\* An UPDATE of one row that keeps it active or ends it: a seat is kept, given up or,
\* from the waiting room, granted.
LEMMA SeatStep ==
    ASSUME TypeOK, RowsInOrder, ActiveIsLatest,
           NEW r \in RowIds, NEW row \in Row, rows' = [rows EXCEPT ![r] = row],
           rows[r].status \in Active, row.user = rows[r].user, row.status # "NONE",
           row.status = "WAITING_ROOM" => rows[r].status = "WAITING_ROOM",
           UNCHANGED meeting, Invited' = Invited
    PROVE  Seats!Next \/ UNCHANGED Seats!seats
<1> DEFINE u == rows[r].user
<1>1. /\ u \in Users /\ Hosted' = Hosted
      /\ SeatMap[u] = SeatAt(rows[r].status)
      /\ SeatMap' = [SeatMap EXCEPT ![u] =
                        IF row.status \in Active THEN SeatAt(row.status) ELSE "out"]
  BY SeatMoves
<1>2. PhaseOf' = PhaseOf /\ meeting'.waitingRoom = meeting.waitingRoom
  BY DEF PhaseOf
<1>3. CASE row.status \notin Active
  <2>1. Seats!Vacate(u)
    BY <1>1, <1>2, <1>3 DEF Seats!Vacate, SeatAt
  <2> QED BY <1>1, <2>1 DEF Seats!Next
<1>4. CASE row.status \in Active /\ SeatAt(row.status) = SeatAt(rows[r].status)
  <2>1. SeatMap' = SeatMap
    BY <1>1, <1>4 DEF SeatMap
  <2> QED BY <1>1, <1>2, <2>1 DEF Seats!seats
<1>5. CASE row.status \in Active /\ SeatAt(row.status) # SeatAt(rows[r].status)
  <2>1. Seats!Admit(u)
    BY <1>1, <1>2, <1>5 DEF Seats!Admit, SeatAt
  <2> QED BY <1>1, <2>1 DEF Seats!Next
<1> QED BY <1>3, <1>4, <1>5

\* A step that leaves rows and meeting alone serves or drops a join at most.
LEMMA RequestStep ==
    ASSUME TypeOK, NEW p \in Procs, NEW next \in Request, req' = [req EXCEPT ![p] = next],
           UNCHANGED <<rows, meeting>>,
           next.pc = "insert" => req[p].pc = "idle" /\ meeting.status \notin Over
    PROVE  Seats!Next \/ UNCHANGED Seats!seats
<1>1. /\ SeatMap' = SeatMap /\ Hosted' = Hosted /\ PhaseOf' = PhaseOf
      /\ meeting'.waitingRoom = meeting.waitingRoom
  BY SeatKept DEF PhaseOf
<1>2. CASE Invited' = Invited
  BY <1>1, <1>2 DEF Seats!seats
<1>3. CASE req[p].pc = "insert" /\ next.pc # "insert" /\ Invited' # Invited
  <2>1. req[p].user \in Users
    BY DEF TypeOK, Request
  <2>2. Seats!Decline(req[p].user)
    BY <1>1, <1>3, InvitedStep DEF Seats!Decline
  <2> QED BY <2>1, <2>2 DEF Seats!Next
<1>4. CASE next.pc = "insert"
  <2>1. next.user \in Users
    BY DEF Request
  <2>2. Invited' = Invited \cup {next.user}
    BY <1>4, InvitedStep
  <2>3. PhaseOf # "over"
    BY <1>4 DEF PhaseOf
  <2>4. Seats!Invite(next.user)
    BY <1>1, <2>2, <2>3 DEF Seats!Invite
  <2> QED BY <2>1, <2>4 DEF Seats!Next
<1> QED BY <1>2, <1>3, <1>4, InvitedStep

\* A step that changes the status of the meeting only, to one that is over or, from one
\* that is not live, to ACTIVE with the host in.
LEMMA PhaseStep ==
    ASSUME TypeOK, UNCHANGED rows, Invited' = Invited,
           meeting'.waitingRoom = meeting.waitingRoom,
           \/ meeting'.status = meeting.status
           \/ meeting'.status \in Over
           \/ /\ meeting.status \in {"SCHEDULED", "WAITING"} /\ meeting'.status = "ACTIVE"
              /\ Hosted
    PROVE  Seats!Next \/ UNCHANGED Seats!seats
<1>1. SeatMap' = SeatMap /\ Hosted' = Hosted
  BY SeatKept
<1>2. CASE meeting'.status = meeting.status
  <2>1. PhaseOf' = PhaseOf
    BY <1>2 DEF PhaseOf
  <2> QED BY <1>1, <2>1 DEF Seats!seats
<1>3. CASE meeting'.status \in Over
  <2>1. PhaseOf' = "over"
    BY <1>3 DEF PhaseOf
  <2>2. Seats!Finish
    BY <1>1, <2>1 DEF Seats!Finish
  <2> QED BY <2>2 DEF Seats!Next
<1>4. CASE /\ meeting.status \in {"SCHEDULED", "WAITING"} /\ meeting'.status = "ACTIVE"
           /\ Hosted
  <2>1. PhaseOf = "pending" /\ PhaseOf' = "live"
    BY <1>4 DEF PhaseOf, Over
  <2>2. Seats!Start
    BY <1>1, <1>4, <2>1 DEF Seats!Start
  <2> QED BY <2>2 DEF Seats!Next
<1> QED BY <1>2, <1>3, <1>4

\* An insert takes the seat the join asked for, or finds it taken.
LEMMA InsertStep ==
    ASSUME IInv, NEW p \in Procs, JoinInsert(p)
    PROVE  Seats!Next
<1> USE DEF IInv
<1> DEFINE u == req[p].user
<1>1. /\ u \in Users /\ u \in Invited
      /\ Invited' = Invited \/ Invited' = Invited \ {u}
  <2>1. u \in Users
    BY DEF TypeOK, Request
  <2>2. PICK next : /\ next = IF req[p].starts THEN [Idle EXCEPT !.pc = "activate"] ELSE Idle
                    /\ req' = [req EXCEPT ![p] = next]
    BY DEF JoinInsert
  <2>3. next.pc # "insert" /\ req[p].pc = "insert"
    BY <2>2 DEF Idle, JoinInsert, At
  <2> QED BY <2>1, <2>2, <2>3, InvitedStep
<1>2. PhaseOf' = PhaseOf /\ meeting'.waitingRoom = meeting.waitingRoom
  BY DEF JoinInsert, PhaseOf
<1>3. SUFFICES Seats!Take(u)
  BY <1>1 DEF Seats!Next
<1>4. CASE \E r \in RowsOf(u) : rows[r].status \in Active
  <2>1. PICK r \in RowIds : /\ rows[r].user = u /\ rows[r].status \in Active
                            /\ rows' = [rows EXCEPT ![r].role =
                                  IF u \in Externals \/ @ = "CO_HOST" THEN @ ELSE JoinRole(u)]
    BY <1>4 DEF JoinInsert, Upsert, RowsOf
  <2>2. \A s \in RowIds : rows'[s].user = rows[s].user /\ rows'[s].status = rows[s].status
    BY <2>1 DEF TypeOK, Row
  <2>3. SeatMap' = SeatMap /\ Hosted' = Hosted
    BY <2>2, SeatKept
  <2>4. SeatMap[u] # "out"
    BY <1>1, <2>1, SeatIs DEF SeatMap, SeatAt
  <2>5. SeatMap' = [SeatMap EXCEPT ![u] = IF @ # "out" THEN @
                        ELSE IF meeting.waitingRoom /\ u # Host THEN "waiting" ELSE "in"]
    BY <1>1, <2>3, <2>4 DEF SeatMap
  <2>6. Hosted' = (Hosted \/ u = Host)
    BY <2>1, <2>3 DEF Hosted, RowsOf
  <2> QED BY <1>1, <1>2, <2>3, <2>4, <2>5, <2>6 DEF Seats!Take
<1>5. CASE \A r \in RowsOf(u) : rows[r].status \notin Active
  <2>1. PICK r \in RowIds : Inserts(u, r)
    BY <1>5 DEF JoinInsert, Upsert, Inserts
  <2>2. /\ Hosted' = (Hosted \/ u = Host) /\ SeatMap[u] = "out"
        /\ SeatMap' = [SeatMap EXCEPT ![u] = SeatAt(NewRow(u).status)]
    BY <1>1, <2>1, SeatTaken
  <2>3. SeatAt(NewRow(u).status) = IF meeting.waitingRoom /\ u # Host THEN "waiting" ELSE "in"
    BY DEF SeatAt, NewRow
  <2> QED BY <1>1, <1>2, <2>2, <2>3 DEF Seats!Take
<1> QED BY <1>4, <1>5

\* What an UPDATE of the status makes of a row.
LEMMA StatusUpdate ==
    ASSUME NEW old \in Row, NEW status \in RowStatus
    PROVE  \E row \in Row : /\ row = [old EXCEPT !.status = status]
                           /\ row.status = status /\ row.user = old.user
<1>1. [old EXCEPT !.status = status] \in Row
  BY DEF Row
<1>2. /\ [old EXCEPT !.status = status].status = status
      /\ [old EXCEPT !.status = status].user = old.user
  BY DEF Row
<1> QED BY <1>1, <1>2

\* Every step is one of the promise, or changes nothing it speaks of.
LEMMA SeatsNext ==
    ASSUME IInv, Next
    PROVE  Seats!Next \/ UNCHANGED Seats!seats
<1> DEFINE Goal == Seats!Next \/ UNCHANGED Seats!seats
<1> USE DEF IInv
<1> SUFFICES Goal
  OBVIOUS
<1>0. req \in [Procs -> Request] /\ Idle \in Request /\ Idle.pc = "idle"
  BY IdleType DEF TypeOK, Idle
<1>1. ASSUME NEW p \in Procs, Arrive(p) PROVE Goal
  <2>1. ASSUME NEW next \in Request, Begin(p, next),
               next.pc = "insert" => meeting.status \notin Over
        PROVE  Goal
    BY <2>1, RequestStep DEF Begin, At
  <2>2. ASSUME NEW u \in Users, Join(p, u) PROVE Goal
    <3>1. [Idle EXCEPT !.pc = "insert", !.user = u,
                       !.starts = (u = Host /\ meeting.status # "ACTIVE")] \in Request
      BY DEF Idle, Request, Steps
    <3>2. meeting.status \notin Over
      BY <2>2 DEF Join, FindMeetingForJoin, Over
    <3> QED BY <2>1, <2>2, <3>1, <3>2 DEF Join
  <2>3. ASSUME NEW u \in Users, Token(p, u) PROVE Goal
    <3>1. PICK r \in RowIds :
            Begin(p, IF rows[r].status = "JOINED"
                     THEN [Idle EXCEPT !.pc = "sign", !.user = u]
                     ELSE [Idle EXCEPT !.pc = "restore", !.user = u, !.row = r])
      BY <2>3 DEF Token
    <3>2. /\ [Idle EXCEPT !.pc = "sign", !.user = u] \in Request
          /\ [Idle EXCEPT !.pc = "restore", !.user = u, !.row = r] \in Request
      BY DEF Idle, Request, Steps
    <3> QED BY <2>1, <3>1, <3>2 DEF Idle
  <2>7. ASSUME NEW u \in Users, Leave(p, u) PROVE Goal
    <3>1. PICK r \in RowIds : Begin(p, [Idle EXCEPT !.pc = "leave", !.row = r])
      BY <2>7 DEF Leave
    <3>2. [Idle EXCEPT !.pc = "leave", !.row = r] \in Request
      BY DEF Idle, Request, Steps
    <3> QED BY <2>1, <3>1, <3>2 DEF Idle
  <2>4. ASSUME NEW u \in Users, List(p, u) \/ Delete(p, u) PROVE Goal
    <3>1. /\ [Idle EXCEPT !.pc = "snapshot"] \in Request
          /\ [Idle EXCEPT !.pc = "delete"] \in Request
      BY DEF Idle, Request, Steps
    <3> QED BY <2>1, <2>4, <3>1 DEF List, Delete, Idle
  <2>5. ASSUME NEW u \in Users, NEW r \in RowIds, NEW act \in RowActions, Moderate(p, u, r, act)
        PROVE  Goal
    <3>1. [Idle EXCEPT !.pc = "update", !.row = r, !.act = act] \in Request
      BY DEF Idle, Request, Steps
    <3> QED BY <2>1, <2>5, <3>1 DEF Moderate, Idle
  <2>6. ASSUME NEW u \in Users, NEW act \in MeetingActions, Control(p, u, act) PROVE Goal
    <3>1. [Idle EXCEPT !.pc = "control", !.act = act] \in Request
      BY DEF Idle, Request, Steps
    <3> QED BY <2>1, <2>6, <3>1 DEF Control, Idle
  <2> QED BY <1>1, <2>2, <2>3, <2>4, <2>5, <2>6, <2>7 DEF Arrive
<1>2. ASSUME NEW p \in Procs, NEW next \in Request, req' = [req EXCEPT ![p] = next],
             next.pc # "insert", UNCHANGED <<rows, meeting>>
      PROVE  Goal
  BY <1>2, RequestStep
<1>3. ASSUME NEW p \in Procs, Done(p), UNCHANGED <<rows, meeting>> PROVE Goal
  BY <1>0, <1>2, <1>3 DEF Done
<1>4. ASSUME NEW p \in Procs, NEW next \in Request, req' = [req EXCEPT ![p] = next],
             req[p].pc # "insert", next.pc # "insert"
      PROVE  Invited' = Invited
  BY <1>4, InvitedStep
<1>5. ASSUME NEW p \in Procs, Continue(p) PROVE Goal
  <2>1. CASE JoinInsert(p)
    BY <2>1, InsertStep
  <2>2. CASE JoinActivate(p)
    <3>1. Invited' = Invited
      BY <1>0, <1>4, <2>2 DEF JoinActivate, Done, At
    <3>2. Hosted
      BY <2>2 DEF JoinActivate, At, StartersHosted, Hosted
    <3>3. /\ meeting'.waitingRoom = meeting.waitingRoom
          /\ \/ meeting'.status = meeting.status
             \/ /\ meeting.status \in {"SCHEDULED", "WAITING"}
                /\ meeting'.status = "ACTIVE"
      BY <2>2 DEF JoinActivate, TypeOK
    <3> QED BY <2>2, <3>1, <3>2, <3>3, PhaseStep DEF JoinActivate
  <2>3. CASE \/ TokenSign(p) \/ ReconcileDone(p) \/ ModerateSync(p) \/ ControlClose(p)
    BY <1>3, <2>3 DEF TokenSign, ReconcileDone, ModerateSync, ControlClose
  <2>4. CASE TokenRestore(p)
    <3> DEFINE r == req[p].row
    <3>1. CASE rows[r].status # "DISCONNECTED"
      BY <1>3, <2>4, <3>1 DEF TokenRestore
    <3>2. CASE rows[r].status = "DISCONNECTED"
      <4>1. r \in RowIds
        BY <2>4 DEF TokenRestore, At, TargetsExist
      <4>2. PICK row \in Row : /\ row = [rows[r] EXCEPT !.status = "JOINED"]
                              /\ row.status = "JOINED" /\ row.user = rows[r].user
        <5>1. rows[r] \in Row /\ "JOINED" \in RowStatus
          BY <4>1 DEF TypeOK, RowStatus, Active, Present
        <5> QED BY <5>1, StatusUpdate
      <4>3. rows' = [rows EXCEPT ![r] = row]
        BY <2>4, <3>2, <4>1, <4>2 DEF TokenRestore, TypeOK
      <4>4. PICK next \in Request : next = [req[p] EXCEPT !.pc = "sign", !.row = 0]
        BY <1>0 DEF Request, Steps
      <4>5. next.pc = "sign" /\ req' = [req EXCEPT ![p] = next]
        BY <1>0, <2>4, <3>2, <4>4 DEF TokenRestore, Request
      <4>6. Invited' = Invited
        BY <1>4, <2>4, <4>5 DEF TokenRestore, At
      <4> QED BY <2>4, <3>2, <4>1, <4>2, <4>3, <4>6, SeatStep DEF TokenRestore, Active, Present
    <3> QED BY <3>1, <3>2
  <2>5. CASE ReconcileSnapshot(p)
    <3>1. PICK next \in Request : next = [req[p] EXCEPT !.live = live, !.pc = "select"]
      BY <1>0 DEF TypeOK, Request, Steps
    <3>2. next.pc = "select" /\ req' = [req EXCEPT ![p] = next]
      BY <1>0, <2>5, <3>1 DEF ReconcileSnapshot, Request
    <3> QED BY <1>2, <2>5, <3>2 DEF ReconcileSnapshot
  <2>6. CASE ReconcileSelect(p)
    <3>1. req' \in [Procs -> Request]
      BY TypeStep DEF TypeOK
    <3>2. PICK todo : req' = [req EXCEPT ![p] = [Idle EXCEPT !.pc = "reconcile", !.todo = todo]]
      BY <2>6 DEF ReconcileSelect
    <3>3. PICK next \in Request : next = [Idle EXCEPT !.pc = "reconcile", !.todo = todo]
      BY <1>0, <3>1, <3>2
    <3>4. next.pc = "reconcile" /\ req' = [req EXCEPT ![p] = next]
      BY <3>2, <3>3 DEF Idle
    <3> QED BY <1>2, <2>6, <3>4 DEF ReconcileSelect
  <2>7. CASE ReconcileRow(p)
    <3>0. PICK c \in req[p].todo :
            /\ \E to \in Verdict(c) :
                  rows' = IF rows[c.row].status = c.was
                          THEN [rows EXCEPT ![c.row].status = to] ELSE rows
            /\ req' = [req EXCEPT ![p].todo = @ \ {c}]
      BY <2>7 DEF ReconcileRow
    <3>1. PICK to \in Verdict(c) :
            rows' = IF rows[c.row].status = c.was
                    THEN [rows EXCEPT ![c.row].status = to] ELSE rows
      BY <3>0
    <3>2. c \in Candidate
      BY <1>0 DEF Request
    <3>3. PICK next \in Request : next = [req[p] EXCEPT !.todo = @ \ {c}]
      BY <1>0 DEF Request
    <3>4. /\ req' = [req EXCEPT ![p] = next]
          /\ req[p].pc = "reconcile" /\ next.pc = "reconcile"
      BY <1>0, <2>7, <3>0, <3>3 DEF ReconcileRow, At, Request
    <3>5. CASE rows[c.row].status # c.was
      BY <1>2, <2>7, <3>1, <3>4, <3>5 DEF ReconcileRow
    <3>6. CASE rows[c.row].status = c.was
      <4>1. c.row \in RowIds /\ c.was \in Present
        BY <3>2 DEF Candidate
      <4>2. to \in Present \cup {"LEFT"}
        BY DEF Verdict, Present
      <4>3. PICK row \in Row : /\ row = [rows[c.row] EXCEPT !.status = to]
                              /\ row.status = to /\ row.user = rows[c.row].user
        <5>1. rows[c.row] \in Row /\ to \in RowStatus
          BY <4>1, <4>2 DEF TypeOK, RowStatus, Active, Gone
        <5> QED BY <5>1, StatusUpdate
      <4>4. rows' = [rows EXCEPT ![c.row] = row]
        BY <3>1, <3>6, <4>1, <4>3 DEF TypeOK
      <4>5. Invited' = Invited
        BY <1>4, <3>4
      <4> QED BY <2>7, <3>6, <4>1, <4>2, <4>3, <4>4, <4>5, SeatStep
              DEF ReconcileRow, Active, Present
    <3> QED BY <3>5, <3>6
  <2>8. CASE ModerateUpdate(p)
    <3> DEFINE r == req[p].row  act == req[p].act
    <3>1. CASE ~Allowed(rows[r], act)
      BY <1>3, <2>8, <3>1 DEF ModerateUpdate
    <3>2. CASE Allowed(rows[r], act)
      <4>1. r \in RowIds /\ rows[r].status # "NONE" /\ act \in RowActions
        BY <2>8 DEF ModerateUpdate, At, TargetsExist
      <4>2. rows[r] \in Row /\ rows[r].status \in Active
        BY <3>2, <4>1
        DEF TypeOK, Row, RowStatus, Allowed, RowActions, Active, Present, Gone
      <4>3. PICK row \in Row : row = Moderated(rows[r], act)
        BY <4>2 DEF Moderated, Row, RowStatus, Roles, Active, Present, Gone
      <4>4. /\ row.user = rows[r].user
            /\ row.status \in {rows[r].status, "JOINED", "REMOVED"}
        BY <4>2, <4>3 DEF Moderated, Row
      <4>5. rows' = [rows EXCEPT ![r] = row]
        BY <2>8, <3>2, <4>3 DEF ModerateUpdate
      <4>6. Invited' = Invited
        <5>1. PICK next \in Request :
                 next = IF act = "remove" THEN [Idle EXCEPT !.pc = "sync", !.row = r] ELSE Idle
          BY <4>1, IdleType DEF Idle, Request, Steps
        <5>2. next.pc # "insert"
          BY <5>1 DEF Idle
        <5> QED BY <1>4, <2>8, <3>2, <5>1, <5>2 DEF ModerateUpdate, At
      <4> QED BY <2>8, <4>1, <4>2, <4>4, <4>5, <4>6, SeatStep DEF ModerateUpdate
    <3> QED BY <3>1, <3>2
  <2>9. CASE ControlUpdate(p)
    <3>1. PICK next \in Request :
             next = IF req[p].act = "end" THEN [Idle EXCEPT !.pc = "close"] ELSE Idle
      BY IdleType DEF Idle, Request, Steps
    <3>2. Invited' = Invited
      BY <1>4, <2>9, <3>1 DEF ControlUpdate, At, Idle
    <3>3. /\ meeting'.waitingRoom = meeting.waitingRoom
          /\ meeting'.status = meeting.status \/ meeting'.status = "ENDED"
      BY <2>9 DEF ControlUpdate, TypeOK
    <3> QED BY <2>9, <3>2, <3>3, PhaseStep DEF ControlUpdate, Over
  <2>10. CASE DeleteUpdate(p)
    <3>1. Invited' = Invited
      BY <1>0, <1>4, <2>10 DEF DeleteUpdate, Done, At
    <3>2. /\ meeting'.waitingRoom = meeting.waitingRoom
          /\ meeting'.status = meeting.status \/ meeting'.status = "CANCELLED"
      BY <2>10 DEF DeleteUpdate, TypeOK
    <3> QED BY <2>10, <3>1, <3>2, PhaseStep DEF DeleteUpdate, Over
  <2>11. CASE LeaveUpdate(p)
    <3> DEFINE r == req[p].row
    <3>1. Invited' = Invited
      BY <1>0, <1>4, <2>11 DEF LeaveUpdate, Done, At
    <3>2. r \in RowIds /\ rows[r] \in Row /\ rows[r].status # "NONE"
      BY <2>11 DEF LeaveUpdate, At, TargetsExist, TypeOK
    <3>3. PICK row \in Row : /\ row = [rows[r] EXCEPT !.status = "LEFT"]
                            /\ row.status = "LEFT" /\ row.user = rows[r].user
      <4>1. "LEFT" \in RowStatus
        BY DEF RowStatus, Gone
      <4> QED BY <3>2, <4>1, StatusUpdate
    <3>4. rows' = [rows EXCEPT ![r] = row]
      BY <2>11, <3>2, <3>3 DEF LeaveUpdate, TypeOK
    <3>5. CASE rows[r].status \in Active
      BY <2>11, <3>1, <3>2, <3>3, <3>4, <3>5, SeatStep DEF LeaveUpdate, Active, Present
    <3>6. CASE rows[r].status \in Gone
      <4>1. SeatMap' = SeatMap /\ Hosted' = Hosted
        <5>1. \A s \in RowIds : /\ rows'[s].user = rows[s].user
                                /\ \/ rows'[s].status = rows[s].status
                                   \/ rows[s].status \in Gone /\ rows'[s].status \in Gone
          BY <3>3, <3>4, <3>6 DEF TypeOK, Gone
        <5> QED BY <5>1, SeatKept
      <4>2. PhaseOf' = PhaseOf /\ meeting' = meeting
        BY <2>11 DEF LeaveUpdate, PhaseOf
      <4> QED BY <3>1, <4>1, <4>2 DEF Seats!seats
    <3> QED BY <3>2, <3>5, <3>6 DEF Row, RowStatus
  <2> QED BY <1>5, <2>1, <2>2, <2>3, <2>4, <2>5, <2>6, <2>7, <2>8, <2>9, <2>10, <2>11
      DEF Continue
<1>6. ASSUME NEW p \in Procs, Abort(p) PROVE Goal
  BY <1>3, <1>6 DEF Abort
<1>7. ASSUME UNCHANGED req PROVE Invited' = Invited
  BY <1>7 DEF Invited
<1>8. ASSUME UNCHANGED <<rows, meeting, req>> PROVE Goal
  BY <1>7, <1>8, PhaseStep
<1>9. CASE WorkerExpire
  <2>1. CASE ~(meeting.status = "ACTIVE" /\ overdue)
    BY <1>8, <1>9, <2>1 DEF WorkerExpire
  <2>2. CASE meeting.status = "ACTIVE" /\ overdue
    <3>1. PhaseOf' = "over" /\ meeting'.waitingRoom = meeting.waitingRoom
      BY <1>9, <2>2 DEF WorkerExpire, TypeOK, PhaseOf, Over
    <3>2. \A r \in RowIds : /\ rows'[r].user = rows[r].user
                            /\ rows'[r].status \notin Active
      BY <1>9, <2>2 DEF WorkerExpire, TypeOK, Row, Active, Present
    <3>3. ASSUME NEW u PROVE RowsOf(u)' = RowsOf(u)
      BY <3>2 DEF RowsOf
    <3>4. ASSUME NEW u PROVE SeatOf(u)' = "out"
      BY <3>2, <3>3 DEF SeatOf, RowsOf
    <3>5. SeatMap' = [u \in Users |-> "out"] /\ Hosted' = Hosted
      BY <3>3, <3>4 DEF SeatMap, Hosted
    <3>6. Invited' = Invited
      BY <1>7, <1>9 DEF WorkerExpire
    <3>7. Seats!Finish
      BY <3>1, <3>5, <3>6 DEF Seats!Finish
    <3> QED BY <3>7 DEF Seats!Next
  <2> QED BY <2>1, <2>2
<1>10. CASE WorkerMark
  <2>1. meeting'.waitingRoom = meeting.waitingRoom /\ meeting'.status = meeting.status
    BY <1>10 DEF WorkerMark, TypeOK
  <2> QED BY <1>7, <1>10, <2>1, PhaseStep DEF WorkerMark
<1>11. CASE WorkerSelect \/ WorkerClose \/ WorkerFail \/ LimitReached
  BY <1>8, <1>11 DEF WorkerSelect, WorkerClose, WorkerFail, LimitReached
<1>12. CASE World
  BY <1>8, <1>12 DEF World, Connect, Disconnect, TokenExpires
<1> QED BY <1>1, <1>5, <1>6, <1>9, <1>10, <1>11, <1>12 DEF Next, Worker

\* A new meeting is pending, with nobody in it.
LEMMA SeatsInit == Init => Seats!Init
<1> SUFFICES ASSUME Init PROVE Seats!Init
  OBVIOUS
<1>1. \A r \in RowIds : rows[r].user = NoUser /\ rows[r].status = "NONE"
  BY DEF Init, EmptyRow
<1>2. ASSUME NEW u \in Users PROVE RowsOf(u) = {} /\ SeatOf(u) = "out"
  BY <1>1 DEF RowsOf, SeatOf
<1>3. Hosted = FALSE /\ SeatMap = [u \in Users |-> "out"]
  BY <1>2 DEF Hosted, SeatMap
<1>4. Invited = {}
  BY DEF Init, Idle, Invited
<1>5. PhaseOf = "pending" /\ meeting.waitingRoom \in BOOLEAN
  BY DEF Init, PhaseOf, Over
<1> QED BY <1>3, <1>4, <1>5 DEF Seats!Init

\* Whatever the handlers, the room and the worker do, the people in a meeting see the
\* phases, the door and the seats of MeetingSeats.
THEOREM SeatsAreKept == Spec => KeepsSeats
<1>1. IInv /\ [Next]_vars => [Seats!Next]_Seats!seats
  <2>1. ASSUME UNCHANGED vars PROVE UNCHANGED Seats!seats
    <3>1. SeatMap' = SeatMap /\ Hosted' = Hosted
      BY <2>1, SeatKept DEF vars
    <3>2. Invited' = Invited /\ PhaseOf' = PhaseOf
      BY <2>1 DEF vars, Invited, PhaseOf
    <3> QED BY <2>1, <3>1, <3>2 DEF vars, Seats!seats
  <2> QED BY <2>1, SeatsNext
<1> QED BY <1>1, SeatsInit, Invariant, PTL DEF Spec, KeepsSeats, Seats!Spec
=============================================================================
