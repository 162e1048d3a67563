---------------------------- MODULE MeetingRoom ----------------------------
(***************************************************************************)
(* One meeting: its row in `meetings`, the rows of `meeting_participants`, *)
(* the LiveKit room behind it, the HTTP handlers that change them and the  *)
(* worker that ends a meeting at its plan limit.                           *)
(*                                                                         *)
(* A handler is a goroutine p \in Procs.  Every statement that writes and   *)
(* every LiveKit call is one step of it, and req[p] is what the goroutine  *)
(* carries from one to the next, so handlers interleave wherever the code  *)
(* lets go of the database.  The reads with which a handler decides to go  *)
(* on at all are one step, its arrival; a request that they refuse changes *)
(* nothing and is left out.  Abort(p) is every way a handler stops half    *)
(* way: the client goes away, a statement fails, the process dies.         *)
(***************************************************************************)
EXTENDS Integers, FiniteSets

CONSTANTS
    Users,       \* everyone who may call the API about this meeting
    Host,        \* meetings.host_id
    Moderators,  \* users of the tenant that hold meeting.moderate
    Admins,      \* workspace administrators, whose role grants it
    Externals,   \* users of another tenant
    Guests,      \* users whose participant role is GUEST
    Procs,       \* handlers that may be in flight at once
    MaxRows,     \* bound: rows of meeting_participants ever inserted
    NoUser       \* the user of a row that is not inserted yet

ASSUME UsersAssumption ==
    /\ Host \in Users /\ NoUser \notin Users
    /\ Moderators \subseteq Users /\ Admins \subseteq Moderators
    /\ Externals \subseteq Guests
    /\ Guests \subseteq Users /\ Host \notin Guests
    /\ Moderators \cap Externals = {}

ASSUME MaxRowsAssumption == MaxRows \in Nat \ {0}

VARIABLES
    meeting,  \* the row of `meetings`
    rows,     \* the rows of `meeting_participants`, in the order of created_at
    live,     \* users connected to the LiveKit room
    tokens,   \* users who hold an access token that has not expired
    overdue,  \* started_at + effective limit <= NOW()
    req,      \* the handlers in flight
    wk        \* the meeting duration worker

vars == <<meeting, rows, live, tokens, overdue, req, wk>>

RowIds == 1..MaxRows

MeetingStatus == {"SCHEDULED", "WAITING", "ACTIVE", "ENDED", "CANCELLED"}
Over          == {"ENDED", "CANCELLED"}
Present       == {"JOINED", "DISCONNECTED"}
Active        == {"WAITING_ROOM"} \cup Present
Gone          == {"LEFT", "REMOVED"}
RowStatus     == {"NONE"} \cup Active \cup Gone
Roles         == {"HOST", "CO_HOST", "MEMBER", "GUEST"}

RowActions     == {"admit", "reject", "remove", "promote"}
MeetingActions == {"lock", "unlock", "end"}
Steps == {"idle", "insert", "activate", "restore", "sign", "leave", "snapshot", "select",
          "reconcile", "update", "sync", "control", "close", "delete"}

\* admitted is history: a moderator has let this row in.
Row == [user: Users \cup {NoUser}, role: Roles, status: RowStatus, admitted: BOOLEAN]

Candidate == [row: RowIds, was: Present, online: BOOLEAN]

Request == [pc: Steps, user: Users, row: RowIds \cup {0},
            act: RowActions \cup MeetingActions \cup {"none"}, starts: BOOLEAN,
            live: SUBSET Users, todo: SUBSET Candidate]

TypeOK ==
    /\ meeting \in [status: MeetingStatus, locked: BOOLEAN, waitingRoom: BOOLEAN,
                    planEnded: BOOLEAN, roomClosed: BOOLEAN]
    /\ rows \in [RowIds -> Row]
    /\ live \in SUBSET Users
    /\ tokens \in SUBSET Users
    /\ overdue \in BOOLEAN
    /\ req \in [Procs -> Request]
    /\ wk \in {"idle", "expire", "close", "mark"}

-----------------------------------------------------------------------------
EmptyRow == [user |-> NoUser, role |-> "MEMBER", status |-> "NONE", admitted |-> FALSE]

Idle == [pc |-> "idle", user |-> Host, row |-> 0, act |-> "none", starts |-> FALSE,
         live |-> {}, todo |-> {}]

\* createMeeting and the calendar insert WAITING and SCHEDULED meetings; the
\* waiting room is fixed when the meeting is created.
Init ==
    /\ meeting \in [status: {"SCHEDULED", "WAITING"}, locked: {FALSE}, waitingRoom: BOOLEAN,
                    planEnded: {FALSE}, roomClosed: {FALSE}]
    /\ rows = [r \in RowIds |-> EmptyRow]
    /\ live = {} /\ tokens = {}
    /\ overdue = FALSE
    /\ req = [p \in Procs |-> Idle]
    /\ wk = "idle"

\* The row the handlers call the current participant: ORDER BY created_at DESC.
RowsOf(u)  == {r \in RowIds : rows[r].user = u}
IsLast(r, S) == r \in S /\ \A s \in S : s <= r

CanModerate(u) ==
    /\ u \notin Externals
    /\ \/ u \in Moderators \/ u = Host
       \/ \E r \in RowsOf(u) : rows[r].role = "CO_HOST" /\ rows[r].status = "JOINED"

At(p, step) == req[p].pc = step
Done(p) == req' = [req EXCEPT ![p] = Idle]

\* A request arrives and gets as far as its first write or call: with is what it carries.
Begin(p, with) ==
    /\ At(p, "idle")
    /\ req' = [req EXCEPT ![p] = with]
    /\ UNCHANGED <<meeting, rows, live, tokens, overdue, wk>>

\* findMeetingForJoin does not see a cancelled meeting; findMeeting sees every
\* status but only the caller's own tenant.
FindMeetingForJoin == meeting.status # "CANCELLED"
FindMeeting(u) == u \notin Externals

-----------------------------------------------------------------------------
(* joinMeeting *)

\* Mutant: a meeting that has ended can still be joined.
JoinEnded(p, u) ==
    /\ FindMeetingForJoin
    /\ meeting.locked => u = Host
    /\ Begin(p, [Idle EXCEPT !.pc = "insert", !.user = u,
                             !.starts = (u = Host /\ meeting.status # "ACTIVE")])

\* A locked meeting admits its host only.  The status it read decides, after the
\* insert, whether the host's join starts the meeting.
Join(p, u) ==
    /\ FindMeetingForJoin /\ meeting.status # "ENDED"
    /\ meeting.locked => u = Host
    /\ Begin(p, [Idle EXCEPT !.pc = "insert", !.user = u,
                             !.starts = (u = Host /\ meeting.status # "ACTIVE")])

JoinRole(u) == IF u = Host THEN "HOST" ELSE IF u \in Guests THEN "GUEST" ELSE "MEMBER"

NewRow(u) ==
    [user |-> u, role |-> JoinRole(u), admitted |-> FALSE,
     status |-> IF meeting.waitingRoom /\ u # Host THEN "WAITING_ROOM" ELSE "JOINED"]

\* INSERT ... ON CONFLICT on the unique index over the rows that are not LEFT or
\* REMOVED: an active row is kept, with its status; only its role may be refreshed.
Upsert(u) ==
    \/ \E r \in RowsOf(u) :
          /\ rows[r].status \in Active
          /\ rows' = [rows EXCEPT ![r].role =
                         IF u \in Externals \/ @ = "CO_HOST" THEN @ ELSE JoinRole(u)]
    \/ /\ \A r \in RowsOf(u) : rows[r].status \notin Active
       /\ \E r \in RowIds :
             /\ rows[r].status = "NONE" /\ \A s \in RowIds : s < r => rows[s].status # "NONE"
             /\ rows' = [rows EXCEPT ![r] = NewRow(u)]

JoinInsert(p) ==
    /\ At(p, "insert")
    /\ Upsert(req[p].user)
    /\ req' = [req EXCEPT ![p] = IF req[p].starts THEN [Idle EXCEPT !.pc = "activate"] ELSE Idle]
    /\ UNCHANGED <<meeting, live, tokens, overdue, wk>>

\* The host's join starts the meeting, unless it is no longer one to start.
JoinActivate(p) ==
    /\ At(p, "activate")
    /\ meeting' = IF meeting.status \in {"SCHEDULED", "WAITING"}
                  THEN [meeting EXCEPT !.status = "ACTIVE"] ELSE meeting
    /\ Done(p)
    /\ UNCHANGED <<rows, live, tokens, overdue, wk>>

-----------------------------------------------------------------------------
(* liveKitToken *)

\* Mutant: any row that has not ended is good for a token.
TokenWaiting(p, u) ==
    /\ FindMeetingForJoin
    /\ \E r \in RowsOf(u) :
          /\ rows[r].status \in Active
          /\ Begin(p, [Idle EXCEPT !.pc = "sign", !.user = u])

\* The latest row decides; a DISCONNECTED one is restored first.
Token(p, u) ==
    /\ FindMeetingForJoin
    /\ \E r \in RowIds :
          /\ IsLast(r, RowsOf(u)) /\ rows[r].status \in Present
          /\ Begin(p, IF rows[r].status = "JOINED"
                      THEN [Idle EXCEPT !.pc = "sign", !.user = u]
                      ELSE [Idle EXCEPT !.pc = "restore", !.user = u, !.row = r])

\* Mutant: the UPDATE of TokenRestore does not repeat the status.
TokenRestoreBlind(p) ==
    /\ At(p, "restore")
    /\ rows' = [rows EXCEPT ![req[p].row].status = "JOINED"]
    /\ req' = [req EXCEPT ![p].pc = "sign", ![p].row = 0]
    /\ UNCHANGED <<meeting, live, tokens, overdue, wk>>

TokenRestore(p) ==
    LET r == req[p].row IN
    /\ At(p, "restore")
    /\ IF rows[r].status = "DISCONNECTED"
       THEN /\ rows' = [rows EXCEPT ![r].status = "JOINED"]
            /\ req' = [req EXCEPT ![p].pc = "sign", ![p].row = 0]
       ELSE Done(p) /\ UNCHANGED rows
    /\ UNCHANGED <<meeting, live, tokens, overdue, wk>>

TokenSign(p) ==
    /\ At(p, "sign")
    /\ tokens' = tokens \cup {req[p].user}
    /\ Done(p)
    /\ UNCHANGED <<meeting, rows, live, overdue, wk>>

-----------------------------------------------------------------------------
(* leaveMeeting *)

\* The subselect of the UPDATE picks the latest JOINED or WAITING_ROOM row.
Leave(p, u) ==
    LET mine == {r \in RowsOf(u) : rows[r].status \in {"JOINED", "WAITING_ROOM"}} IN
    /\ FindMeetingForJoin
    /\ \E r \in RowIds :
          IsLast(r, mine) /\ Begin(p, [Idle EXCEPT !.pc = "leave", !.row = r])

\* The UPDATE itself names the id only: when the row was locked by another transaction,
\* what that one has made of it is not looked at again.
LeaveUpdate(p) ==
    /\ At(p, "leave")
    /\ rows' = [rows EXCEPT ![req[p].row].status = "LEFT"]
    /\ Done(p)
    /\ UNCHANGED <<meeting, live, tokens, overdue, wk>>

-----------------------------------------------------------------------------
(* listParticipants and reconcileRealtimeParticipants *)

List(p, u) ==
    /\ FindMeetingForJoin /\ CanModerate(u)
    /\ Begin(p, [Idle EXCEPT !.pc = "snapshot"])

\* Who LiveKit says is online now.
ReconcileSnapshot(p) ==
    /\ At(p, "snapshot")
    /\ req' = [req EXCEPT ![p].live = live, ![p].pc = "select"]
    /\ UNCHANGED <<meeting, rows, live, tokens, overdue, wk>>

\* Mutant: the SELECT takes the waiting rows as well.
ReconcileSelectAll(p) ==
    /\ At(p, "select")
    /\ \E old \in SUBSET {r \in RowIds : rows[r].status \in Active} :
          req' = [req EXCEPT ![p] = [Idle EXCEPT !.pc = "reconcile",
                     !.todo = {[row |-> r, was |-> rows[r].status,
                                online |-> rows[r].user \in req[p].live] : r \in old}]]
    /\ UNCHANGED <<meeting, rows, live, tokens, overdue, wk>>

\* The candidates joined more than 20 seconds ago: any of the present rows may have.
ReconcileSelect(p) ==
    /\ At(p, "select")
    /\ \E old \in SUBSET {r \in RowIds : rows[r].status \in Present} :
          req' = [req EXCEPT ![p] = [Idle EXCEPT !.pc = "reconcile",
                     !.todo = {[row |-> r, was |-> rows[r].status,
                                online |-> rows[r].user \in req[p].live] : r \in old}]]
    /\ UNCHANGED <<meeting, rows, live, tokens, overdue, wk>>

\* What becomes of a candidate.  A row DISCONNECTED for under two minutes stays so.
Verdict(c) ==
    IF c.online THEN {"JOINED"}
    ELSE IF c.was = "JOINED" THEN {"DISCONNECTED"} ELSE {"LEFT", "DISCONNECTED"}

\* Mutant: the UPDATE does not repeat the status.
ReconcileRowBlind(p) ==
    /\ At(p, "reconcile")
    /\ \E c \in req[p].todo :
          /\ \E to \in Verdict(c) : rows' = [rows EXCEPT ![c.row].status = to]
          /\ req' = [req EXCEPT ![p].todo = @ \ {c}]
    /\ UNCHANGED <<meeting, live, tokens, overdue, wk>>

\* The UPDATE repeats the status the SELECT read.
ReconcileRow(p) ==
    /\ At(p, "reconcile")
    /\ \E c \in req[p].todo :
          /\ \E to \in Verdict(c) :
                rows' = IF rows[c.row].status = c.was
                        THEN [rows EXCEPT ![c.row].status = to] ELSE rows
          /\ req' = [req EXCEPT ![p].todo = @ \ {c}]
    /\ UNCHANGED <<meeting, live, tokens, overdue, wk>>

ReconcileDone(p) ==
    /\ At(p, "reconcile") /\ req[p].todo = {}
    /\ Done(p)
    /\ UNCHANGED <<meeting, rows, live, tokens, overdue, wk>>

-----------------------------------------------------------------------------
(* moderateParticipant (mute touches only LiveKit's tracks) and moderateMeeting *)

Moderate(p, u, r, act) ==
    /\ FindMeeting(u) /\ CanModerate(u) /\ rows[r].status # "NONE"
    /\ Begin(p, [Idle EXCEPT !.pc = "update", !.row = r, !.act = act])

\* Mutant: no role is spared.
AllowedAnyRole(row, act) ==
    CASE act = "admit"   -> row.status = "WAITING_ROOM"
      [] act = "promote" -> row.status = "JOINED"
      [] OTHER           -> row.status \notin Gone

\* The guard of each UPDATE, and what it sets.
Allowed(row, act) ==
    CASE act = "admit"   -> row.status = "WAITING_ROOM"
      [] act = "promote" -> row.status = "JOINED" /\ row.role = "MEMBER"
      [] OTHER           -> row.status \notin Gone /\ row.role # "HOST"

Moderated(row, act) ==
    CASE act = "admit"   -> [row EXCEPT !.status = "JOINED", !.admitted = TRUE]
      [] act = "promote" -> [row EXCEPT !.role = "CO_HOST"]
      [] OTHER           -> [row EXCEPT !.status = "REMOVED"]

ModerateUpdate(p) ==
    LET r == req[p].row  act == req[p].act IN
    /\ At(p, "update")
    /\ IF Allowed(rows[r], act)
       THEN /\ rows' = [rows EXCEPT ![r] = Moderated(rows[r], act)]
            /\ req' = [req EXCEPT ![p] = IF act = "remove"
                         THEN [Idle EXCEPT !.pc = "sync", !.row = r] ELSE Idle]
       ELSE Done(p) /\ UNCHANGED rows
    /\ UNCHANGED <<meeting, live, tokens, overdue, wk>>

\* RemoveParticipant at LiveKit; when it fails its error is dropped (Abort).
ModerateSync(p) ==
    /\ At(p, "sync")
    /\ live' = live \ {rows[req[p].row].user}
    /\ Done(p)
    /\ UNCHANGED <<meeting, rows, tokens, overdue, wk>>

Control(p, u, act) ==
    /\ FindMeeting(u) /\ u \in {Host} \cup Moderators
    /\ Begin(p, [Idle EXCEPT !.pc = "control", !.act = act])

\* lock, unlock and end are UPDATEs of the meeting whatever its status.
ControlUpdate(p) ==
    LET act == req[p].act IN
    /\ At(p, "control")
    /\ meeting' = IF act = "end" THEN [meeting EXCEPT !.status = "ENDED"]
                  ELSE [meeting EXCEPT !.locked = (act = "lock")]
    /\ req' = [req EXCEPT ![p] = IF act = "end" THEN [Idle EXCEPT !.pc = "close"] ELSE Idle]
    /\ UNCHANGED <<rows, live, tokens, overdue, wk>>

\* DeleteRoom at LiveKit; when it fails its error is dropped (Abort).
ControlClose(p) ==
    /\ At(p, "close")
    /\ live' = {}
    /\ Done(p)
    /\ UNCHANGED <<meeting, rows, tokens, overdue, wk>>

-----------------------------------------------------------------------------
(* deleteMeeting *)

Delete(p, u) ==
    /\ u \in {Host} \cup Admins
    /\ meeting.status \notin {"ACTIVE", "CANCELLED"}
    /\ Begin(p, [Idle EXCEPT !.pc = "delete"])

DeleteUpdate(p) ==
    /\ At(p, "delete")
    /\ meeting' = IF meeting.status # "ACTIVE"
                  THEN [meeting EXCEPT !.status = "CANCELLED"] ELSE meeting
    /\ Done(p)
    /\ UNCHANGED <<rows, live, tokens, overdue, wk>>

-----------------------------------------------------------------------------
(* The meeting duration worker.  An advisory lock makes it one process. *)

\* Mutants: a pass that does not retry the closure of rooms, and a transaction that
\* does not take the meeting when it is due.
WorkerSelectOnce ==
    /\ wk = "idle" /\ meeting.status = "ACTIVE" /\ overdue /\ wk' = "expire"
    /\ UNCHANGED <<meeting, rows, live, tokens, overdue, req>>

WorkerExpireNever ==
    /\ wk = "expire" /\ wk' = "idle"
    /\ UNCHANGED <<meeting, rows, live, tokens, overdue, req>>

WorkerSelect ==
    /\ wk = "idle"
    /\ \/ meeting.status = "ACTIVE" /\ overdue /\ wk' = "expire"
       \/ /\ meeting.status = "ENDED" /\ meeting.planEnded /\ ~meeting.roomClosed
          /\ wk' = "close"
    /\ UNCHANGED <<meeting, rows, live, tokens, overdue, req>>

\* One transaction: end the meeting, sweep its participants, write the audit event.
WorkerExpire ==
    /\ wk = "expire"
    /\ IF meeting.status = "ACTIVE" /\ overdue
       THEN /\ meeting' = [meeting EXCEPT !.status = "ENDED", !.planEnded = TRUE]
            /\ rows' = [r \in RowIds |->
                           IF rows[r].status \in Active
                           THEN [rows[r] EXCEPT !.status = "LEFT"] ELSE rows[r]]
            /\ wk' = "close"
       ELSE wk' = "idle" /\ UNCHANGED <<meeting, rows>>
    /\ UNCHANGED <<live, tokens, overdue, req>>

\* A room LiveKit does not know counts as closed.
WorkerClose ==
    /\ wk = "close"
    /\ live' = {} /\ wk' = "mark"
    /\ UNCHANGED <<meeting, rows, tokens, overdue, req>>

WorkerMark ==
    /\ wk = "mark"
    /\ meeting' = IF meeting.status = "ENDED" /\ meeting.planEnded
                  THEN [meeting EXCEPT !.roomClosed = TRUE] ELSE meeting
    /\ wk' = "idle"
    /\ UNCHANGED <<rows, live, tokens, overdue, req>>

\* A failed statement, a LiveKit error or a restart: the next pass selects again.
WorkerFail ==
    /\ wk # "idle" /\ wk' = "idle"
    /\ UNCHANGED <<meeting, rows, live, tokens, overdue, req>>

-----------------------------------------------------------------------------
(* The rest of the world: time, LiveKit and its clients, failures. *)

LimitReached ==
    /\ meeting.status = "ACTIVE" /\ ~overdue /\ overdue' = TRUE
    /\ UNCHANGED <<meeting, rows, live, tokens, req, wk>>

\* A token opens the room, and creates it when it does not exist.
Connect(u) ==
    /\ u \in tokens /\ u \notin live /\ live' = live \cup {u}
    /\ UNCHANGED <<meeting, rows, tokens, overdue, req, wk>>

Disconnect(u) ==
    /\ u \in live /\ live' = live \ {u}
    /\ UNCHANGED <<meeting, rows, tokens, overdue, req, wk>>

TokenExpires(u) ==
    /\ u \in tokens /\ tokens' = tokens \ {u}
    /\ UNCHANGED <<meeting, rows, live, overdue, req, wk>>

Abort(p) ==
    /\ req[p].pc # "idle" /\ Done(p)
    /\ UNCHANGED <<meeting, rows, live, tokens, overdue, wk>>

-----------------------------------------------------------------------------
Arrive(p) ==
    \E u \in Users :
       \/ Join(p, u) \/ Token(p, u) \/ Leave(p, u) \/ List(p, u) \/ Delete(p, u)
       \/ \E r \in RowIds, act \in RowActions : Moderate(p, u, r, act)
       \/ \E act \in MeetingActions : Control(p, u, act)

Continue(p) ==
    \/ JoinInsert(p) \/ JoinActivate(p)
    \/ TokenRestore(p) \/ TokenSign(p) \/ LeaveUpdate(p)
    \/ ReconcileSnapshot(p) \/ ReconcileSelect(p) \/ ReconcileRow(p) \/ ReconcileDone(p)
    \/ ModerateUpdate(p) \/ ModerateSync(p)
    \/ ControlUpdate(p) \/ ControlClose(p)
    \/ DeleteUpdate(p)

Worker == WorkerSelect \/ WorkerExpire \/ WorkerClose \/ WorkerMark

World == \E u \in Users : Connect(u) \/ Disconnect(u) \/ TokenExpires(u)

Next ==
    \/ \E p \in Procs : Arrive(p) \/ Continue(p) \/ Abort(p)
    \/ Worker \/ WorkerFail
    \/ LimitReached \/ World

Spec == Init /\ [][Next]_vars

\* The worker runs every interval and its statements and calls do not fail for ever; a
\* handler goes on until it ends or stops.  No client, and no delivery to LiveKit by a
\* handler, is fair.
FairSpec ==
    /\ Spec
    /\ WF_vars(WorkerSelect) /\ SF_vars(WorkerExpire)
    /\ SF_vars(WorkerClose) /\ SF_vars(WorkerMark)
    /\ \A p \in Procs : WF_vars(Continue(p))

-----------------------------------------------------------------------------
(* Properties *)

\* A user has at most one row that is not LEFT or REMOVED, and it is the latest of
\* theirs: the row liveKitToken, currentParticipant and leaveMeeting look for by
\* created_at is the one the host sees and moderates.
ActiveIsLatest ==
    \A r, s \in RowIds :
        rows[r].status \in Active /\ rows[s].user = rows[r].user => s <= r

\* In a meeting with a waiting room, nobody but the host holds a media token, or is
\* connected, without having been admitted (README.md:56-57).
AdmittedOnly ==
    meeting.waitingRoom =>
        \A u \in (tokens \cup live) \ {Host} : \E r \in RowsOf(u) : rows[r].admitted

\* The host cannot be put out of the meeting nor kept waiting, nobody else becomes
\* HOST, and a guest is never promoted, whatever joins have refreshed the roles.
RolesKept ==
    \A r \in RowIds : rows[r].status # "NONE" =>
        /\ rows[r].role = "HOST" <=> rows[r].user = Host
        /\ rows[r].role = "GUEST" <=> rows[r].user \in Guests
        /\ rows[r].user = Host => rows[r].status \notin {"REMOVED", "WAITING_ROOM"}

\* A row that is LEFT or REMOVED does not come back: no late moderation, reconciliation,
\* token or join changes it, and no row changes its user.  One request rewrites history: a
\* leave that had picked the row while it was joined or waiting makes a REMOVED row LEFT.
GoneStaysGone ==
    [][\A r \in RowIds :
          /\ rows[r].status \in Gone =>
                \/ rows'[r] = rows[r]
                \/ /\ rows'[r] = [rows[r] EXCEPT !.status = "LEFT"]
                   /\ \E p \in Procs : At(p, "leave") /\ req[p].row = r
          /\ rows[r].status # "NONE" => rows'[r].user = rows[r].user]_vars

\* A meeting that is over is never started again, though a host's join may have
\* read it before it ended.
OverIsFinal == [][meeting.status \in Over => meeting'.status \in Over]_vars

\* What makes the invariants above inductive: rows fill in order; a handler that is
\* about to write a row writes one that exists; nobody is past the waiting room, or
\* about to be given a token, without having been admitted.
RowsInOrder ==
    \A r \in RowIds :
        /\ rows[r].user = NoUser <=> rows[r].status = "NONE"
        /\ rows[r].status # "NONE" => \A s \in RowIds : s < r => rows[s].status # "NONE"

TargetsExist ==
    \A p \in Procs :
        /\ req[p].pc \in {"restore", "update", "leave"} =>
               req[p].row \in RowIds /\ rows[req[p].row].status # "NONE"
        /\ req[p].pc = "restore" => rows[req[p].row].user = req[p].user
        /\ req[p].pc = "update" => req[p].act \in RowActions

PresentAdmitted ==
    meeting.waitingRoom => \A r \in RowIds :
        rows[r].status \in Present /\ rows[r].user # Host => rows[r].admitted

SignersAdmitted ==
    meeting.waitingRoom => \A p \in Procs :
        req[p].pc \in {"restore", "sign"} /\ req[p].user # Host =>
            \E r \in RowsOf(req[p].user) : rows[r].admitted

\* Only the host's join goes on to start the meeting, and by then the host has a row.
StartersHosted ==
    \A p \in Procs :
        /\ req[p].pc = "insert" /\ req[p].starts => req[p].user = Host
        /\ req[p].pc = "activate" => RowsOf(Host) # {}

IInv ==
    /\ TypeOK /\ RowsInOrder /\ TargetsExist /\ PresentAdmitted /\ SignersAdmitted
    /\ StartersHosted
    /\ ActiveIsLatest /\ AdmittedOnly /\ RolesKept

\* A meeting past its limit ends, whatever passes of the worker fail.
OverdueEnds == overdue ~> meeting.status # "ACTIVE"

\* A meeting the worker ended has its room closed, whatever attempts fail, unless it
\* is deleted first.
PlanEndedCloses ==
    meeting.planEnded ~> (meeting.roomClosed \/ meeting.status = "CANCELLED")

SeatOf(u) ==
    LET mine == {r \in RowsOf(u) : rows[r].status \in Active}
    IN  IF mine = {} THEN "out"
        ELSE IF \E r \in mine : rows[r].status = "WAITING_ROOM" THEN "waiting" ELSE "in"

PhaseOf ==
    IF meeting.status \in Over THEN "over"
    ELSE IF meeting.status = "ACTIVE" THEN "live" ELSE "pending"

Hosted  == RowsOf(Host) # {}
Invited == {req[p].user : p \in {q \in Procs : req[q].pc = "insert"}}
SeatMap == [u \in Users |-> SeatOf(u)]

Seats == INSTANCE MeetingSeats WITH
    phase <- PhaseOf, gated <- meeting.waitingRoom, hosted <- Hosted,
    invited <- Invited, seat <- SeatMap

\* The handlers together keep the promise of MeetingSeats.
KeepsSeats == Seats!Spec
=============================================================================
