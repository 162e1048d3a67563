--------------------------------- MODULE Chat ---------------------------------
(***************************************************************************)
(* One conversation: its messages and attachments in the database and the  *)
(* object store, the hub of the API process that streams events to the     *)
(* members who look at it, and the retention and legal hold that apply to  *)
(* it.  Each action is one statement, one transaction, one call to the     *)
(* store or one step of the hub.  A stream is modelled up to the           *)
(* connection: what a page makes of the events is not.                     *)
(*                                                                         *)
(* Messages are numbered in the order of created_at, which is also the     *)
(* clock of the members' marks.  Every request comes from a member, and    *)
(* every edit and deletion from the author.                                *)
(***************************************************************************)
EXTENDS Integers, Sequences, FiniteSets

CONSTANTS
    Procs,       \* requests in flight
    Viewers,     \* members, each with one stream
    Purgers,     \* passes of the retention in flight
    Free,        \* nobody has the advisory lock of the conversation
    Buffer,      \* events that a stream holds for a slow reader
    MaxMessages  \* bound: messages ever posted

ASSUME FreeAssumption == Free \notin Purgers
ASSUME BoundsAssumption == Buffer \in Nat \ {0} /\ MaxMessages \in Nat \ {0}

VARIABLES
    msg,      \* the rows of chat_messages
    file,     \* the attachment of each message: its row and its object
    member,   \* the rows of chat_members, against updated_at of the conversation
    stream,   \* the subscriptions of the hub
    req,      \* the requests
    held,     \* an ACTIVE legal hold names the conversation
    lock,     \* pg_advisory_xact_lock of the conversation
    purger    \* the passes

vars == <<msg, file, member, stream, req, held, lock, purger>>

talk == <<msg, file, member>>
retention == <<held, lock, purger>>

Msgs == 1..MaxMessages
Other == 0  \* an event that is not about the text of a message

\* text: the body is what an author wrote; old: it is past the retention of the policy.
\* muddled is not stored: an edit was under way when it was deleted.
Msg == [state: {"none", "live", "deleted"}, text: BOOLEAN, old: BOOLEAN, muddled: BOOLEAN]

File == [row: BOOLEAN, object: BOOLEAN]

\* cleared: the last message before cleared_at; hidden: hidden_at is after updated_at.
\* lost is not stored: the messages that updated_at was not moved for.
Member == [cleared: 0..MaxMessages, hidden: BOOLEAN, lost: SUBSET Msgs]

Stream == [open: BOOLEAN, queue: Seq(Msgs \cup {Other})]

Request == [pc: {"idle", "touch", "publish", "edit", "delete", "put", "row", "undo"},
            msg: Msgs \cup {Other}, event: Msgs \cup {Other}]

Purger == [pc: {"idle", "next", "remove", "erase"}, todo: SUBSET Msgs, msg: Msgs]

TypeOK ==
    /\ msg \in [Msgs -> Msg]
    /\ file \in [Msgs -> File]
    /\ member \in [Viewers -> Member]
    /\ stream \in [Viewers -> Stream]
    /\ req \in [Procs -> Request]
    /\ held \in BOOLEAN
    /\ lock \in Purgers \cup {Free}
    /\ purger \in [Purgers -> Purger]
    /\ \A v \in Viewers : Len(stream[v].queue) <= Buffer
    /\ \A g \in Purgers : lock = g => purger[g].pc \in {"remove", "erase"}

-----------------------------------------------------------------------------
NoMember == [cleared |-> 0, hidden |-> FALSE, lost |-> {}]
NoStream == [open |-> FALSE, queue |-> <<>>]
NoRequest == [pc |-> "idle", msg |-> Other, event |-> Other]
NoPass == [pc |-> "idle", todo |-> {}, msg |-> 1]

Init ==
    /\ msg = [m \in Msgs |-> [state |-> "none", text |-> FALSE, old |-> FALSE, muddled |-> FALSE]]
    /\ file = [m \in Msgs |-> [row |-> FALSE, object |-> FALSE]]
    /\ member = [v \in Viewers |-> NoMember]
    /\ stream = [v \in Viewers |-> NoStream]
    /\ req = [p \in Procs |-> NoRequest]
    /\ held = FALSE /\ lock = Free
    /\ purger = [g \in Purgers |-> NoPass]

Posted == {m \in Msgs : msg[m].state # "none"}
Is(m, state) == msg[m].state = state
At(p, pc) == req[p].pc = pc
Start(p, pc, m) == At(p, "idle") /\ req' = [req EXCEPT ![p] = [pc |-> pc, msg |-> m, event |-> m]]
Goto(p, pc) == req' = [req EXCEPT ![p].pc = pc]
Finish(p) == req' = [req EXCEPT ![p] = NoRequest]

-----------------------------------------------------------------------------
(* chatMessages: POST, PATCH and DELETE *)

\* Mutant: the conversation is not touched.
AfterInsertPublish == "publish"

AfterInsert == "touch"

Insert(p, m) ==
    /\ Is(m, "none") /\ \A n \in Msgs : n < m => ~Is(n, "none")
    /\ msg' = [msg EXCEPT ![m].state = "live", ![m].text = TRUE]
    /\ Start(p, AfterInsert, m)
    /\ UNCHANGED <<file, member, stream, retention>>

Untouched(m) == [v \in Viewers |-> [member[v] EXCEPT !.lost = @ \cup {m}]]

\* updated_at moves past every hidden_at; an error is ignored.
Touch(p) ==
    /\ At(p, "touch") /\ Goto(p, "publish")
    /\ \/ member' = [v \in Viewers |-> [member[v] EXCEPT !.hidden = FALSE]]
       \/ member' = Untouched(req[p].msg)
    /\ UNCHANGED <<msg, file, stream, retention>>

\* Mutant: takes any message.
ChangeableAny(m) == ~Is(m, "none")

Changeable(m) == Is(m, "live")

ChangeRead(p, m, what) ==
    /\ what \in {"edit", "delete"} /\ Changeable(m)
    /\ Start(p, what, m)
    /\ UNCHANGED <<talk, stream, retention>>

\* The UPDATE names the message only, deleted or not.
Edit(p) ==
    /\ At(p, "edit") /\ Goto(p, "publish")
    /\ msg' = [msg EXCEPT ![req[p].msg].text = TRUE]
    /\ UNCHANGED <<file, member, stream, retention>>

Deleted(m) == [msg[m] EXCEPT !.state = "deleted", !.text = FALSE,
                             !.muddled = @ \/ \E p \in Procs : At(p, "edit") /\ req[p].msg = m]

Delete(p) ==
    /\ At(p, "delete") /\ Goto(p, "publish")
    /\ msg' = [msg EXCEPT ![req[p].msg] = Deleted(req[p].msg)]
    /\ UNCHANGED <<file, member, stream, retention>>

\* Presence, a reaction or a pin.
Chatter(p) ==
    /\ Start(p, "publish", Other)
    /\ UNCHANGED <<talk, stream, retention>>

\* The request is cancelled or its process dies: what was inserted is not announced.
Abandon(p) ==
    /\ ~At(p, "idle") /\ Finish(p)
    /\ member' = IF At(p, "touch") THEN Untouched(req[p].msg) ELSE member
    /\ UNCHANGED <<msg, file, stream, retention>>

-----------------------------------------------------------------------------
(* chatHub *)

\* Mutant: one event more.
FitsLate(v) == Len(stream[v].queue) <= Buffer

Fits(v) == Len(stream[v].queue) < Buffer

\* An event that does not fit is dropped for that stream.
Publish(p) ==
    LET event == req[p].event IN
    /\ At(p, "publish") /\ Finish(p)
    /\ stream' = [v \in Viewers |->
                     IF stream[v].open /\ Fits(v)
                     THEN [stream[v] EXCEPT !.queue = Append(@, event)] ELSE stream[v]]
    /\ UNCHANGED <<talk, retention>>

Subscribe(v) ==
    /\ ~stream[v].open
    /\ stream' = [stream EXCEPT ![v] = [open |-> TRUE, queue |-> <<>>]]
    /\ UNCHANGED <<talk, req, retention>>

\* The connection ends, and what its channel holds is gone.
Break(v) ==
    /\ stream[v].open
    /\ stream' = [stream EXCEPT ![v] = NoStream]
    /\ UNCHANGED <<talk, req, retention>>

\* chatEvents writes one event to the connection.
Consume(v) ==
    /\ stream[v].queue # <<>>
    /\ stream' = [stream EXCEPT ![v].queue = Tail(@)]
    /\ UNCHANGED <<talk, req, retention>>

-----------------------------------------------------------------------------
(* The marks of chat_members *)

Clear(v) ==
    /\ member' = [member EXCEPT ![v].cleared = Cardinality(Posted)]
    /\ UNCHANGED <<msg, file, stream, req, retention>>

Hide(v) ==
    /\ member' = [member EXCEPT ![v].cleared = Cardinality(Posted), ![v].hidden = TRUE]
    /\ UNCHANGED <<msg, file, stream, req, retention>>

-----------------------------------------------------------------------------
(* chatAttachment: one for each message, which bounds them *)

Upload(p, m) ==
    /\ ~Is(m, "none") /\ ~file[m].row /\ ~file[m].object
    /\ \A q \in Procs : req[q].msg = m => req[q].pc \notin {"put", "row", "undo"}
    /\ At(p, "idle")
    /\ req' = [req EXCEPT ![p] = [pc |-> "put", msg |-> m, event |-> Other]]
    /\ UNCHANGED <<talk, stream, retention>>

\* PutObject may fail after the store has it.
Put(p) ==
    /\ At(p, "put")
    /\ \/ file' = [file EXCEPT ![req[p].msg].object = TRUE] /\ (Goto(p, "row") \/ Finish(p))
       \/ UNCHANGED file /\ Finish(p)
    /\ UNCHANGED <<msg, member, stream, retention>>

\* The INSERT may fail after the row is there.
Save(p) ==
    /\ At(p, "row")
    /\ \/ file' = [file EXCEPT ![req[p].msg].row = TRUE] /\ (Goto(p, "publish") \/ Goto(p, "undo"))
       \/ UNCHANGED file /\ Goto(p, "undo")
    /\ UNCHANGED <<msg, member, stream, retention>>

Undo(p) ==
    /\ At(p, "undo") /\ Finish(p)
    /\ file' \in {file, [file EXCEPT ![req[p].msg].object = FALSE]}
    /\ UNCHANGED <<msg, member, stream, retention>>

-----------------------------------------------------------------------------
(* applyGovernanceRetention and purgeExpiredChatAttachments; legalHoldResource *)

\* Time: messages pass the retention in the order they were posted.
Expire(m) ==
    /\ ~Is(m, "none") /\ ~msg[m].old /\ \A n \in Msgs : n < m => msg[n].old
    /\ msg' = [msg EXCEPT ![m].old = TRUE]
    /\ UNCHANGED <<file, member, stream, req, retention>>

Redact ==
    /\ ~held
    /\ msg' = [m \in Msgs |-> IF msg[m].old /\ Is(m, "live") THEN Deleted(m) ELSE msg[m]]
    /\ UNCHANGED <<file, member, stream, req, retention>>

PurgeList(g) ==
    /\ purger[g].pc = "idle" /\ ~held
    /\ purger' = [purger EXCEPT ![g].pc = "next",
                                ![g].todo = {m \in Msgs : file[m].row /\ msg[m].old}]
    /\ UNCHANGED <<talk, stream, req, held, lock>>

\* Mutant: purges what was listed.
SparedNever == FALSE

Spared == held

\* The transaction takes the lock and looks for a hold again.
PurgeLock(g, m) ==
    /\ purger[g].pc = "next" /\ m \in purger[g].todo /\ lock = Free
    /\ IF Spared
       THEN purger' = [purger EXCEPT ![g].todo = @ \ {m}] /\ UNCHANGED lock
       ELSE /\ purger' = [purger EXCEPT ![g].todo = @ \ {m}, ![g].msg = m, ![g].pc = "remove"]
            /\ lock' = g
    /\ UNCHANGED <<talk, stream, req, held>>

Unlock(g) == /\ lock' = IF lock = g THEN Free ELSE lock
             /\ purger' = [purger EXCEPT ![g].pc = "next"]

\* The connection of the transaction is lost, and the lock with it; the pass does not know.
PurgeUnlocks(g) ==
    /\ lock = g /\ lock' = Free
    /\ UNCHANGED <<talk, stream, req, held, purger>>

\* A RemoveObject that fails, before or after the object is gone, rolls back.
PurgeRemove(g) ==
    /\ purger[g].pc = "remove"
    /\ LET removed == [file EXCEPT ![purger[g].msg].object = FALSE] IN
       \/ /\ file' = removed
          /\ purger' = [purger EXCEPT ![g].pc = "erase"] /\ UNCHANGED lock
       \/ file' \in {file, removed} /\ Unlock(g)
    /\ UNCHANGED <<msg, member, stream, req, held>>

\* The DELETE and its COMMIT, which need the transaction.
PurgeErase(g) ==
    /\ purger[g].pc = "erase" /\ Unlock(g)
    /\ \/ lock = g /\ ~held /\ file' = [file EXCEPT ![purger[g].msg].row = FALSE]
       \/ UNCHANGED file
    /\ UNCHANGED <<msg, member, stream, req, held>>

\* The pass ends, or its process dies and the transaction with it.
PurgeEnd(g) ==
    /\ purger[g].pc # "idle"
    /\ purger' = [purger EXCEPT ![g] = NoPass]
    /\ lock' = IF lock = g THEN Free ELSE lock
    /\ UNCHANGED <<talk, stream, req, held>>

Hold ==
    /\ ~held /\ lock = Free /\ held' = TRUE
    /\ UNCHANGED <<talk, stream, req, lock, purger>>

\* No lock is taken.
Release ==
    /\ held /\ held' = FALSE
    /\ UNCHANGED <<talk, stream, req, lock, purger>>

-----------------------------------------------------------------------------
Handle(p) ==
    \/ Touch(p) \/ Edit(p) \/ Delete(p) \/ Chatter(p) \/ Abandon(p) \/ Publish(p)
    \/ Put(p) \/ Save(p) \/ Undo(p)
    \/ \E m \in Msgs : Insert(p, m) \/ Upload(p, m)
    \/ \E m \in Msgs, what \in {"edit", "delete"} : ChangeRead(p, m, what)

View(v) == Subscribe(v) \/ Break(v) \/ Consume(v) \/ Clear(v) \/ Hide(v)

Purge(g) ==
    \/ PurgeList(g) \/ PurgeRemove(g) \/ PurgeUnlocks(g) \/ PurgeErase(g) \/ PurgeEnd(g)
    \/ \E m \in Msgs : PurgeLock(g, m)

Next ==
    \/ \E p \in Procs : Handle(p)
    \/ \E v \in Viewers : View(v)
    \/ \E g \in Purgers : Purge(g)
    \/ \E m \in Msgs : Expire(m)
    \/ Redact \/ Hold \/ Release

Spec == Init /\ [][Next]_vars

-----------------------------------------------------------------------------
(* What must hold *)

\* The text of a message that was deleted or redacted does not come back into the
\* database, unless an edit had found it undeleted before (chatMessages, PATCH).
ErasedStaysErased == \A m \in Msgs : Is(m, "deleted") /\ msg[m].text => msg[m].muddled

\* A member who has hidden the conversation sees it again once there is a message that
\* was posted later, unless moving updated_at failed (chatConversationDelete).
NewMessageUnhides ==
    \A v \in Viewers : \A m \in Posted :
       member[v].hidden /\ m > member[v].cleared =>
          m \in member[v].lost \/ \E p \in Procs : At(p, "touch") /\ req[p].msg = m

\* While the conversation is held its attachments keep their rows and their objects,
\* though a purge had listed them before: an upload may undo only itself, and a purge
\* removes an object only when its connection, and the lock with it, was lost before
\* (purgeExpiredChatAttachments, chatAttachment).
HeldKeepsAttachments ==
    [][held => \A m \in Msgs : file[m].row /\ file[m].object =>
         /\ file'[m].row
         /\ \/ file'[m].object
            \/ \E p \in Procs : At(p, "undo") /\ req[p].msg = m
            \/ \E g \in Purgers : purger[g].pc = "remove" /\ purger[g].msg = m /\ lock # g]_vars
===============================================================================
