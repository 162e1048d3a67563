------------------------------ MODULE ChatProofs ------------------------------
(* Theorems about Chat, for any requests, members, passes and bounds. *)
EXTENDS Chat, FiniteSetTheorems, TLAPS

USE FreeAssumption, BoundsAssumption DEF FreeAssumption, BoundsAssumption

-----------------------------------------------------------------------------
(* Types, in three parts: what is stored, what is streamed, and what is in flight *)

Stored ==
    /\ msg \in [Msgs -> Msg]
    /\ file \in [Msgs -> File]
    /\ member \in [Viewers -> Member]

Shown ==
    /\ stream \in [Viewers -> Stream]
    /\ \A v \in Viewers : Len(stream[v].queue) <= Buffer

InFlight ==
    /\ req \in [Procs -> Request]
    /\ held \in BOOLEAN
    /\ lock \in Purgers \cup {Free}
    /\ purger \in [Purgers -> Purger]
    /\ \A g \in Purgers : lock = g => purger[g].pc \in {"remove", "erase"}

LEMMA TypeParts == TypeOK <=> Stored /\ Shown /\ InFlight
BY DEF TypeOK, Stored, Shown, InFlight

\* A request that writes a message or its attachment has one.
Targets ==
    \A p \in Procs : req[p].pc \in {"touch", "edit", "delete", "put", "row", "undo"} => req[p].msg \in Msgs

LEMMA EmptyRecords ==
  /\ NoMember \in Member /\ NoStream \in Stream /\ NoRequest \in Request
  /\ NoPass \in Purger /\ NoRequest.pc = "idle" /\ NoPass.pc = "idle" /\ Len(NoStream.queue) <= Buffer
  /\ ~NoStream.open /\ ~NoMember.hidden
<1>1. NoMember \in Member /\ ~NoMember.hidden
  BY DEF NoMember, Member, Msgs
<1>2. NoStream \in Stream /\ Len(NoStream.queue) <= Buffer /\ ~NoStream.open
  BY DEF NoStream, Stream
<1>3. NoRequest \in Request /\ NoRequest.pc = "idle"
  BY DEF NoRequest, Request
<1>4. NoPass \in Purger /\ NoPass.pc = "idle"
  BY DEF NoPass, Purger, Msgs
<1> QED BY <1>1, <1>2, <1>3, <1>4

LEMMA MsgTypes ==
  /\ \A row \in Msg, state \in {"none", "live", "deleted"}, b \in BOOLEAN :
        [row EXCEPT !.state = state, !.text = b] \in Msg
  /\ \A row \in Msg, b \in BOOLEAN : [row EXCEPT !.text = b] \in Msg
  /\ \A row \in Msg, b \in BOOLEAN : [row EXCEPT !.old = b] \in Msg
  /\ \A row \in Msg, state \in {"none", "live", "deleted"}, b \in BOOLEAN, c \in BOOLEAN :
        [row EXCEPT !.state = state, !.text = b, !.muddled = c] \in Msg
BY DEF Msg

LEMMA DeletedType ==
  ASSUME Stored, NEW m \in Msgs
  PROVE  /\ Deleted(m) \in Msg /\ Deleted(m).state = "deleted" /\ ~Deleted(m).text
         /\ Deleted(m).muddled <=> msg[m].muddled \/ \E p \in Procs : At(p, "edit") /\ req[p].msg = m
<1>1. msg[m] \in Msg
  BY DEF Stored
<1>2. (msg[m].muddled \/ \E p \in Procs : At(p, "edit") /\ req[p].msg = m) \in BOOLEAN
  BY <1>1 DEF Msg, At
<1>3. Deleted(m) = [msg[m] EXCEPT !.state = "deleted", !.text = FALSE,
                      !.muddled = msg[m].muddled \/ \E p \in Procs : At(p, "edit") /\ req[p].msg = m]
  BY <1>1 DEF Deleted, Msg
<1>4. Deleted(m) \in Msg
  BY <1>1, <1>2, <1>3, MsgTypes
<1> QED BY <1>1, <1>3, <1>4 DEF Msg

LEMMA FileTypes ==
  /\ \A row \in File, b \in BOOLEAN : [row EXCEPT !.row = b] \in File
  /\ \A row \in File, b \in BOOLEAN : [row EXCEPT !.object = b] \in File
BY DEF File

LEMMA MemberTypes ==
  /\ \A row \in Member, b \in BOOLEAN : [row EXCEPT !.hidden = b] \in Member
  /\ \A row \in Member, lost \in SUBSET Msgs : [row EXCEPT !.lost = lost] \in Member
  /\ \A row \in Member, n \in 0..MaxMessages : [row EXCEPT !.cleared = n] \in Member
  /\ \A row \in Member, n \in 0..MaxMessages, b \in BOOLEAN :
        [row EXCEPT !.cleared = n, !.hidden = b] \in Member
BY DEF Member

LEMMA RequestTypes ==
  /\ \A r \in Request, pc \in {"idle", "touch", "publish", "edit", "delete", "put", "row", "undo"} :
        [r EXCEPT !.pc = pc] \in Request
  /\ \A pc \in {"idle", "touch", "publish", "edit", "delete", "put", "row", "undo"},
        m \in Msgs \cup {Other}, e \in Msgs \cup {Other} :
           [pc |-> pc, msg |-> m, event |-> e] \in Request
BY DEF Request

LEMMA PurgerTypes ==
  /\ \A row \in Purger, pc \in {"idle", "next", "remove", "erase"} : [row EXCEPT !.pc = pc] \in Purger
  /\ \A row \in Purger, todo \in SUBSET Msgs : [row EXCEPT !.todo = todo] \in Purger
  /\ \A row \in Purger, pc \in {"idle", "next", "remove", "erase"}, todo \in SUBSET Msgs :
        [row EXCEPT !.pc = pc, !.todo = todo] \in Purger
  /\ \A row \in Purger, pc \in {"idle", "next", "remove", "erase"}, todo \in SUBSET Msgs, m \in Msgs :
        [row EXCEPT !.todo = todo, !.msg = m, !.pc = pc] \in Purger
BY DEF Purger

LEMMA Counting ==
  /\ Cardinality(Posted) \in 0..MaxMessages
  /\ \A m \in Msgs : (1..m) \subseteq Posted => m <= Cardinality(Posted)
<1>1. IsFiniteSet(Msgs) /\ Cardinality(Msgs) = MaxMessages
  BY FS_Interval DEF Msgs
<1>2. Posted \subseteq Msgs
  BY DEF Posted
<1>3. IsFiniteSet(Posted) /\ Cardinality(Posted) <= MaxMessages /\ Cardinality(Posted) \in Nat
  BY <1>1, <1>2, FS_Subset, FS_CardinalityType
<1>4. ASSUME NEW m \in Msgs, (1..m) \subseteq Posted PROVE m <= Cardinality(Posted)
  <2>1. m \in Nat \ {0}
    BY DEF Msgs
  <2>2. Cardinality(1..m) = m
    BY <2>1, FS_Interval
  <2>3. Cardinality(1..m) <= Cardinality(Posted)
    BY <1>3, <1>4, FS_Subset
  <2> QED BY <2>2, <2>3
<1> QED BY <1>3, <1>4

-----------------------------------------------------------------------------
(* The steps of a request *)

\* What every step of a request does to the others.
LEMMA RequestStep ==
  ASSUME InFlight, NEW p \in Procs, Handle(p)
  PROVE  /\ InFlight'
         /\ \A q \in Procs : q # p => req'[q] = req[q]
         /\ UNCHANGED <<held, lock, purger>>
<1>0. req[p] \in Request /\ req \in [Procs -> Request]
  BY DEF InFlight
<1>1. ASSUME NEW pc \in {"idle", "touch", "publish", "edit", "delete", "put", "row", "undo"}, Goto(p, pc)
      PROVE  req' \in [Procs -> Request] /\ \A q \in Procs : q # p => req'[q] = req[q]
  <2>1. [req[p] EXCEPT !.pc = pc] \in Request
    BY <1>0, RequestTypes
  <2> QED BY <1>0, <1>1, <2>1 DEF Goto
<1>2. ASSUME Finish(p)
      PROVE  req' \in [Procs -> Request] /\ \A q \in Procs : q # p => req'[q] = req[q]
  BY <1>0, <1>2, EmptyRecords DEF Finish
<1>3. ASSUME NEW pc \in {"touch", "publish", "edit", "delete", "put"}, NEW m \in Msgs \cup {Other},
             NEW e \in Msgs \cup {Other}, req' = [req EXCEPT ![p] = [pc |-> pc, msg |-> m, event |-> e]]
      PROVE  req' \in [Procs -> Request] /\ \A q \in Procs : q # p => req'[q] = req[q]
  <2>1. [pc |-> pc, msg |-> m, event |-> e] \in Request
    BY RequestTypes
  <2> QED BY <1>0, <1>3, <2>1
<1>4. req' \in [Procs -> Request] /\ \A q \in Procs : q # p => req'[q] = req[q]
  <2>1. CASE Touch(p) \/ Edit(p) \/ Delete(p)
    BY <1>1, <2>1 DEF Touch, Edit, Delete
  <2>2. CASE Abandon(p) \/ Publish(p) \/ Undo(p)
    BY <1>2, <2>2 DEF Abandon, Publish, Undo
  <2>3. CASE Put(p) \/ Save(p)
    BY <1>1, <1>2, <2>3 DEF Put, Save
  <2>4. CASE Chatter(p)
    BY <1>3, <2>4 DEF Chatter, Start
  <2>5. ASSUME NEW m \in Msgs, Insert(p, m)
        PROVE  req' \in [Procs -> Request] /\ \A q \in Procs : q # p => req'[q] = req[q]
    BY <1>3, <2>5 DEF Insert, Start, AfterInsert
  <2>6. ASSUME NEW m \in Msgs, Upload(p, m)
        PROVE  req' \in [Procs -> Request] /\ \A q \in Procs : q # p => req'[q] = req[q]
    BY <1>3, <2>6 DEF Upload
  <2>7. ASSUME NEW m \in Msgs, NEW what \in {"edit", "delete"}, ChangeRead(p, m, what)
        PROVE  req' \in [Procs -> Request] /\ \A q \in Procs : q # p => req'[q] = req[q]
    BY <1>3, <2>7 DEF ChangeRead, Start
  <2> QED BY <2>1, <2>2, <2>3, <2>4, <2>5, <2>6, <2>7 DEF Handle
<1>5. UNCHANGED <<held, lock, purger>>
  BY DEF Handle, Touch, Edit, Delete, Chatter, Abandon, Publish, Put, Save, Undo, Insert, Upload,
         ChangeRead, retention
<1> QED BY <1>4, <1>5 DEF InFlight

LEMMA TargetStep ==
  ASSUME InFlight, Targets, NEW p \in Procs, Handle(p)
  PROVE  Targets'
<1>0. req[p] \in Request /\ req \in [Procs -> Request]
  BY DEF InFlight
<1>1. \A q \in Procs : q # p => req'[q] = req[q]
  BY RequestStep
<1>2. req'[p].pc \in {"touch", "edit", "delete", "put", "row", "undo"} => req'[p].msg \in Msgs
  <2>1. CASE Touch(p) \/ Edit(p) \/ Delete(p)
    BY <1>0, <2>1 DEF Touch, Edit, Delete, Goto, Request
  <2>2. CASE Abandon(p) \/ Publish(p) \/ Undo(p)
    BY <1>0, <2>2, EmptyRecords DEF Abandon, Publish, Undo, Finish
  <2>3. CASE Put(p)
    BY <1>0, <2>3, EmptyRecords DEF Put, Goto, Finish, Targets, At, Request
  <2>4. CASE Save(p)
    BY <1>0, <2>4 DEF Save, Goto, Targets, At, Request
  <2>5. CASE Chatter(p)
    BY <1>0, <2>5 DEF Chatter, Start
  <2>6. ASSUME NEW m \in Msgs, Insert(p, m) \/ Upload(p, m) PROVE req'[p].msg \in Msgs
    BY <1>0, <2>6 DEF Insert, Upload, Start
  <2>7. ASSUME NEW m \in Msgs, NEW what \in {"edit", "delete"}, ChangeRead(p, m, what)
        PROVE  req'[p].msg \in Msgs
    BY <1>0, <2>7 DEF ChangeRead, Start
  <2> QED BY <2>1, <2>2, <2>3, <2>4, <2>5, <2>6, <2>7 DEF Handle
<1> QED BY <1>1, <1>2 DEF Targets

LEMMA RequestStores ==
  ASSUME Stored, Shown, Targets, NEW p \in Procs, Handle(p)
  PROVE  Stored'
<1>0. /\ msg \in [Msgs -> Msg] /\ file \in [Msgs -> File] /\ member \in [Viewers -> Member]
      /\ req[p].pc \in {"touch", "edit", "delete", "put", "row", "undo"} => req[p].msg \in Msgs
  BY DEF Stored, Targets
<1>1. ASSUME NEW m \in Msgs, Insert(p, m) PROVE Stored'
  <2>1. msg' \in [Msgs -> Msg]
    <3>1. [msg[m] EXCEPT !.state = "live", !.text = TRUE] \in Msg
      BY <1>0, MsgTypes
    <3> QED BY <1>0, <1>1, <3>1 DEF Insert
  <2> QED BY <1>0, <1>1, <2>1 DEF Insert, Stored
<1>2. ASSUME NEW m \in Msgs, member' = Untouched(m) PROVE member' \in [Viewers -> Member]
  <2>1. \A v \in Viewers : member[v].lost \cup {m} \in SUBSET Msgs
    BY <1>0 DEF Member
  <2>2. \A v \in Viewers : [member[v] EXCEPT !.lost = @ \cup {m}] \in Member
    BY <1>0, <2>1, MemberTypes
  <2> QED BY <1>2, <2>2 DEF Untouched
<1>3. CASE Touch(p)
  <2>1. \A v \in Viewers : [member[v] EXCEPT !.hidden = FALSE] \in Member
    BY <1>0, MemberTypes
  <2>2. member' \in [Viewers -> Member]
    BY <1>0, <1>2, <1>3, <2>1 DEF Touch, At
  <2> QED BY <1>0, <1>3, <2>2 DEF Touch, Stored
<1>4. CASE Abandon(p)
  <2>1. member' \in [Viewers -> Member]
    BY <1>0, <1>2, <1>4 DEF Abandon, At
  <2> QED BY <1>0, <1>4, <2>1 DEF Abandon, Stored
<1>5. CASE Edit(p)
  <2>1. [msg[req[p].msg] EXCEPT !.text = TRUE] \in Msg
    BY <1>0, <1>5, MsgTypes DEF Edit, At
  <2>2. msg' \in [Msgs -> Msg]
    BY <1>0, <1>5, <2>1 DEF Edit
  <2> QED BY <1>0, <1>5, <2>2 DEF Edit, Stored
<1>6. CASE Delete(p)
  <2>1. Deleted(req[p].msg) \in Msg
    BY <1>0, <1>6, DeletedType DEF Delete, At
  <2>2. msg' \in [Msgs -> Msg]
    BY <1>0, <1>6, <2>1 DEF Delete
  <2> QED BY <1>0, <1>6, <2>2 DEF Delete, Stored
<1>7. CASE Put(p) \/ Save(p) \/ Undo(p)
  <2>1. req[p].msg \in Msgs
    BY <1>0, <1>7 DEF Put, Save, Undo, At
  <2>2. \A b \in BOOLEAN : /\ [file EXCEPT ![req[p].msg].object = b] \in [Msgs -> File]
                           /\ [file EXCEPT ![req[p].msg].row = b] \in [Msgs -> File]
    BY <1>0, <2>1, FileTypes
  <2>3. file' \in [Msgs -> File]
    BY <1>0, <1>7, <2>2 DEF Put, Save, Undo
  <2> QED BY <1>0, <1>7, <2>3 DEF Put, Save, Undo, Stored
<1>8. CASE \/ Chatter(p) \/ Publish(p) \/ \E m \in Msgs : Upload(p, m)
           \/ \E m \in Msgs, what \in {"edit", "delete"} : ChangeRead(p, m, what)
  BY <1>0, <1>8 DEF Chatter, Publish, Upload, ChangeRead, talk, Stored
<1> QED BY <1>1, <1>3, <1>4, <1>5, <1>6, <1>7, <1>8 DEF Handle

LEMMA RequestShows ==
  ASSUME Shown, InFlight, NEW p \in Procs, Handle(p)
  PROVE  Shown'
<1>0. /\ stream \in [Viewers -> Stream]
      /\ \A v \in Viewers : Len(stream[v].queue) <= Buffer
      /\ req[p].event \in Msgs \cup {Other}
  BY DEF Shown, InFlight, Request
<1>1. CASE Publish(p)
  <2>1. ASSUME NEW v \in Viewers, Fits(v)
        PROVE  /\ [stream[v] EXCEPT !.queue = Append(@, req[p].event)] \in Stream
               /\ Len([stream[v] EXCEPT !.queue = Append(@, req[p].event)].queue) <= Buffer
    <3>1. stream[v] \in Stream /\ stream[v].queue \in Seq(Msgs \cup {Other})
      BY <1>0 DEF Stream
    <3>2. /\ Append(stream[v].queue, req[p].event) \in Seq(Msgs \cup {Other})
          /\ Len(Append(stream[v].queue, req[p].event)) = Len(stream[v].queue) + 1
      BY <1>0, <3>1
    <3>3. Len(stream[v].queue) < Buffer /\ Len(stream[v].queue) \in Nat
      BY <2>1, <3>1 DEF Fits
    <3>4. [stream[v] EXCEPT !.queue = Append(stream[v].queue, req[p].event)] \in Stream
      BY <3>1, <3>2 DEF Stream
    <3>5. [stream[v] EXCEPT !.queue = Append(stream[v].queue, req[p].event)].queue
          = Append(stream[v].queue, req[p].event)
      BY <3>1 DEF Stream
    <3> QED BY <3>2, <3>3, <3>4, <3>5
  <2>2. stream' \in [Viewers -> Stream] /\ \A v \in Viewers : Len(stream'[v].queue) <= Buffer
    BY <1>0, <1>1, <2>1 DEF Publish
  <2> QED BY <2>2 DEF Shown
<1>2. CASE \/ Abandon(p) \/ Touch(p) \/ Edit(p) \/ Delete(p) \/ Chatter(p) \/ Put(p) \/ Save(p) \/ Undo(p)
           \/ \E m \in Msgs : Insert(p, m) \/ Upload(p, m)
           \/ \E m \in Msgs, what \in {"edit", "delete"} : ChangeRead(p, m, what)
  <2>1. UNCHANGED stream
    BY <1>2 DEF Abandon, Touch, Edit, Delete, Chatter, Put, Save, Undo, Insert, Upload, ChangeRead
  <2> QED BY <1>0, <2>1 DEF Shown
<1> QED BY <1>1, <1>2 DEF Handle

-----------------------------------------------------------------------------
(* The steps of a member, of the retention, and of time *)

LEMMA ViewStep ==
  ASSUME Stored, Shown, NEW v \in Viewers, View(v)
  PROVE  Stored' /\ Shown' /\ UNCHANGED <<msg, file, req, held, lock, purger>>
<1>0. /\ stream \in [Viewers -> Stream] /\ member \in [Viewers -> Member]
      /\ stream[v] \in Stream /\ member[v] \in Member
      /\ \A w \in Viewers : Len(stream[w].queue) <= Buffer
  BY DEF Shown, Stored
<1>1. UNCHANGED <<msg, file, req, held, lock, purger>>
  BY DEF View, Subscribe, Break, Consume, Clear, Hide, talk, retention
<1>2. member' \in [Viewers -> Member]
  <2>1. CASE Clear(v) \/ Hide(v)
    <3>1. Cardinality(Posted) \in 0..MaxMessages
      BY Counting
    <3>2. /\ [member[v] EXCEPT !.cleared = Cardinality(Posted)] \in Member
          /\ [member[v] EXCEPT !.cleared = Cardinality(Posted), !.hidden = TRUE] \in Member
      BY <1>0, <3>1, MemberTypes
    <3> QED BY <1>0, <2>1, <3>2 DEF Clear, Hide
  <2>2. CASE ~(Clear(v) \/ Hide(v))
    BY <1>0, <2>2 DEF View, Subscribe, Break, Consume, talk
  <2> QED BY <2>1, <2>2
<1>3. stream' \in [Viewers -> Stream] /\ \A w \in Viewers : Len(stream'[w].queue) <= Buffer
  <2>1. CASE Subscribe(v)
    <3>1. [open |-> TRUE, queue |-> <<>>] \in Stream /\ Len(<<>>) = 0
      BY DEF Stream
    <3> QED BY <1>0, <2>1, <3>1 DEF Subscribe
  <2>2. CASE Break(v)
    BY <1>0, <2>2, EmptyRecords DEF Break
  <2>3. CASE Consume(v)
    <3>1. stream[v].queue \in Seq(Msgs \cup {Other}) /\ stream[v].queue # <<>>
      BY <1>0, <2>3 DEF Consume, Stream
    <3>2. /\ Tail(stream[v].queue) \in Seq(Msgs \cup {Other})
          /\ Len(Tail(stream[v].queue)) = Len(stream[v].queue) - 1
      BY <3>1
    <3>3. /\ [stream[v] EXCEPT !.queue = Tail(stream[v].queue)] \in Stream
          /\ Len(stream[v].queue) \in Nat
      <4>1. \A row \in Stream, queue \in Seq(Msgs \cup {Other}) : [row EXCEPT !.queue = queue] \in Stream
        BY DEF Stream
      <4>2. [stream[v] EXCEPT !.queue = Tail(stream[v].queue)] \in Stream
        BY <1>0, <3>2, <4>1
      <4>3. Len(stream[v].queue) \in Nat
        BY <3>1
      <4> QED BY <4>2, <4>3
    <3>4. stream' = [stream EXCEPT ![v] = [stream[v] EXCEPT !.queue = Tail(stream[v].queue)]]
      BY <1>0, <2>3 DEF Consume
    <3>5. stream'[v].queue = Tail(stream[v].queue)
      BY <1>0, <3>4 DEF Stream
    <3> QED BY <1>0, <3>2, <3>3, <3>4, <3>5
  <2>4. CASE Clear(v) \/ Hide(v)
    BY <1>0, <2>4 DEF Clear, Hide
  <2> QED BY <2>1, <2>2, <2>3, <2>4 DEF View
<1> QED BY <1>0, <1>1, <1>2, <1>3 DEF Stored, Shown

\* While a purge has the lock nobody holds the conversation.
PurgesUnheld == lock # Free => ~held

\* g removes the object of m and does not know that it has lost the lock.
Stray(g, m) == purger[g].pc = "remove" /\ purger[g].msg = m /\ lock # g

LEMMA PurgeStep ==
  ASSUME Stored, InFlight, PurgesUnheld, NEW g \in Purgers, Purge(g)
  PROVE  /\ Stored' /\ InFlight' /\ PurgesUnheld'
         /\ UNCHANGED <<msg, member, stream, req, held>>
         /\ \A m \in Msgs : \/ file'[m] = file[m] \/ ~held
                             \/ (Stray(g, m) /\ file'[m].row = file[m].row)
<1>0. /\ file \in [Msgs -> File] /\ purger \in [Purgers -> Purger] /\ purger[g] \in Purger
      /\ purger[g].msg \in Msgs /\ purger[g].todo \in SUBSET Msgs
      /\ purger[g].pc \in {"idle", "next", "remove", "erase"}
      /\ Free \notin Purgers
      /\ \A h \in Purgers : lock = h => purger[h].pc \in {"remove", "erase"}
  BY DEF Stored, InFlight, Purger
<1>1. UNCHANGED <<msg, member, stream, req, held>>
  BY DEF Purge, PurgeList, PurgeRemove, PurgeUnlocks, PurgeErase, PurgeEnd, PurgeLock, talk
<1>2. file' \in [Msgs -> File]
  <2>1. \A b \in BOOLEAN : /\ [file EXCEPT ![purger[g].msg].object = b] \in [Msgs -> File]
                           /\ [file EXCEPT ![purger[g].msg].row = b] \in [Msgs -> File]
    BY <1>0, FileTypes
  <2> QED BY <1>0, <2>1 DEF Purge, PurgeList, PurgeRemove, PurgeUnlocks, PurgeErase, PurgeEnd,
                            PurgeLock, talk
<1>a. ASSUME NEW m \in Msgs, file'[m] # file[m], held PROVE Stray(g, m) /\ file'[m].row = file[m].row
  <2>1. lock # g
    BY <1>0, <1>a DEF PurgesUnheld
  <2>2. PurgeRemove(g)
    BY <1>0, <1>a, <2>1 DEF Purge, PurgeList, PurgeUnlocks, PurgeErase, PurgeEnd, PurgeLock, talk
  <2>3. purger[g].msg = m /\ file' = [file EXCEPT ![m].object = FALSE]
    BY <1>0, <1>a, <2>2 DEF PurgeRemove
  <2> QED BY <1>0, <2>1, <2>2, <2>3 DEF PurgeRemove, Stray, File
<1>3. ASSUME purger' \in [Purgers -> Purger], \A h \in Purgers : h # g => purger'[h] = purger[h],
             \/ lock' = IF lock = g THEN Free ELSE lock
             \/ /\ lock' = lock \/ (lock' = g /\ ~held)
                /\ lock' = g => purger'[g].pc \in {"remove", "erase"}
      PROVE  InFlight' /\ PurgesUnheld'
  <2>1. \A h \in Purgers : lock' = h => purger'[h].pc \in {"remove", "erase"}
    BY <1>0, <1>3
  <2>2. lock' \in Purgers \cup {Free}
    BY <1>3 DEF InFlight
  <2>3. InFlight'
    BY <1>1, <1>3, <2>1, <2>2 DEF InFlight
  <2>4. PurgesUnheld'
    BY <1>1, <1>3 DEF PurgesUnheld
  <2> QED BY <2>3, <2>4
<1>4. ASSUME PurgeList(g) PROVE InFlight' /\ PurgesUnheld'
  <2>1. [purger[g] EXCEPT !.pc = "next", !.todo = {m \in Msgs : file[m].row /\ msg[m].old}] \in Purger
    BY <1>0, PurgerTypes
  <2>2. /\ purger' = [purger EXCEPT ![g] = [purger[g] EXCEPT !.pc = "next",
                                              !.todo = {m \in Msgs : file[m].row /\ msg[m].old}]]
        /\ lock' = lock /\ lock # g
    BY <1>0, <1>4 DEF PurgeList
  <2>3. purger' \in [Purgers -> Purger] /\ \A h \in Purgers : h # g => purger'[h] = purger[h]
    BY <1>0, <2>1, <2>2
  <2>4. purger'[g].pc = "next"
    BY <1>0, <2>2 DEF Purger
  <2> QED BY <1>3, <2>2, <2>3, <2>4
<1>5. ASSUME NEW m \in Msgs, PurgeLock(g, m) PROVE InFlight' /\ PurgesUnheld'
  <2>0. purger[g].pc = "next" /\ lock = Free /\ lock # g
    BY <1>0, <1>5 DEF PurgeLock
  <2>1. purger[g].todo \ {m} \in SUBSET Msgs
    BY <1>0
  <2>2. CASE held
    <3>1. [purger[g] EXCEPT !.todo = purger[g].todo \ {m}] \in Purger
      BY <1>0, <2>1, PurgerTypes
    <3>2. /\ purger' = [purger EXCEPT ![g] = [purger[g] EXCEPT !.todo = purger[g].todo \ {m}]]
          /\ lock' = lock
      BY <1>0, <1>5, <2>2 DEF PurgeLock, Spared
    <3>3. purger' \in [Purgers -> Purger] /\ \A h \in Purgers : h # g => purger'[h] = purger[h]
      BY <1>0, <3>1, <3>2
    <3>4. purger'[g].pc = "next"
      BY <1>0, <2>0, <3>2 DEF Purger
    <3> QED BY <1>3, <2>0, <3>2, <3>3, <3>4
  <2>3. CASE ~held
    <3>1. [purger[g] EXCEPT !.todo = purger[g].todo \ {m}, !.msg = m, !.pc = "remove"] \in Purger
      BY <1>0, <2>1, PurgerTypes
    <3>2. /\ purger' = [purger EXCEPT ![g] = [purger[g] EXCEPT !.todo = purger[g].todo \ {m},
                                                                !.msg = m, !.pc = "remove"]]
          /\ lock' = g
      BY <1>0, <1>5, <2>3 DEF PurgeLock, Spared
    <3>3. purger' \in [Purgers -> Purger] /\ \A h \in Purgers : h # g => purger'[h] = purger[h]
      BY <1>0, <3>1, <3>2
    <3>4. purger'[g].pc = "remove"
      BY <1>0, <3>2 DEF Purger
    <3> QED BY <1>3, <2>0, <2>3, <3>2, <3>3, <3>4
  <2> QED BY <2>2, <2>3
<1>6. ASSUME Unlock(g) PROVE InFlight' /\ PurgesUnheld'
  <2>1. [purger[g] EXCEPT !.pc = "next"] \in Purger
    BY <1>0, PurgerTypes
  <2>2. purger' \in [Purgers -> Purger] /\ \A h \in Purgers : h # g => purger'[h] = purger[h]
    BY <1>0, <1>6, <2>1 DEF Unlock
  <2> QED BY <1>3, <1>6, <2>2 DEF Unlock
<1>7. ASSUME PurgeRemove(g) PROVE InFlight' /\ PurgesUnheld'
  <2>1. ASSUME purger' = [purger EXCEPT ![g].pc = "erase"], UNCHANGED lock
        PROVE  InFlight' /\ PurgesUnheld'
    <3>1. [purger[g] EXCEPT !.pc = "erase"] \in Purger
      BY <1>0, PurgerTypes
    <3>2. purger' \in [Purgers -> Purger] /\ \A h \in Purgers : h # g => purger'[h] = purger[h]
      BY <1>0, <2>1, <3>1
    <3>3. purger'[g].pc = "erase"
      BY <1>0, <2>1 DEF Purger
    <3> QED BY <1>3, <2>1, <3>2, <3>3
  <2> QED BY <1>6, <1>7, <2>1 DEF PurgeRemove
<1>8. ASSUME PurgeErase(g) \/ PurgeUnlocks(g) PROVE InFlight' /\ PurgesUnheld'
  <2>1. CASE PurgeErase(g)
    BY <1>6, <2>1 DEF PurgeErase
  <2>2. CASE PurgeUnlocks(g)
    BY <1>3, <1>0, <2>2 DEF PurgeUnlocks, InFlight
  <2> QED BY <1>8, <2>1, <2>2
<1>9. ASSUME PurgeEnd(g) PROVE InFlight' /\ PurgesUnheld'
  <2>1. purger' \in [Purgers -> Purger] /\ \A h \in Purgers : h # g => purger'[h] = purger[h]
    BY <1>0, <1>9, EmptyRecords DEF PurgeEnd
  <2>2. purger'[g].pc = "idle" /\ lock' = IF lock = g THEN Free ELSE lock
    BY <1>0, <1>9, EmptyRecords DEF PurgeEnd
  <2> QED BY <1>3, <2>1, <2>2
<1>10. InFlight' /\ PurgesUnheld'
  BY <1>4, <1>5, <1>7, <1>8, <1>9 DEF Purge
<1>11. Stored'
  BY <1>1, <1>2 DEF Stored
<1>12. ASSUME NEW m \in Msgs
       PROVE  \/ file'[m] = file[m] \/ ~held
              \/ (Stray(g, m) /\ file'[m].row = file[m].row)
  <2>1. CASE file'[m] = file[m] \/ ~held
    BY <2>1
  <2>2. CASE file'[m] # file[m] /\ held
    BY <1>a, <2>2
  <2> QED BY <2>1, <2>2
<1> QED BY <1>1, <1>10, <1>11, <1>12

LEMMA OtherStep ==
  ASSUME Stored, InFlight, PurgesUnheld,
         (\E m \in Msgs : Expire(m)) \/ Redact \/ Hold \/ Release
  PROVE  /\ Stored' /\ InFlight' /\ PurgesUnheld'
         /\ UNCHANGED <<file, member, stream, req, lock, purger>>
<1>0. msg \in [Msgs -> Msg]
  BY DEF Stored
<1>1. UNCHANGED <<file, member, stream, req, lock, purger>>
  BY DEF Expire, Redact, Hold, Release, talk, retention
<1>2. msg' \in [Msgs -> Msg]
  <2>1. ASSUME NEW m \in Msgs, Expire(m) PROVE msg' \in [Msgs -> Msg]
    <3>1. [msg[m] EXCEPT !.old = TRUE] \in Msg
      BY <1>0, MsgTypes
    <3> QED BY <1>0, <2>1, <3>1 DEF Expire
  <2>2. CASE Redact
    <3>1. \A m \in Msgs : Deleted(m) \in Msg
      BY DeletedType
    <3> QED BY <1>0, <2>2, <3>1 DEF Redact
  <2>3. CASE Hold \/ Release
    BY <1>0, <2>3 DEF Hold, Release, talk
  <2> QED BY <2>1, <2>2, <2>3
<1>3. held' \in BOOLEAN /\ PurgesUnheld'
  <2>1. CASE Hold
    BY <1>1, <2>1 DEF Hold, InFlight, PurgesUnheld
  <2>2. CASE Release
    BY <1>1, <2>2 DEF Release, PurgesUnheld
  <2>3. CASE Redact \/ \E m \in Msgs : Expire(m)
    BY <1>1, <2>3 DEF Redact, Expire, retention, InFlight, PurgesUnheld
  <2> QED BY <2>1, <2>2, <2>3
<1> QED BY <1>1, <1>2, <1>3 DEF Stored, InFlight

-----------------------------------------------------------------------------
(* Erased messages *)

\* An edit that is under way on a deleted message has muddled it.
EditsMuddle ==
    \A p \in Procs : At(p, "edit") /\ Is(req[p].msg, "deleted") => msg[req[p].msg].muddled

Erased == ErasedStaysErased /\ EditsMuddle

\* A step that leaves the messages alone and lets no edit begin on a deleted one.
LEMMA ErasedKept ==
  ASSUME Erased, msg' = msg,
         \A p \in Procs : At(p, "edit")' =>
            \/ At(p, "edit") /\ req'[p].msg = req[p].msg
            \/ Is(req'[p].msg, "live")
  PROVE  Erased'
BY DEF Erased, ErasedStaysErased, EditsMuddle, Is, At

LEMMA ErasedStep == TypeOK /\ Targets /\ Erased /\ [Next]_vars => Erased'
<1> SUFFICES ASSUME TypeOK, Targets, Erased, [Next]_vars PROVE Erased'
  OBVIOUS
<1>0. /\ Stored /\ Shown /\ InFlight
      /\ msg \in [Msgs -> Msg] /\ req \in [Procs -> Request]
  BY TypeParts DEF Stored, InFlight
<1>1. ASSUME UNCHANGED <<msg, req>> PROVE Erased'
  BY <1>1, ErasedKept DEF At
<1>2. ASSUME NEW p \in Procs, NEW m \in Msgs, Insert(p, m) PROVE Erased'
  <2>1. /\ \A n \in Msgs : n # m => msg'[n] = msg[n]
        /\ msg'[m].state = "live" /\ Is(m, "none") /\ At(p, "idle")
        /\ req'[p].pc = "touch" /\ \A q \in Procs : q # p => req'[q] = req[q]
    BY <1>0, <1>2 DEF Insert, Start, AfterInsert, Msg
  <2>2. \A q \in Procs : At(q, "edit")' => At(q, "edit") /\ req'[q] = req[q] /\ req[q].msg \in Msgs
    BY <2>1 DEF At, Targets
  <2>3. ErasedStaysErased'
    BY <2>1 DEF Erased, ErasedStaysErased, Is
  <2>4. EditsMuddle'
    BY <2>1, <2>2 DEF Erased, EditsMuddle, Is
  <2> QED BY <2>3, <2>4 DEF Erased
<1>3. ASSUME NEW p \in Procs, Edit(p) PROVE Erased'
  <2>1. /\ req[p].msg \in Msgs /\ At(p, "edit")
        /\ req'[p].pc = "publish" /\ \A q \in Procs : q # p => req'[q] = req[q]
    BY <1>0, <1>3 DEF Edit, Goto, Targets, At, Request
  <2>2. \A n \in Msgs : /\ msg'[n].state = msg[n].state
                        /\ msg'[n].muddled = msg[n].muddled
                        /\ n # req[p].msg => msg'[n] = msg[n]
    BY <1>0, <1>3, <2>1 DEF Edit, Msg
  <2>3. \A q \in Procs : At(q, "edit")' => At(q, "edit") /\ req'[q] = req[q] /\ req[q].msg \in Msgs
    BY <2>1 DEF At, Targets
  <2>4. ErasedStaysErased'
    BY <2>1, <2>2 DEF Erased, ErasedStaysErased, EditsMuddle, Is
  <2>5. EditsMuddle'
    BY <2>2, <2>3 DEF Erased, EditsMuddle, Is
  <2> QED BY <2>4, <2>5 DEF Erased
\* An erasure muddles the messages it takes that have an edit under way.
<1>4. ASSUME NEW ms \in SUBSET Msgs,
             \A m \in Msgs : m \notin ms => msg'[m] = msg[m],
             \A m \in ms : msg'[m] = Deleted(m),
             \A q \in Procs : At(q, "edit")' => At(q, "edit") /\ req'[q].msg = req[q].msg
      PROVE  Erased'
  <2>1. \A m \in ms : /\ ~msg'[m].text
                      /\ \A q \in Procs : At(q, "edit") /\ req[q].msg = m => msg'[m].muddled
    BY <1>0, <1>4, DeletedType
  <2>2. ErasedStaysErased'
    BY <1>4, <2>1 DEF Erased, ErasedStaysErased, Is
  <2>3. EditsMuddle'
    <3>1. \A q \in Procs : At(q, "edit") => req[q].msg \in Msgs
      BY DEF Targets, At
    <3> QED BY <1>4, <2>1, <3>1 DEF Erased, EditsMuddle, Is
  <2> QED BY <2>2, <2>3 DEF Erased
<1>5. ASSUME NEW p \in Procs, Delete(p) PROVE Erased'
  <2>1. /\ req[p].msg \in Msgs /\ At(p, "delete")
        /\ req'[p].pc = "publish" /\ \A q \in Procs : q # p => req'[q] = req[q]
    BY <1>0, <1>5 DEF Delete, Goto, Targets, At, Request
  <2>2. /\ \A m \in Msgs : m \notin {req[p].msg} => msg'[m] = msg[m]
        /\ \A m \in {req[p].msg} : msg'[m] = Deleted(m)
    BY <1>0, <1>5, <2>1 DEF Delete
  <2>3. \A q \in Procs : At(q, "edit")' => At(q, "edit") /\ req'[q].msg = req[q].msg
    BY <2>1 DEF At
  <2>4. {req[p].msg} \in SUBSET Msgs
    BY <2>1
  <2> QED BY <1>4, <2>2, <2>3, <2>4
<1>6. ASSUME Redact PROVE Erased'
  <2>1. /\ \A m \in Msgs : m \notin {n \in Msgs : msg[n].old /\ Is(n, "live")} => msg'[m] = msg[m]
        /\ \A m \in {n \in Msgs : msg[n].old /\ Is(n, "live")} : msg'[m] = Deleted(m)
    BY <1>6 DEF Redact
  <2>2. \A q \in Procs : At(q, "edit")' => At(q, "edit") /\ req'[q].msg = req[q].msg
    BY <1>6 DEF Redact, At
  <2> QED BY <1>4, <2>1, <2>2
<1>7. ASSUME NEW m \in Msgs, Expire(m) PROVE Erased'
  <2>1. req' = req /\ \A n \in Msgs : /\ msg'[n].state = msg[n].state
                                      /\ msg'[n].muddled = msg[n].muddled
                                      /\ msg'[n].text = msg[n].text
    BY <1>0, <1>7 DEF Expire, Msg
  <2>2. \A q \in Procs : At(q, "edit") => req[q].msg \in Msgs
    BY DEF Targets, At
  <2> QED BY <2>1, <2>2 DEF Erased, ErasedStaysErased, EditsMuddle, Is, At
<1>8. ASSUME NEW p \in Procs, Handle(p), ~Edit(p), ~Delete(p), \A m \in Msgs : ~Insert(p, m)
      PROVE  Erased'
  <2>1. \A q \in Procs : q # p => req'[q] = req[q]
    BY <1>0, <1>8, RequestStep
  <2>2. msg' = msg
    BY <1>8 DEF Handle, Touch, Chatter, Abandon, Publish, Put, Save, Undo, Upload, ChangeRead, talk
  <2>3. ASSUME At(p, "edit")' PROVE Is(req'[p].msg, "live")
    <3>1. CASE Touch(p)
      BY <1>0, <2>3, <3>1 DEF Touch, Goto, At, Request
    <3>2. CASE Abandon(p) \/ Publish(p) \/ Undo(p)
      BY <1>0, <2>3, <3>2, EmptyRecords DEF Abandon, Publish, Undo, Finish, At
    <3>3. CASE Put(p)
      BY <1>0, <2>3, <3>3, EmptyRecords DEF Put, Goto, Finish, At, Request
    <3>4. CASE Save(p)
      BY <1>0, <2>3, <3>4 DEF Save, Goto, At, Request
    <3>5. CASE Chatter(p)
      BY <1>0, <2>3, <3>5 DEF Chatter, Start, At
    <3>6. ASSUME NEW m \in Msgs, Upload(p, m) PROVE FALSE
      BY <1>0, <2>3, <3>6 DEF Upload, At
    <3>7. ASSUME NEW m \in Msgs, NEW what \in {"edit", "delete"}, ChangeRead(p, m, what)
          PROVE  Is(req'[p].msg, "live")
      BY <1>0, <3>7 DEF ChangeRead, Start, Changeable
    <3> QED BY <1>8, <3>1, <3>2, <3>3, <3>4, <3>5, <3>6, <3>7 DEF Handle
  <2> QED BY <2>1, <2>2, <2>3, ErasedKept DEF At
<1>9. ASSUME NEW v \in Viewers, View(v) PROVE Erased'
  BY <1>0, <1>1, <1>9, ViewStep
<1>10. ASSUME NEW g \in Purgers, Purge(g) PROVE Erased'
  <2>1. UNCHANGED <<msg, req>>
    BY <1>10 DEF Purge, PurgeList, PurgeRemove, PurgeUnlocks, PurgeErase, PurgeEnd,
           PurgeLock, talk
  <2> QED BY <1>1, <2>1
<1>11. CASE UNCHANGED vars \/ Hold \/ Release
  <2>1. UNCHANGED <<msg, req>>
    BY <1>11 DEF vars, Hold, Release, talk
  <2> QED BY <1>1, <2>1
<1> QED BY <1>2, <1>3, <1>5, <1>6, <1>7, <1>8, <1>9, <1>10, <1>11 DEF Next

-----------------------------------------------------------------------------
(* Hidden conversations *)

\* Messages are posted in their order, and are changed only once they are there.
PostedInOrder == \A m \in Msgs, n \in Msgs : n < m /\ m \in Posted => n \in Posted

ChangesPosted == \A p \in Procs : req[p].pc \in {"edit", "delete"} => req[p].msg \in Posted

Hiding == NewMessageUnhides /\ PostedInOrder /\ ChangesPosted

LEMMA PostedCount ==
  ASSUME PostedInOrder, NEW m \in Posted
  PROVE  m <= Cardinality(Posted)
<1>1. m \in Msgs /\ (1..m) \subseteq Msgs
  BY DEF Posted, Msgs
<1>2. \A n \in 1..m : n < m \/ n = m
  BY <1>1 DEF Msgs
<1>3. (1..m) \subseteq Posted
  BY <1>1, <1>2 DEF PostedInOrder
<1> QED BY <1>1, <1>3, Counting

\* A step that posts nothing and hides nothing.
LEMMA HidingKept ==
  ASSUME Hiding, \A m \in Msgs : Is(m, "none")' <=> Is(m, "none"),
         \A v \in Viewers : /\ member'[v].hidden => member[v].hidden
                            /\ member'[v].cleared = member[v].cleared
                            /\ member[v].lost \subseteq member'[v].lost,
         \A p \in Procs, m \in Msgs : At(p, "touch") /\ req[p].msg = m =>
            \/ At(p, "touch")' /\ req'[p].msg = m
            \/ \A v \in Viewers : ~member'[v].hidden \/ m \in member'[v].lost,
         \A p \in Procs : req'[p].pc \in {"edit", "delete"} =>
            \/ req[p].pc \in {"edit", "delete"} /\ req'[p].msg = req[p].msg
            \/ req'[p].msg \in Posted
  PROVE  Hiding'
<1>1. Posted' = Posted /\ Posted \subseteq Msgs
  BY DEF Posted, Is
<1>2. PostedInOrder' /\ ChangesPosted'
  BY <1>1 DEF Hiding, PostedInOrder, ChangesPosted
<1>3. NewMessageUnhides'
  BY <1>1 DEF Hiding, NewMessageUnhides
<1> QED BY <1>2, <1>3 DEF Hiding

LEMMA HidingStep == TypeOK /\ Targets /\ Hiding /\ [Next]_vars => Hiding'
<1> SUFFICES ASSUME TypeOK, Targets, Hiding, [Next]_vars PROVE Hiding'
  OBVIOUS
<1>0. /\ Stored /\ Shown /\ InFlight
      /\ msg \in [Msgs -> Msg] /\ member \in [Viewers -> Member] /\ req \in [Procs -> Request]
      /\ Posted \subseteq Msgs
  BY TypeParts DEF Stored, InFlight, Posted
<1>1. ASSUME UNCHANGED <<member, req>>, \A m \in Msgs : Is(m, "none")' <=> Is(m, "none")
      PROVE  Hiding'
  BY <1>1, HidingKept DEF At
<1>2. ASSUME NEW p \in Procs, NEW m \in Msgs, Insert(p, m) PROVE Hiding'
  <2>1. /\ \A n \in Msgs : n # m => msg'[n] = msg[n]
        /\ msg'[m].state = "live" /\ Is(m, "none") /\ At(p, "idle") /\ member' = member
        /\ req'[p].pc = "touch" /\ req'[p].msg = m /\ \A q \in Procs : q # p => req'[q] = req[q]
        /\ \A n \in Msgs : n < m => n \in Posted
    BY <1>0, <1>2 DEF Insert, Start, AfterInsert, Msg, Posted, Is
  <2>2. Posted' = Posted \cup {m} /\ m \notin Posted
    BY <2>1 DEF Posted, Is
  <2>3. PostedInOrder'
    BY <2>1, <2>2 DEF Hiding, PostedInOrder, Msgs
  <2>4. ChangesPosted'
    BY <2>1, <2>2 DEF Hiding, ChangesPosted
  <2>5. NewMessageUnhides'
    <3>1. \A q \in Procs : At(q, "touch") => At(q, "touch")' /\ req'[q].msg = req[q].msg
      BY <2>1 DEF At
    <3> QED BY <2>1, <2>2, <3>1 DEF Hiding, NewMessageUnhides, At
  <2> QED BY <2>3, <2>4, <2>5 DEF Hiding
\* A failed UPDATE loses the message of its request.
<1>3. ASSUME NEW m \in Msgs, member' = Untouched(m)
      PROVE  \A v \in Viewers : /\ member'[v].hidden <=> member[v].hidden
                                /\ member'[v].cleared = member[v].cleared
                                /\ member'[v].lost = member[v].lost \cup {m}
  BY <1>0, <1>3 DEF Untouched, Member
<1>4. ASSUME NEW p \in Procs, Touch(p) \/ (Abandon(p) /\ At(p, "touch")) PROVE Hiding'
  <2>1. /\ req[p].msg \in Msgs /\ msg' = msg /\ At(p, "touch")
        /\ req'[p].pc \in {"publish", "idle"} /\ \A q \in Procs : q # p => req'[q] = req[q]
    BY <1>0, <1>4, EmptyRecords DEF Touch, Abandon, Goto, Finish, Targets, At, Request
  <2>2. \/ member' = [v \in Viewers |-> [member[v] EXCEPT !.hidden = FALSE]]
        \/ member' = Untouched(req[p].msg)
    BY <1>4 DEF Touch, Abandon
  <2>3. CASE member' = [v \in Viewers |-> [member[v] EXCEPT !.hidden = FALSE]]
    <3>1. \A v \in Viewers : /\ ~member'[v].hidden
                             /\ member'[v].cleared = member[v].cleared
                             /\ member'[v].lost = member[v].lost
      BY <1>0, <2>3 DEF Member
    <3> QED BY <2>1, <3>1, HidingKept DEF At, Is
  <2>4. CASE member' = Untouched(req[p].msg)
    <3>1. \A v \in Viewers : /\ member'[v].hidden <=> member[v].hidden
                             /\ member'[v].cleared = member[v].cleared
                             /\ member'[v].lost = member[v].lost \cup {req[p].msg}
      BY <1>3, <2>1, <2>4
    <3> QED BY <2>1, <3>1, HidingKept DEF At, Is
  <2> QED BY <2>2, <2>3, <2>4
<1>5. ASSUME NEW p \in Procs, member' = member, ~At(p, "touch"),
             \A q \in Procs : q # p => req'[q] = req[q],
             req'[p].pc \in {"edit", "delete"} => req'[p].msg \in Posted,
             \A m \in Msgs : Is(m, "none")' <=> Is(m, "none")
      PROVE  Hiding'
  BY <1>5, HidingKept DEF At
<1>6. ASSUME NEW p \in Procs, Edit(p) \/ Delete(p) PROVE Hiding'
  <2>1. /\ req[p].msg \in Msgs /\ req[p].msg \in Posted /\ member' = member /\ ~At(p, "touch")
        /\ req'[p].pc = "publish" /\ \A q \in Procs : q # p => req'[q] = req[q]
    BY <1>0, <1>6 DEF Edit, Delete, Goto, Targets, At, Request, Hiding, ChangesPosted
  <2>2. \A m \in Msgs : Is(m, "none")' <=> Is(m, "none")
    <3>1. \A m \in Msgs : m # req[p].msg => msg'[m] = msg[m]
      BY <1>0, <1>6 DEF Edit, Delete
    <3>2. msg'[req[p].msg].state # "none"
      <4>1. CASE Edit(p)
        BY <1>0, <2>1, <4>1 DEF Edit, Msg, Posted
      <4>2. CASE Delete(p)
        <5>1. msg'[req[p].msg] = Deleted(req[p].msg)
          BY <1>0, <2>1, <4>2 DEF Delete
        <5> QED BY <1>0, <2>1, <5>1, DeletedType
      <4> QED BY <1>6, <4>1, <4>2
    <3> QED BY <2>1, <3>1, <3>2 DEF Is, Posted
  <2> QED BY <1>5, <2>1, <2>2
<1>7. ASSUME NEW p \in Procs,
             \/ Chatter(p) \/ Publish(p) \/ Put(p) \/ Save(p) \/ Undo(p) \/ (Abandon(p) /\ ~At(p, "touch"))
             \/ \E m \in Msgs : Upload(p, m)
             \/ \E m \in Msgs, what \in {"edit", "delete"} : ChangeRead(p, m, what)
      PROVE  Hiding'
  <2>1. member' = member /\ msg' = msg /\ ~At(p, "touch")
    BY <1>7 DEF Chatter, Publish, Put, Save, Undo, Abandon, Upload, ChangeRead, Start, talk, At
  <2>2. \A q \in Procs : q # p => req'[q] = req[q]
    BY <1>0, <1>7, RequestStep DEF Handle
  <2>3. req'[p].pc \in {"edit", "delete"} => req'[p].msg \in Posted
    <3>1. CASE Publish(p) \/ Undo(p) \/ Abandon(p)
      BY <1>0, <3>1, EmptyRecords DEF Publish, Undo, Abandon, Finish
    <3>2. CASE Put(p)
      BY <1>0, <3>2, EmptyRecords DEF Put, Goto, Finish, Request
    <3>3. CASE Save(p)
      BY <1>0, <3>3 DEF Save, Goto, Request
    <3>4. CASE Chatter(p) \/ \E m \in Msgs : Upload(p, m)
      BY <1>0, <3>4 DEF Chatter, Upload, Start
    <3>5. ASSUME NEW m \in Msgs, NEW what \in {"edit", "delete"}, ChangeRead(p, m, what)
          PROVE  req'[p].msg \in Posted
      BY <1>0, <3>5 DEF ChangeRead, Start, Changeable, Is, Posted
    <3> QED BY <1>7, <3>1, <3>2, <3>3, <3>4, <3>5
  <2>4. \A m \in Msgs : Is(m, "none")' <=> Is(m, "none")
    BY <2>1 DEF Is
  <2> QED BY <1>5, <2>1, <2>2, <2>3, <2>4
\* Who clears or hides has seen all that was posted.
<1>8. ASSUME NEW v \in Viewers, Clear(v) \/ Hide(v) PROVE Hiding'
  <2>1. /\ UNCHANGED <<msg, req>> /\ \A w \in Viewers : w # v => member'[w] = member[w]
        /\ member'[v].cleared = Cardinality(Posted)
    BY <1>0, <1>8 DEF Clear, Hide, Member
  <2>2. Posted' = Posted
    BY <2>1 DEF Posted
  <2>3. \A m \in Posted : m \in Int /\ m <= Cardinality(Posted)
    BY <1>0, PostedCount DEF Hiding, Msgs
  <2>4. Cardinality(Posted) \in Int
    BY Counting
  <2>5. NewMessageUnhides'
    <3>1. \A m \in Posted : ~(m > member'[v].cleared)
      BY <2>1, <2>3, <2>4
    <3> QED BY <2>1, <2>2, <3>1 DEF Hiding, NewMessageUnhides, At
  <2>6. PostedInOrder' /\ ChangesPosted'
    BY <2>1, <2>2 DEF Hiding, PostedInOrder, ChangesPosted
  <2> QED BY <2>5, <2>6 DEF Hiding
<1>9. ASSUME NEW v \in Viewers, View(v), ~Clear(v), ~Hide(v) PROVE Hiding'
  <2>1. UNCHANGED <<msg, member, req>>
    BY <1>9 DEF View, Subscribe, Break, Consume, talk
  <2> QED BY <1>1, <2>1 DEF Is
<1>10. ASSUME NEW g \in Purgers, Purge(g) PROVE Hiding'
  <2>1. UNCHANGED <<msg, member, req>>
    BY <1>10 DEF Purge, PurgeList, PurgeRemove, PurgeUnlocks, PurgeErase, PurgeEnd,
           PurgeLock, talk
  <2> QED BY <1>1, <2>1 DEF Is
<1>11. CASE UNCHANGED vars \/ Hold \/ Release
  <2>1. UNCHANGED <<msg, member, req>>
    BY <1>11 DEF vars, Hold, Release, talk
  <2> QED BY <1>1, <2>1 DEF Is
<1>12. CASE Redact \/ \E m \in Msgs : Expire(m)
  <2>1. UNCHANGED <<member, req>>
    BY <1>12 DEF Redact, Expire
  <2>2. \A m \in Msgs : Is(m, "none")' <=> Is(m, "none")
    <3>1. CASE Redact
      <4>1. \A m \in Msgs : msg'[m] = msg[m] \/ (msg'[m] = Deleted(m) /\ Is(m, "live"))
        BY <3>1 DEF Redact
      <4> QED BY <1>0, <4>1, DeletedType DEF Is
    <3>2. CASE \E m \in Msgs : Expire(m)
      BY <1>0, <3>2 DEF Expire, Is, Msg
    <3> QED BY <1>12, <3>1, <3>2
  <2> QED BY <1>1, <2>1, <2>2
<1>13. ASSUME NEW p \in Procs, Handle(p) PROVE Hiding'
  <2>1. CASE Touch(p) \/ Abandon(p)
    BY <1>4, <1>7, <2>1
  <2>2. CASE Edit(p) \/ Delete(p)
    BY <1>6, <2>2
  <2>3. CASE \E m \in Msgs : Insert(p, m)
    BY <1>2, <2>3
  <2> QED BY <1>7, <1>13, <2>1, <2>2, <2>3 DEF Handle
<1>14. ASSUME NEW v \in Viewers, View(v) PROVE Hiding'
  BY <1>8, <1>9, <1>14
<1> QED BY <1>10, <1>11, <1>12, <1>13, <1>14 DEF Next

-----------------------------------------------------------------------------
CInv == TypeOK /\ Targets /\ PurgesUnheld /\ Erased /\ Hiding

LEMMA InitCInv == Init => CInv
<1> SUFFICES ASSUME Init PROVE CInv
  OBVIOUS
<1>1. /\ \A m \in Msgs : /\ msg[m].state = "none" /\ ~msg[m].text
      /\ \A v \in Viewers : /\ member[v] = NoMember /\ stream[v] = NoStream
      /\ \A p \in Procs : req[p] = NoRequest
      /\ \A g \in Purgers : purger[g] = NoPass
      /\ held = FALSE /\ lock = Free
  BY DEF Init
<1>2. Stored
  <2>1. /\ [state |-> "none", text |-> FALSE, old |-> FALSE, muddled |-> FALSE] \in Msg
        /\ [row |-> FALSE, object |-> FALSE] \in File
    BY DEF Msg, File
  <2> QED BY <2>1, EmptyRecords DEF Init, Stored
<1>3. Shown /\ InFlight
  BY EmptyRecords DEF Init, Shown, InFlight
<1>4. Targets /\ PurgesUnheld
  BY <1>1, EmptyRecords DEF Targets, PurgesUnheld
<1>5. Erased
  BY <1>1, EmptyRecords DEF Erased, ErasedStaysErased, EditsMuddle, At, Is
<1>6. Hiding
  <2>1. Posted = {}
    BY <1>1 DEF Posted
  <2> QED BY <1>1, <2>1, EmptyRecords DEF Hiding, NewMessageUnhides, PostedInOrder, ChangesPosted
<1> QED BY <1>2, <1>3, <1>4, <1>5, <1>6, TypeParts DEF CInv

LEMMA TypeStep == CInv /\ [Next]_vars => TypeOK' /\ Targets' /\ PurgesUnheld'
<1> SUFFICES ASSUME CInv, [Next]_vars PROVE TypeOK' /\ Targets' /\ PurgesUnheld'
  OBVIOUS
<1>0. Stored /\ Shown /\ InFlight /\ Targets /\ PurgesUnheld
  BY TypeParts DEF CInv
<1>a. Stored' /\ Shown' /\ InFlight' => TypeOK'
  BY DEF TypeOK, Stored, Shown, InFlight
<1>1. CASE UNCHANGED vars
  BY <1>0, <1>1, <1>a DEF vars, Stored, Shown, InFlight, Targets, PurgesUnheld
<1>2. ASSUME NEW p \in Procs, Handle(p) PROVE TypeOK' /\ Targets' /\ PurgesUnheld'
  <2>1. Stored' /\ Shown' /\ InFlight' /\ Targets'
    BY <1>0, <1>2, RequestStep, RequestStores, RequestShows, TargetStep
  <2>2. PurgesUnheld'
    BY <1>0, <1>2, RequestStep DEF PurgesUnheld
  <2> QED BY <2>1, <2>2, <1>a
<1>3. ASSUME NEW v \in Viewers, View(v) PROVE TypeOK' /\ Targets' /\ PurgesUnheld'
  <2>1. Stored' /\ Shown' /\ UNCHANGED <<req, held, lock, purger>>
    BY <1>0, <1>3, ViewStep
  <2> QED BY <1>0, <2>1, <1>a DEF InFlight, Targets, PurgesUnheld
<1>4. ASSUME NEW g \in Purgers, Purge(g) PROVE TypeOK' /\ Targets' /\ PurgesUnheld'
  <2>1. Stored' /\ InFlight' /\ PurgesUnheld' /\ UNCHANGED <<stream, req>>
    BY <1>0, <1>4, PurgeStep
  <2> QED BY <1>0, <2>1, <1>a DEF Shown, Targets
<1>5. CASE (\E m \in Msgs : Expire(m)) \/ Redact \/ Hold \/ Release
  <2>1. Stored' /\ InFlight' /\ PurgesUnheld' /\ UNCHANGED <<stream, req>>
    BY <1>0, <1>5, OtherStep
  <2> QED BY <1>0, <2>1, <1>a DEF Shown, Targets
<1> QED BY <1>1, <1>2, <1>3, <1>4, <1>5 DEF Next

\* The inductive invariant of a conversation: a purge that has the lock finds no
\* hold, an edit under way on a deleted message has muddled it, and messages are posted in
\* their order (chat.go, governance.go).
THEOREM ChatInvariant == Spec => []CInv
<1>1. CInv /\ [Next]_vars => CInv'
  <2> SUFFICES ASSUME CInv, [Next]_vars PROVE CInv'
    OBVIOUS
  <2>1. TypeOK' /\ Targets' /\ PurgesUnheld'
    BY TypeStep
  <2>2. Erased' /\ Hiding'
    BY ErasedStep, HidingStep DEF CInv
  <2> QED BY <2>1, <2>2 DEF CInv
<1> QED BY <1>1, InitCInv, PTL DEF Spec

\* Every variable of Chat keeps its type, buffers stay bounded, and who has the advisory lock
\* is a purge.
THEOREM ChatTypeCorrect == Spec => []TypeOK
<1>1. CInv => TypeOK
  BY DEF CInv
<1> QED BY <1>1, ChatInvariant, PTL

\* For any requests, the text of an erased message comes back only from an edit that had found
\* it undeleted (chatMessages, PATCH).
THEOREM ErasedTextIsGone == Spec => []ErasedStaysErased
<1>1. CInv => ErasedStaysErased
  BY DEF CInv, Erased
<1> QED BY <1>1, ChatInvariant, PTL

\* For any members and messages, a hidden conversation shows again with the next message
\* (chatConversationDelete).
THEOREM HiddenUntilNextMessage == Spec => []NewMessageUnhides
<1>1. CInv => NewMessageUnhides
  BY DEF CInv, Hiding
<1> QED BY <1>1, ChatInvariant, PTL

\* For any passes and requests, a held conversation keeps its attachments, though a purge had
\* listed them before the hold, unless a purge goes on without the lock it has lost (purgeExpiredChatAttachments, legalHoldResource).
THEOREM HoldsKeepAttachments == Spec => HeldKeepsAttachments
<1> DEFINE Step == held => \A m \in Msgs : file[m].row /\ file[m].object =>
                      /\ file'[m].row
                      /\ \/ file'[m].object
                         \/ \E p \in Procs : At(p, "undo") /\ req[p].msg = m
                         \/ \E g \in Purgers : Stray(g, m)
<1>1. CInv /\ [Next]_vars => [Step]_vars
  <2> SUFFICES ASSUME CInv, Next, held, NEW m \in Msgs, file[m].row, file[m].object
               PROVE  /\ file'[m].row
                      /\ \/ file'[m].object
                         \/ \E p \in Procs : At(p, "undo") /\ req[p].msg = m
                         \/ \E g \in Purgers : Stray(g, m)
    OBVIOUS
  <2>0. Stored /\ Shown /\ InFlight /\ PurgesUnheld /\ Targets /\ file \in [Msgs -> File]
    BY TypeParts DEF CInv, Stored
  <2>1. ASSUME file' = file
        PROVE  file'[m].row /\ file'[m].object
    BY <2>1
  <2>2. ASSUME NEW p \in Procs, Handle(p)
        PROVE  /\ file'[m].row
               /\ file'[m].object \/ \E q \in Procs : At(q, "undo") /\ req[q].msg = m
    <3>1. CASE Put(p)
      BY <2>0, <3>1 DEF Put, File
    <3>2. CASE Save(p)
      BY <2>0, <3>2 DEF Save, File
    <3>3. CASE Undo(p)
      BY <2>0, <3>3 DEF Undo, File
    <3>4. CASE ~Put(p) /\ ~Save(p) /\ ~Undo(p)
      BY <2>1, <2>2, <3>4 DEF Handle, Touch, Edit, Delete, Chatter, Abandon, Publish, Insert, Upload,
                              ChangeRead, talk
    <3> QED BY <3>1, <3>2, <3>3, <3>4
  <2>3. ASSUME NEW v \in Viewers, View(v) PROVE file'[m].row /\ file'[m].object
    BY <2>0, <2>1, <2>3, ViewStep
  <2>4. ASSUME NEW g \in Purgers, Purge(g) PROVE file'[m].row /\ (file'[m].object \/ Stray(g, m))
    BY <2>0, <2>1, <2>4, PurgeStep
  <2>5. ASSUME (\E n \in Msgs : Expire(n)) \/ Redact \/ Hold \/ Release
        PROVE  file'[m].row /\ file'[m].object
    BY <2>0, <2>1, <2>5, OtherStep
  <2> QED BY <2>2, <2>3, <2>4, <2>5 DEF Next
<1> QED BY <1>1, ChatInvariant, PTL DEF HeldKeepsAttachments, Stray, Spec
===============================================================================
