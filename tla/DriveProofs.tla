------------------------------ MODULE DriveProofs ------------------------------
(* Theorems about Drive, for any requests, cleanups, limits and bounds. *)
EXTENDS Drive, FiniteSetTheorems, TLAPS

USE BoundsAssumption, ProcsAssumption DEF BoundsAssumption, ProcsAssumption

-----------------------------------------------------------------------------
(* The rows and the requests: what a request works on exists, and has room *)

Exists(f) == node[f].status \in {"LIVE", "TRASH"}

\* Only the trash is overdue, only what was there can be held, only what exists has a history.
Occupied ==
    \A f \in Files : /\ node[f].due => Is(f, "TRASH")
                     /\ node[f].held \/ f \in placing => ~Is(f, "NONE")
                     /\ ~Exists(f) => history[f] = NoHistory

\* The file of a request exists, and is not overdue while the request lasts.
Busy ==
    \A p \in Procs :
       /\ req[p].pc \in {"put", "insert", "commit", "drop"} => req[p].key # None
       /\ req[p].pc \in {"commit", "rename", "trash"} => req[p].file # None
       /\ req[p].pc \in {"idle", "insert"} => req[p].file = None
       /\ req[p].file # None => Exists(req[p].file) /\ ~node[req[p].file].due

\* The requests that may still add a version.
Pending(f) == {p \in Procs : req[p].file = f /\ req[p].pc # "drop"}

Room == \A f \in Files : node[f].version + Cardinality(Pending(f)) <= MaxVersion

LEMMA EmptyRecords ==
  /\ NoNode \in Node /\ NoHistory \in [Versions -> Keys \cup {None}] /\ NoRequest \in Request
  /\ Idle \in Cleaner
  /\ NoNode.key = None /\ NoNode.version = 1 /\ ~NoNode.due /\ ~NoNode.held /\ NoNode.status = "NONE"
  /\ NoRequest.pc = "idle" /\ NoRequest.file = None /\ Idle.pc = "idle" /\ Idle.todo = {}
<1>1. 1 \in Versions /\ 1 \in Files
  BY DEF Versions, Files
<1>2. NoNode \in Node /\ NoNode.key = None /\ NoNode.version = 1 /\ ~NoNode.due /\ ~NoNode.held
      /\ NoNode.status = "NONE"
  BY <1>1 DEF NoNode, Node
<1>3. NoHistory \in [Versions -> Keys \cup {None}]
  BY DEF NoHistory
<1>4. NoRequest \in Request /\ NoRequest.pc = "idle" /\ NoRequest.file = None
  BY <1>1 DEF NoRequest, Request
<1>5. Idle \in Cleaner /\ Idle.pc = "idle" /\ Idle.todo = {}
  BY <1>1 DEF Idle, Cleaner
<1> QED BY <1>2, <1>3, <1>4, <1>5

LEMMA NoRequestFields ==
  /\ NoRequest.pc = "idle" /\ NoRequest.file = None /\ NoRequest.key = None
  /\ NoRequest.old = None /\ ~NoRequest.restores
BY DEF NoRequest

LEMMA NodeTypes ==
  /\ \A k \in Keys : [NoNode EXCEPT !.status = "LIVE", !.key = k] \in Node
  /\ \A row \in Node, k \in Keys, v \in Versions : [row EXCEPT !.key = k, !.version = v] \in Node
  /\ \A row \in Node, v \in Versions : [row EXCEPT !.version = v] \in Node
  /\ \A row \in Node, s \in {"TRASH"}, b \in BOOLEAN : [row EXCEPT !.status = s, !.due = b] \in Node
  /\ \A row \in Node, b \in BOOLEAN : [row EXCEPT !.held = b] \in Node /\ [row EXCEPT !.due = b] \in Node
  /\ \A b \in BOOLEAN : [NoNode EXCEPT !.status = "GONE", !.held = b] \in Node
BY EmptyRecords DEF Node

LEMMA RequestTypes ==
  /\ \A r \in Request, pc \in {"insert", "commit", "drop"} : [r EXCEPT !.pc = pc] \in Request
  /\ \A k \in Keys, n \in Nat :
        [NoRequest EXCEPT !.pc = "put", !.key = k, !.seen = n] \in Request
  /\ \A k \in Keys, f \in Files, o \in Keys \cup {None}, v \in Versions :
        /\ [NoRequest EXCEPT !.pc = "put", !.file = f, !.key = k, !.old = o, !.version = v] \in Request
        /\ [NoRequest EXCEPT !.pc = "commit", !.file = f, !.key = k, !.restores = TRUE,
                             !.old = o, !.version = v] \in Request
  /\ \A f \in Files, pc \in {"rename", "trash"} : [NoRequest EXCEPT !.pc = pc, !.file = f] \in Request
<1>1. \A r \in Request, pc \in {"insert", "commit", "drop"} : [r EXCEPT !.pc = pc] \in Request
  BY DEF Request
<1>2. \A k \in Keys, n \in Nat : [NoRequest EXCEPT !.pc = "put", !.key = k, !.seen = n] \in Request
  BY EmptyRecords DEF Request
<1>3. \A k \in Keys, f \in Files, o \in Keys \cup {None}, v \in Versions :
        [NoRequest EXCEPT !.pc = "put", !.file = f, !.key = k, !.old = o, !.version = v] \in Request
  BY EmptyRecords DEF Request
<1>4. \A k \in Keys, f \in Files, o \in Keys \cup {None}, v \in Versions :
        [NoRequest EXCEPT !.pc = "commit", !.file = f, !.key = k, !.restores = TRUE,
                          !.old = o, !.version = v] \in Request
  BY EmptyRecords DEF Request
<1>5. \A f \in Files, pc \in {"rename", "trash"} :
        [NoRequest EXCEPT !.pc = pc, !.file = f] \in Request
  BY EmptyRecords DEF Request
<1> QED BY <1>1, <1>2, <1>3, <1>4, <1>5

\* What the live files take of the quota, block by block.
Stored == UNION {Bytes(f) : f \in {g \in Files : Is(g, "LIVE")}}

LEMMA UsageCounts ==
  ASSUME TypeOK PROVE IsFiniteSet(Stored) /\ Used = Cardinality(Stored) /\ Used \in Nat
<1> DEFINE Of == {Bytes(f) : f \in {g \in Files : Is(g, "LIVE")}}
<1>1. \A f \in Files : Is(f, "LIVE") => IsFiniteSet(Bytes(f))
  <2> SUFFICES ASSUME NEW f \in Files, Is(f, "LIVE") PROVE IsFiniteSet(Bytes(f))
    OBVIOUS
  <2>1. node[f].key \in Keys
    BY DEF TypeOK, Node, Is
  <2>2. PICK n \in Int : n = Size[node[f].key]
    BY <2>1, SizeAssumption DEF SizeAssumption, Keys
  <2>3. IsFiniteSet({f})
    BY FS_Singleton
  <2>4. IsFiniteSet(1..n)
    BY FS_Interval
  <2> QED BY <2>2, <2>3, <2>4, FS_Product DEF Bytes
<1>2. IsFiniteSet(Of)
  <2>1. IsFiniteSet(Files)
    BY FS_Interval DEF Files
  <2>2. {g \in Files : Is(g, "LIVE")} \in SUBSET Files
    OBVIOUS
  <2>3. IsFiniteSet({g \in Files : Is(g, "LIVE")})
    BY <2>1, <2>2, FS_Subset
  <2>4. [g \in {h \in Files : Is(h, "LIVE")} |-> Bytes(g)]
        \in Surjection({g \in Files : Is(g, "LIVE")}, Of)
    BY DEF Surjection
  <2> QED BY <2>3, <2>4, FS_Surjection
<1>3. \A T \in Of : IsFiniteSet(T)
  BY <1>1
<1>4. IsFiniteSet(Stored)
  BY <1>2, <1>3, FS_UNION DEF Stored
<1> QED BY <1>4, FS_CardinalityType DEF Used, Stored

\* A request changes no other request and no cleanup.
LEMMA RequestStep ==
  ASSUME TypeOK, NEW p \in Procs, Handle(p)
  PROVE  /\ cleaner' = cleaner /\ placing' = placing /\ Doomed' = Doomed
         /\ \A q \in Procs : q # p => req'[q] = req[q]
<1> SUFFICES /\ cleaner' = cleaner /\ placing' = placing
             /\ \A q \in Procs : q # p => req'[q] = req[q]
  BY DEF Doomed
<1>0. req \in [Procs -> Request]
  BY DEF TypeOK
<1>1. CASE UploadStart(p) \/ Abandon(p) \/ \E f \in Files : VersionRead(p, f) \/ (\E v \in Versions : RestoreRead(p, f, v))
  BY <1>0, <1>1 DEF UploadStart, Abandon, VersionRead, RestoreRead, Finish
<1>2. CASE Put(p) \/ UploadInsert(p) \/ Drop(p)
  BY <1>0, <1>2 DEF Put, UploadInsert, Drop, Finish, Goto
<1>3. CASE VersionCommit(p) \/ Rename(p) \/ Trash(p)
  BY <1>0, <1>3 DEF VersionCommit, Rename, Trash, Failed, Finish, Goto
<1>4. CASE \E f \in Files, what \in {"rename", "trash"} : UpdateCheck(p, f, what)
  BY <1>0, <1>4 DEF UpdateCheck
<1> QED BY <1>1, <1>2, <1>3, <1>4 DEF Handle

LEMMA PendingFinite ==
  \A f \in Files : IsFiniteSet(Pending(f)) /\ Cardinality(Pending(f)) \in Nat
<1> SUFFICES ASSUME NEW f \in Files PROVE IsFiniteSet(Pending(f)) /\ Cardinality(Pending(f)) \in Nat
  OBVIOUS
<1>1. Pending(f) \in SUBSET Procs
  BY DEF Pending
<1>2. IsFiniteSet(Pending(f))
  BY <1>1, FS_Subset
<1> QED BY <1>2, FS_CardinalityType

LEMMA PendingShrinks ==
  ASSUME NEW f \in Files, Pending(f)' \subseteq Pending(f)
  PROVE  Cardinality(Pending(f)') <= Cardinality(Pending(f)) /\ Cardinality(Pending(f)') \in Nat
<1>1. IsFiniteSet(Pending(f))
  BY PendingFinite
<1>2. Pending(f)' \in SUBSET Pending(f)
  OBVIOUS
<1>3. IsFiniteSet(Pending(f)') /\ Cardinality(Pending(f)') <= Cardinality(Pending(f))
  BY <1>1, <1>2, FS_Subset
<1> QED BY <1>3, FS_CardinalityType

LEMMA RoomKept ==
  ASSUME TypeOK, Room,
         \A f \in Files : Pending(f)' \subseteq Pending(f) /\ node'[f].version = node[f].version
  PROVE  Room'
<1> SUFFICES ASSUME NEW f \in Files
             PROVE  node'[f].version + Cardinality(Pending(f)') <= MaxVersion
  BY DEF Room
<1>1. node[f].version \in Nat
  BY DEF TypeOK, Node, Versions
<1>2. Cardinality(Pending(f)') <= Cardinality(Pending(f)) /\ Cardinality(Pending(f)') \in Nat
  BY PendingShrinks
<1>3. node[f].version + Cardinality(Pending(f)) <= MaxVersion /\ node'[f].version = node[f].version
  BY DEF Room
<1> QED BY <1>1, <1>2, <1>3, PendingFinite

\* A request that adds a version gives up its place.
LEMMA RoomUsed ==
  ASSUME TypeOK, Room, NEW g \in Files, NEW p \in Pending(g),
         Pending(g)' \subseteq Pending(g) \ {p}, node'[g].version = node[g].version + 1,
         \A f \in Files : f # g => Pending(f)' \subseteq Pending(f) /\ node'[f].version = node[f].version
  PROVE  Room'
<1> SUFFICES ASSUME NEW f \in Files
             PROVE  node'[f].version + Cardinality(Pending(f)') <= MaxVersion
  BY DEF Room
<1>1. node[f].version \in Nat /\ MaxVersion \in Nat
  BY DEF TypeOK, Node, Versions
<1>2. node[f].version + Cardinality(Pending(f)) <= MaxVersion /\ Cardinality(Pending(f)) \in Nat
  BY PendingFinite DEF Room
<1>3. CASE f = g
  <2>1. /\ IsFiniteSet(Pending(g) \ {p})
        /\ Cardinality(Pending(g) \ {p}) = Cardinality(Pending(g)) - 1
    BY PendingFinite, FS_RemoveElement
  <2>2. Pending(g)' \in SUBSET (Pending(g) \ {p})
    OBVIOUS
  <2>3. IsFiniteSet(Pending(g)') /\ Cardinality(Pending(g)') <= Cardinality(Pending(g)) - 1
    BY <2>1, <2>2, FS_Subset
  <2>4. Cardinality(Pending(g)') \in Nat
    BY <2>3, FS_CardinalityType
  <2> QED BY <1>1, <1>2, <1>3, <2>3, <2>4
<1>4. CASE f # g
  BY <1>1, <1>2, <1>4, PendingShrinks
<1> QED BY <1>3, <1>4

\* An element makes a set larger by one at most.
LEMMA OneMore ==
  ASSUME NEW S, NEW x, IsFiniteSet(S)
  PROVE  IsFiniteSet(S \cup {x}) /\ Cardinality(S \cup {x}) <= Cardinality(S) + 1
<1>1. Cardinality(S) \in Nat
  BY FS_CardinalityType
<1>2. /\ IsFiniteSet(S \cup {x})
      /\ Cardinality(S \cup {x}) = IF x \in S THEN Cardinality(S) ELSE Cardinality(S) + 1
  BY FS_AddElement
<1> QED BY <1>1, <1>2

\* A request begins only where there is room for one version more.
LEMMA RoomTaken ==
  ASSUME TypeOK, Room, NEW g \in Files, NEW p \in Procs, HasRoom(g), node' = node,
         Pending(g)' \subseteq Pending(g) \cup {p},
         \A f \in Files : f # g => Pending(f)' \subseteq Pending(f)
  PROVE  Room'
<1> SUFFICES ASSUME NEW f \in Files
             PROVE  node'[f].version + Cardinality(Pending(f)') <= MaxVersion
  BY DEF Room
<1>1. node[f].version \in Nat /\ MaxVersion \in Nat
  BY DEF TypeOK, Node, Versions
<1>2. node[f].version + Cardinality(Pending(f)) <= MaxVersion /\ Cardinality(Pending(f)) \in Nat
  BY PendingFinite DEF Room
<1>3. CASE f = g
  <2>1. /\ IsFiniteSet(Pending(g) \cup {p})
        /\ Cardinality(Pending(g) \cup {p}) <= Cardinality(Pending(g)) + 1
    <3>1. IsFiniteSet(Pending(g))
      BY PendingFinite
    <3> QED BY <3>1, OneMore
  <2>2. Pending(g)' \in SUBSET (Pending(g) \cup {p})
    OBVIOUS
  <2>3. IsFiniteSet(Pending(g)') /\ Cardinality(Pending(g)') <= Cardinality(Pending(g) \cup {p})
    BY <2>1, <2>2, FS_Subset
  <2>4. Cardinality(Pending(g)') \in Nat /\ Cardinality(Pending(g) \cup {p}) \in Nat
    BY <2>1, <2>3, FS_CardinalityType
  <2>5. /\ Touching(g) \in SUBSET Procs
        /\ Pending(g) \in SUBSET Touching(g)
    BY DEF Touching, Pending
  <2>6. Cardinality(Pending(g)) <= Cardinality(Touching(g)) /\ Cardinality(Touching(g)) \in Nat
    <3>1. IsFiniteSet(Touching(g))
      BY <2>5, FS_Subset
    <3> QED BY <2>5, <3>1, FS_Subset, FS_CardinalityType
  <2>7. node[g].version + Cardinality(Touching(g)) < MaxVersion
    BY DEF HasRoom
  <2> QED BY <1>1, <1>2, <1>3, <2>1, <2>3, <2>4, <2>6, <2>7
<1>4. CASE f # g
  BY <1>1, <1>2, <1>4, PendingShrinks
<1> QED BY <1>3, <1>4

Base == TypeOK /\ Occupied /\ Busy /\ Room

\* A step of a request that leaves the rows of the files alone and begins nothing.
LEMMA BaseKept ==
  ASSUME Base, NEW p \in Procs, UNCHANGED <<node, history, cleaner, placing>>,
         store' \in SUBSET Keys, made' \in 0..MaxKeys,
         \A q \in Procs : q # p => req'[q] = req[q],
         req' \in [Procs -> Request], req'[p].file \in {None, req[p].file},
         req[p].pc = "drop" => req'[p].file = None,
         req'[p].pc \in {"put", "insert", "commit", "drop"} => req'[p].key # None,
         req'[p].pc \in {"commit", "rename", "trash"} => req'[p].file # None,
         req'[p].pc \in {"idle", "insert"} => req'[p].file = None
  PROVE  Base'
<1>1. TypeOK'
  BY DEF Base, TypeOK
<1>2. Occupied'
  BY DEF Base, Occupied, Exists, Is
<1>3. Busy'
  BY DEF Base, Busy, Exists
<1>4. Room'
  <2>1. \A f \in Files : Pending(f)' \subseteq Pending(f)
    BY DEF Pending, Files, None
  <2> QED BY <2>1, RoomKept DEF Base
<1> QED BY <1>1, <1>2, <1>3, <1>4 DEF Base

LEMMA BaseUpload ==
  ASSUME Base, NEW p \in Procs, UploadStart(p) \/ Put(p) \/ Drop(p) \/ Abandon(p)
  PROVE  Base'
<1>0. /\ req \in [Procs -> Request] /\ store \in SUBSET Keys /\ made \in 0..MaxKeys
      /\ req[p].key \in Keys \cup {None} /\ req[p].file \in Files \cup {None}
  BY DEF Base, TypeOK, Request
<1>1. CASE UploadStart(p)
  <2>1. made + 1 \in Keys /\ made' = made + 1 /\ made' \in 0..MaxKeys
    BY <1>0, <1>1 DEF UploadStart, Keys
  <2>2. req' \in [Procs -> Request]
    <3>1. Used \in Nat
      BY UsageCounts DEF Base
    <3>2. [NoRequest EXCEPT !.pc = "put", !.key = made + 1, !.seen = Used] \in Request
      BY <2>1, <3>1, RequestTypes
    <3> QED BY <1>0, <1>1, <3>2 DEF UploadStart
  <2>3. /\ req'[p].pc = "put" /\ req'[p].file = None /\ req'[p].key # None
        /\ \A q \in Procs : q # p => req'[q] = req[q]
    BY <1>0, <1>1, <2>1, EmptyRecords DEF UploadStart, NoRequest, None, Keys
  <2> QED BY <1>0, <1>1, <2>1, <2>2, <2>3, BaseKept DEF UploadStart, At
<1>2. CASE Put(p)
  <2>1. At(p, "put") /\ req[p].key \in Keys /\ UNCHANGED <<node, history, made, cleaner, placing>>
    BY <1>0, <1>2 DEF Put, Base, Busy, At
  <2>2. store' \in SUBSET Keys
    BY <1>0, <1>2, <2>1 DEF Put
  <2>3. CASE Finish(p)
    BY <1>0, <2>1, <2>2, <2>3, EmptyRecords, BaseKept DEF Finish
  <2>4. CASE Goto(p, IF req[p].file = None THEN "insert" ELSE "commit")
    <3>1. req' \in [Procs -> Request]
      BY <1>0, <2>4, RequestTypes DEF Goto
    <3>2. /\ req'[p].key = req[p].key /\ req'[p].file = req[p].file
          /\ req'[p].pc = IF req[p].file = None THEN "insert" ELSE "commit"
          /\ \A q \in Procs : q # p => req'[q] = req[q]
      BY <1>0, <2>4 DEF Goto, Request
    <3> QED BY <1>0, <2>1, <2>2, <3>1, <3>2, BaseKept DEF Keys, None, At
  <2> QED BY <1>2, <2>3, <2>4 DEF Put
<1>3. CASE Drop(p) \/ Abandon(p)
  <2>1. /\ req' = [req EXCEPT ![p] = NoRequest] /\ UNCHANGED <<node, history, made, cleaner, placing>>
        /\ store' \in SUBSET Keys
    BY <1>0, <1>3 DEF Drop, Abandon, Finish
  <2> QED BY <1>0, <2>1, EmptyRecords, BaseKept
<1> QED BY <1>1, <1>2, <1>3

LEMMA BaseInsert == ASSUME Base, NEW p \in Procs, UploadInsert(p) PROVE Base'
<1>0. /\ req \in [Procs -> Request] /\ node \in [Files -> Node]
      /\ req[p].key \in Keys /\ req[p].file = None /\ req[p].pc = "insert"
      /\ UNCHANGED <<history, store, made, cleaner, placing>>
  BY DEF Base, TypeOK, Request, Busy, UploadInsert, At
<1>1. /\ req' \in [Procs -> Request] /\ req'[p].pc \in {"idle", "drop"} /\ req'[p].file = None
      /\ req'[p].pc = "drop" => req'[p].key # None
      /\ \A q \in Procs : q # p => req'[q] = req[q]
  <2>1. CASE Finish(p)
    BY <1>0, <2>1, EmptyRecords DEF Finish
  <2>2. CASE Goto(p, "drop")
    <3>1. req' \in [Procs -> Request]
      BY <1>0, <2>2, RequestTypes DEF Goto
    <3>2. /\ req'[p].pc = "drop" /\ req'[p].file = None /\ req'[p].key = req[p].key
          /\ \A q \in Procs : q # p => req'[q] = req[q]
      BY <1>0, <2>2 DEF Goto, Request
    <3> QED BY <1>0, <3>1, <3>2 DEF Keys, None
  <2> QED BY <2>1, <2>2 DEF UploadInsert
<1>2. CASE node' = node
  BY <1>0, <1>1, <1>2, BaseKept DEF Base, TypeOK
<1>3. ASSUME NEW f \in Files, Is(f, "NONE"),
             node' = [node EXCEPT ![f] = [NoNode EXCEPT !.status = "LIVE", !.key = req[p].key]]
      PROVE  Base'
  <2>1. /\ node'[f].status = "LIVE" /\ node'[f].key # None /\ ~node'[f].due /\ ~node'[f].held
        /\ node'[f].version = 1 /\ \A g \in Files : g # f => node'[g] = node[g]
        /\ node' \in [Files -> Node]
    <3> DEFINE row == [NoNode EXCEPT !.status = "LIVE", !.key = req[p].key]
    <3>1. row \in Node
      BY <1>0, NodeTypes
    <3>2. /\ row.status = "LIVE" /\ row.key = req[p].key /\ ~row.due /\ ~row.held
          /\ row.version = 1
      BY DEF NoNode
    <3>3. node' = [node EXCEPT ![f] = row]
      BY <1>3
    <3> HIDE DEF row
    <3> QED BY <1>0, <3>1, <3>2, <3>3 DEF Keys, None
  <2>2. \A q \in Procs : req[q].file # f /\ req'[q].file # f
    BY <1>0, <1>1, <1>3 DEF Base, Busy, Exists, Is, Files, None
  <2>3. TypeOK'
    BY <1>0, <1>1, <2>1 DEF Base, TypeOK, Is
  <2>4. Occupied'
    BY <1>0, <2>1 DEF Base, Occupied, Exists, Is
  <2>5. Busy'
    <3>1. \A q \in Procs : req[q].file # None => req[q].file \in Files
      BY <1>0 DEF Request
    <3> QED BY <1>0, <1>1, <2>1, <2>2, <3>1 DEF Base, Busy, Exists
  <2>6. Room'
    <3> SUFFICES ASSUME NEW g \in Files PROVE node'[g].version + Cardinality(Pending(g)') <= MaxVersion
      BY DEF Room
    <3>1. Pending(g)' \subseteq Pending(g) /\ (g = f => Pending(g)' = {})
      BY <1>0, <1>1, <2>2 DEF Pending, Files, None
    <3>2. CASE g = f
      <4>1. Cardinality(Pending(g)') = 0
        BY <3>1, <3>2, FS_EmptySet
      <4> QED BY <2>1, <3>2, <4>1
    <3>3. CASE g # f
      <4>1. node'[g].version = node[g].version /\ node[g].version \in Nat
        BY <1>0, <2>1, <3>3 DEF Node, Versions
      <4>2. node[g].version + Cardinality(Pending(g)) <= MaxVersion /\ Cardinality(Pending(g)) \in Nat
        BY PendingFinite DEF Base, Room
      <4> QED BY <3>1, <4>1, <4>2, PendingShrinks
    <3> QED BY <3>2, <3>3
  <2> QED BY <2>3, <2>4, <2>5, <2>6 DEF Base
<1> QED BY <1>2, <1>3 DEF UploadInsert

\* The beginning of a request that works on a file that exists.
LEMMA BaseBegin ==
  ASSUME Base, NEW p \in Procs, NEW f \in Files, HasRoom(f), Is(f, "LIVE"),
         UNCHANGED <<node, history, store, cleaner, placing>>, made' \in 0..MaxKeys,
         NEW r \in Request, req' = [req EXCEPT ![p] = r], r.file = f,
         r.pc \in {"put", "commit", "rename", "trash"}, r.pc \in {"put", "commit"} => r.key # None
  PROVE  Base'
<1>0. req \in [Procs -> Request] /\ f # None
  BY DEF Base, TypeOK, Files, None
<1>1. req' \in [Procs -> Request] /\ req'[p] = r /\ \A q \in Procs : q # p => req'[q] = req[q]
  BY <1>0
<1>2. TypeOK'
  BY <1>1 DEF Base, TypeOK
<1>3. Occupied'
  BY DEF Base, Occupied, Exists, Is
<1>4. Busy'
  BY <1>0, <1>1 DEF Base, Busy, Occupied, Exists, Is
<1>5. Room'
  <2>1. Pending(f)' \subseteq Pending(f) \cup {p}
    BY <1>1 DEF Pending
  <2>2. \A g \in Files : g # f => Pending(g)' \subseteq Pending(g)
    BY <1>1 DEF Pending
  <2> QED BY <2>1, <2>2, RoomTaken DEF Base
<1> QED BY <1>2, <1>3, <1>4, <1>5 DEF Base

LEMMA BaseReads ==
  ASSUME Base, NEW p \in Procs, NEW f \in Files,
         \/ VersionRead(p, f) \/ \E v \in Versions : RestoreRead(p, f, v)
         \/ \E what \in {"rename", "trash"} : UpdateCheck(p, f, what)
  PROVE  Base'
<1>0. /\ node[f] \in Node /\ history[f] \in [Versions -> Keys \cup {None}] /\ made \in 0..MaxKeys
      /\ node[f].key \in Keys \cup {None} /\ node[f].version \in Versions
  BY DEF Base, TypeOK, Node
<1>1. CASE VersionRead(p, f)
  <2> DEFINE r == [NoRequest EXCEPT !.pc = "put", !.file = f, !.key = made + 1,
                                    !.old = node[f].key, !.version = node[f].version]
  <2>1. made + 1 \in Keys /\ made' \in 0..MaxKeys /\ made + 1 # None
    BY <1>0, <1>1 DEF VersionRead, Keys, None
  <2>2. r \in Request
    BY <1>0, <2>1, RequestTypes
  <2>3. r.file = f /\ r.pc = "put" /\ r.key # None
    BY <2>1 DEF NoRequest
  <2>4. /\ HasRoom(f) /\ Is(f, "LIVE") /\ UNCHANGED <<node, history, store, cleaner, placing>>
        /\ req' = [req EXCEPT ![p] = r]
    BY <1>1 DEF VersionRead
  <2> HIDE DEF r
  <2> QED BY <2>1, <2>2, <2>3, <2>4, BaseBegin
<1>2. ASSUME NEW v \in Versions, RestoreRead(p, f, v) PROVE Base'
  <2> DEFINE r == [NoRequest EXCEPT !.pc = "commit", !.file = f, !.key = history[f][v],
                                    !.restores = TRUE, !.old = node[f].key,
                                    !.version = node[f].version]
  <2>1. history[f][v] \in Keys /\ history[f][v] # None /\ made' \in 0..MaxKeys
    BY <1>0, <1>2 DEF RestoreRead, HasVersion
  <2>2. r \in Request
    BY <1>0, <2>1, RequestTypes
  <2>3. r.file = f /\ r.pc = "commit" /\ r.key # None
    BY <2>1 DEF NoRequest
  <2>4. /\ HasRoom(f) /\ Is(f, "LIVE") /\ UNCHANGED <<node, history, store, cleaner, placing>>
        /\ req' = [req EXCEPT ![p] = r]
    BY <1>2 DEF RestoreRead
  <2> HIDE DEF r
  <2> QED BY <2>1, <2>2, <2>3, <2>4, BaseBegin
<1>3. ASSUME NEW what \in {"rename", "trash"}, UpdateCheck(p, f, what) PROVE Base'
  <2> DEFINE r == [NoRequest EXCEPT !.pc = what, !.file = f]
  <2>1. r \in Request
    BY RequestTypes
  <2>2. r.file = f /\ r.pc = what
    BY DEF NoRequest
  <2>3. /\ HasRoom(f) /\ Is(f, "LIVE") /\ UNCHANGED <<node, history, store, cleaner, placing>>
        /\ made' \in 0..MaxKeys /\ req' = [req EXCEPT ![p] = r]
    BY <1>0, <1>3 DEF UpdateCheck
  <2> HIDE DEF r
  <2> QED BY <2>1, <2>2, <2>3, BaseBegin
<1> QED BY <1>1, <1>2, <1>3

LEMMA RoomForOne ==
  ASSUME TypeOK, Room, NEW f \in Files, NEW p \in Pending(f)
  PROVE  node[f].version + 1 \in Versions
<1>1. IsFiniteSet(Pending(f)) /\ Cardinality(Pending(f)) \in Nat
  BY PendingFinite
<1>2. Cardinality(Pending(f)) # 0
  BY <1>1, FS_EmptySet
<1>3. node[f].version \in Versions
  BY DEF TypeOK, Node
<1> QED BY <1>1, <1>2, <1>3 DEF Room, Versions

\* The write of a request to its file, which still exists.
LEMMA BaseWrite ==
  ASSUME Base, NEW p \in Procs, NEW f \in Files, req[p].file = f, req[p].pc # "drop",
         NEW row \in Node, node' = [node EXCEPT ![f] = row],
         row.status \in {"LIVE", "TRASH"}, row.key # None, ~row.due,
         row.version \in {node[f].version, node[f].version + 1},
         history' \in [Files -> [Versions -> Keys \cup {None}]],
         \A g \in Files : g # f => history'[g] = history[g],
         UNCHANGED <<store, made, cleaner, placing>>, req' \in [Procs -> Request],
         \A q \in Procs : q # p => req'[q] = req[q],
         \/ req'[p].pc = "idle" /\ req'[p].file = None
         \/ req'[p].pc = "drop" /\ req'[p].key # None /\ req'[p].file = f
  PROVE  Base'
<1>0. /\ node'[f] = row /\ node' \in [Files -> Node] /\ \A g \in Files : g # f => node'[g] = node[g]
      /\ req \in [Procs -> Request]
  BY DEF Base, TypeOK
<1>1. TypeOK'
  BY <1>0 DEF Base, TypeOK, Is
<1>2. Occupied'
  BY <1>0 DEF Base, Occupied, Exists, Is
<1>3. Busy'
  <2>1. \A q \in Procs : req[q].file # None => req[q].file \in Files
    BY <1>0 DEF Request
  <2>2. \A q \in Procs : req'[q].file # None => node'[req'[q].file].status \in {"LIVE", "TRASH"}
                                              /\ ~node'[req'[q].file].due
    BY <1>0, <2>1 DEF Base, Busy, Exists
  <2> QED BY <2>2 DEF Base, Busy, Exists
<1>4. Room'
  <2>1. p \in Pending(f) /\ Pending(f)' \subseteq Pending(f) \ {p}
    BY DEF Pending, Files, None
  <2>2. \A g \in Files : g # f => Pending(g)' \subseteq Pending(g) /\ node'[g].version = node[g].version
    BY <1>0 DEF Pending, Files, None
  <2>3. CASE row.version = node[f].version
    BY <1>0, <2>1, <2>2, <2>3, RoomKept DEF Base
  <2>4. CASE row.version = node[f].version + 1
    BY <1>0, <2>1, <2>2, <2>4, RoomUsed DEF Base
  <2> QED BY <2>3, <2>4
<1> QED BY <1>1, <1>2, <1>3, <1>4 DEF Base

LEMMA BaseUpdates ==
  ASSUME Base, NEW p \in Procs, VersionCommit(p) \/ Rename(p) \/ Trash(p)
  PROVE  Base'
<1> DEFINE f == req[p].file
<1>0. /\ f \in Files /\ req \in [Procs -> Request] /\ req[p].pc \in {"commit", "rename", "trash"}
      /\ node \in [Files -> Node] /\ history \in [Files -> [Versions -> Keys \cup {None}]]
  BY DEF Base, TypeOK, Request, Busy, VersionCommit, Rename, Trash, At
<1>1. /\ node[f] \in Node /\ node[f].status \in {"LIVE", "TRASH"} /\ node[f].key # None /\ ~node[f].due
      /\ node[f].version + 1 \in Versions /\ node[f].key \in Keys
  <2>1. p \in Pending(f)
    BY <1>0 DEF Pending
  <2>2. node[f].version + 1 \in Versions
    BY <1>0, <2>1, RoomForOne DEF Base
  <2>3. node[f].status \in {"LIVE", "TRASH"} /\ node[f].key # None /\ ~node[f].due
    BY <1>0 DEF Base, TypeOK, Busy, Exists, Files, None
  <2> QED BY <1>0, <2>2, <2>3 DEF Node
<1>2. CASE VersionCommit(p)
  <2>0. req[p].key \in Keys /\ req[p].key # None /\ req[p].version \in Versions
        /\ req[p].old \in Keys \cup {None} /\ UNCHANGED <<store, made, cleaner, placing>>
    BY <1>0, <1>2 DEF VersionCommit, At, Base, Busy, Request, Keys, None
  <2>1. /\ req' \in [Procs -> Request] /\ \A q \in Procs : q # p => req'[q] = req[q]
        /\ \/ req'[p].pc = "idle" /\ req'[p].file = None
           \/ req'[p].pc = "drop" /\ req'[p].key # None /\ req'[p].file = f
    <3>1. CASE Finish(p)
      BY <1>0, <3>1, EmptyRecords DEF Finish
    <3>2. CASE Goto(p, "drop")
      <4>1. req' \in [Procs -> Request]
        BY <1>0, <3>2, RequestTypes DEF Goto
      <4>2. /\ req'[p].pc = "drop" /\ req'[p].key = req[p].key /\ req'[p].file = f
            /\ \A q \in Procs : q # p => req'[q] = req[q]
        BY <1>0, <3>2 DEF Goto, Request
      <4> QED BY <2>0, <4>1, <4>2
    <3> QED BY <1>2, <3>1, <3>2 DEF VersionCommit, Failed
  <2>2. CASE node' = node /\ history' = history
    <3>1. node' = [node EXCEPT ![f] = node[f]]
      BY <1>0, <2>2
    <3> QED BY <1>0, <1>1, <2>0, <2>1, <2>2, <3>1, BaseWrite
  <2>3. CASE /\ history' = Archive(p)
             /\ node' = [node EXCEPT ![f].key = req[p].key, ![f].version = @ + 1]
    <3> DEFINE row == [node[f] EXCEPT !.key = req[p].key, !.version = node[f].version + 1]
    <3>1. row \in Node
      BY <1>1, <2>0, NodeTypes
    <3>2. /\ row.status = node[f].status /\ row.key = req[p].key /\ row.due = node[f].due
          /\ row.version = node[f].version + 1
      BY <1>1 DEF Node
    <3>3. node' = [node EXCEPT ![f] = row]
      BY <1>0, <2>3
    <3>4. /\ history' \in [Files -> [Versions -> Keys \cup {None}]]
          /\ \A g \in Files : g # f => history'[g] = history[g]
      BY <1>0, <2>0, <2>3 DEF Archive
    <3> HIDE DEF row
    <3> QED BY <1>0, <1>1, <2>0, <2>1, <3>1, <3>2, <3>3, <3>4, BaseWrite
  <2> QED BY <1>2, <2>2, <2>3 DEF VersionCommit
<1>3. ASSUME Rename(p) \/ Trash(p), NEW row \in Node, node' = [node EXCEPT ![f] = row],
             row.status \in {"LIVE", "TRASH"}, row.key = node[f].key, ~row.due,
             row.version \in {node[f].version, node[f].version + 1}
      PROVE  Base'
  <2>1. req' = [req EXCEPT ![p] = NoRequest] /\ UNCHANGED <<history, store, made, cleaner, placing>>
    BY <1>3 DEF Rename, Trash, Finish
  <2>2. /\ req' \in [Procs -> Request] /\ \A q \in Procs : q # p => req'[q] = req[q]
        /\ req'[p].pc = "idle" /\ req'[p].file = None
    BY <1>0, <2>1, EmptyRecords
  <2> QED BY <1>0, <1>1, <1>3, <2>1, <2>2, BaseWrite
<1>4. CASE Rename(p)
  <2> DEFINE row == [node[f] EXCEPT !.version = node[f].version + 1]
  <2>1. row \in Node
    BY <1>1, NodeTypes
  <2>2. /\ row.status = node[f].status /\ row.key = node[f].key /\ row.due = node[f].due
        /\ row.version = node[f].version + 1
    BY <1>1 DEF Node
  <2>3. node' = [node EXCEPT ![f] = row]
    BY <1>0, <1>4 DEF Rename
  <2> HIDE DEF row
  <2> QED BY <1>1, <1>3, <1>4, <2>1, <2>2, <2>3
<1>5. CASE Trash(p)
  <2> DEFINE row == [node[f] EXCEPT !.status = "TRASH", !.due = FALSE]
  <2>1. row \in Node
    BY <1>1, NodeTypes
  <2>2. /\ row.status = "TRASH" /\ row.key = node[f].key /\ ~row.due /\ row.version = node[f].version
    BY <1>1 DEF Node
  <2>3. node' = [node EXCEPT ![f] = row]
    BY <1>0, <1>5 DEF Trash
  <2> HIDE DEF row
  <2> QED BY <1>3, <1>5, <2>1, <2>2, <2>3
<1> QED BY <1>2, <1>4, <1>5

\* A row written while no request works on it.
LEMMA BaseRow ==
  ASSUME Base, NEW f \in Files, NEW row \in Node, node' = [node EXCEPT ![f] = row],
         row.status \in {"LIVE", "TRASH"} <=> row.key # None,
         row.due => row.status = "TRASH", row.held \/ f \in placing => row.status # "NONE",
         placing' \subseteq placing,
         row.version <= node[f].version,
         \A p \in Procs : req[p].file = f => row.status \in {"LIVE", "TRASH"} /\ ~row.due,
         NEW past \in [Versions -> Keys \cup {None}], history' = [history EXCEPT ![f] = past],
         row.status \notin {"LIVE", "TRASH"} => past = NoHistory,
         UNCHANGED <<store, made, req>>, cleaner' \in [Cleaners -> Cleaner]
  PROVE  Base'
<1>0. /\ node'[f] = row /\ node' \in [Files -> Node] /\ \A g \in Files : g # f => node'[g] = node[g]
      /\ history'[f] = past /\ \A g \in Files : g # f => history'[g] = history[g]
      /\ req \in [Procs -> Request] /\ history' \in [Files -> [Versions -> Keys \cup {None}]]
  BY DEF Base, TypeOK
<1>1. TypeOK'
  BY <1>0 DEF Base, TypeOK
<1>2. Occupied'
  BY <1>0 DEF Base, Occupied, Exists, Is
<1>3. Busy'
  <2>1. \A q \in Procs : req[q].file # None => req[q].file \in Files
    BY <1>0 DEF Request
  <2>2. \A q \in Procs : req'[q].file # None => node'[req'[q].file].status \in {"LIVE", "TRASH"}
                                              /\ ~node'[req'[q].file].due
    BY <1>0, <2>1 DEF Base, Busy, Exists
  <2> QED BY <2>2 DEF Base, Busy, Exists
<1>4. Room'
  <2> SUFFICES ASSUME NEW g \in Files PROVE node'[g].version + Cardinality(Pending(g)') <= MaxVersion
    BY DEF Room
  <2>1. Pending(g)' = Pending(g)
    BY DEF Pending
  <2>2. node'[g].version <= node[g].version /\ node'[g].version \in Nat /\ node[g].version \in Nat
    <3>1. node[g].version \in Nat /\ node'[g].version \in Nat
      BY <1>0 DEF Base, TypeOK, Node, Versions
    <3> QED BY <1>0, <3>1
  <2>3. node[g].version + Cardinality(Pending(g)) <= MaxVersion /\ Cardinality(Pending(g)) \in Nat
    BY PendingFinite DEF Base, Room
  <2> QED BY <2>1, <2>2, <2>3
<1> QED BY <1>1, <1>2, <1>3, <1>4 DEF Base

LEMMA CleanerTypes ==
  \A row \in Cleaner, todo \in SUBSET (Files \X Keys), f \in Files :
     /\ [row EXCEPT !.pc = "erase", !.file = f, !.todo = todo] \in Cleaner
     /\ [row EXCEPT !.todo = todo] \in Cleaner
     /\ \A pc \in {"remove", "delete"} : [row EXCEPT !.pc = pc] \in Cleaner
BY DEF Cleaner

LEMMA BaseCleans == ASSUME Base, NEW c \in Cleaners, Clean(c) PROVE Base'
<1>0. /\ node \in [Files -> Node] /\ history \in [Files -> [Versions -> Keys \cup {None}]]
      /\ cleaner \in [Cleaners -> Cleaner] /\ cleaner[c] \in Cleaner
      /\ store \in SUBSET Keys
  BY DEF Base, TypeOK
<1>1. ASSUME UNCHANGED <<node, history, made, req, placing>>, store' \in SUBSET Keys,
             cleaner' \in [Cleaners -> Cleaner]
      PROVE  Base'
  <2>1. TypeOK'
    BY <1>1 DEF Base, TypeOK
  <2>2. Occupied' /\ Busy'
    BY <1>1 DEF Base, Occupied, Busy, Exists, Is
  <2>3. Room'
    BY <1>1, RoomKept DEF Base, Pending
  <2> QED BY <2>1, <2>2, <2>3 DEF Base
<1>2. CASE CleanList(c)
  <2>1. Listed \in SUBSET (Files \X Keys)
    BY <1>0 DEF Listed, Removable, Is, Base, TypeOK, Node, None
  <2>2. cleaner' \in [Cleaners -> Cleaner]
    BY <1>0, <1>2, <2>1 DEF CleanList, Cleaner
  <2> QED BY <1>0, <1>1, <1>2, <2>2 DEF CleanList
<1>3. CASE CleanRemove(c)
  <2>1. PICK item \in cleaner[c].todo :
          \/ /\ store' = store \ {item[2]}
             /\ cleaner' = [cleaner EXCEPT ![c].pc = "erase", ![c].file = item[1],
                                           ![c].todo = @ \ {item}]
          \/ /\ store' \in {store, store \ {item[2]}}
             /\ cleaner' = [cleaner EXCEPT ![c].todo = @ \ {item}]
    BY <1>3 DEF CleanRemove
  <2>2. item \in Files \X Keys
    BY <1>0, <2>1 DEF Cleaner
  <2>3. cleaner' \in [Cleaners -> Cleaner]
    <3>1. /\ [cleaner[c] EXCEPT !.pc = "erase", !.file = item[1], !.todo = cleaner[c].todo \ {item}]
                \in Cleaner
          /\ [cleaner[c] EXCEPT !.todo = cleaner[c].todo \ {item}] \in Cleaner
      <4>1. cleaner[c].todo \ {item} \in SUBSET (Files \X Keys) /\ item[1] \in Files
        BY <1>0, <2>2 DEF Cleaner
      <4> QED BY <1>0, <4>1, CleanerTypes
    <3> QED BY <1>0, <2>1, <3>1
  <2>4. store' \in SUBSET Keys
    BY <1>0, <2>1
  <2> QED BY <1>1, <1>3, <2>3, <2>4 DEF CleanRemove
<1>4. CASE CleanErase(c)
  <2> DEFINE f == cleaner[c].file
  <2>1. f \in Files /\ cleaner' \in [Cleaners -> Cleaner]
    <3>1. cleaner' = [cleaner EXCEPT ![c] = [cleaner[c] EXCEPT !.pc = "remove"]]
      BY <1>0, <1>4 DEF CleanErase
    <3>2. [cleaner[c] EXCEPT !.pc = "remove"] \in Cleaner
      BY <1>0, CleanerTypes DEF Cleaner
    <3> QED BY <1>0, <3>1, <3>2 DEF Cleaner
  <2>2. CASE UNCHANGED <<node, history>>
    BY <1>0, <1>1, <1>4, <2>1, <2>2 DEF CleanErase
  <2>3. CASE /\ Is(f, "TRASH") /\ node[f].due
             /\ node' = [node EXCEPT ![f] = [NoNode EXCEPT !.status = "GONE",
                                                           !.held = node[f].held]]
             /\ history' = [history EXCEPT ![f] = NoHistory]
    <3> DEFINE row == [NoNode EXCEPT !.status = "GONE", !.held = node[f].held]
    <3>1. row \in Node
      <4>1. node[f].held \in BOOLEAN
        BY <1>0, <2>1 DEF Node
      <4> QED BY <4>1, NodeTypes
    <3>2. row.status = "GONE" /\ row.key = None /\ ~row.due /\ row.version = 1
      BY DEF NoNode
    <3>3. 1 <= node[f].version
      BY <1>0, <2>1 DEF Node, Versions
    <3>4. \A p \in Procs : req[p].file # f
      BY <2>1, <2>3 DEF Base, Busy, Files, None
    <3>5. /\ node' = [node EXCEPT ![f] = row] /\ UNCHANGED <<store, made, req, placing>>
          /\ row.version <= node[f].version
      BY <1>4, <2>3, <3>2, <3>3 DEF CleanErase
    <3>6. row.status \in {"LIVE", "TRASH"} <=> row.key # None
      BY <3>2
    <3> HIDE DEF row, f
    <3> QED BY <2>1, <2>3, <3>1, <3>2, <3>4, <3>5, <3>6, EmptyRecords, BaseRow
  <2> QED BY <1>4, <2>2, <2>3 DEF CleanErase
<1>5. CASE CleanEnd(c)
  <2>1. cleaner' \in [Cleaners -> Cleaner]
    BY <1>0, <1>5, EmptyRecords DEF CleanEnd
  <2> QED BY <1>0, <1>1, <1>5, <2>1 DEF CleanEnd
<1>6. CASE CleanCheck(c)
  <2>1. PICK pc \in {"remove", "delete"} : cleaner' = [cleaner EXCEPT ![c].pc = pc]
    BY <1>6 DEF CleanCheck
  <2>2. [cleaner[c] EXCEPT !.pc = pc] \in Cleaner
    BY <1>0, CleanerTypes DEF Cleaner
  <2>3. cleaner' \in [Cleaners -> Cleaner]
    BY <1>0, <2>1, <2>2
  <2> QED BY <1>0, <1>1, <1>6, <2>3 DEF CleanCheck
<1> QED BY <1>2, <1>3, <1>4, <1>5, <1>6 DEF Clean

LEMMA BaseHolds ==
  ASSUME Base, NEW f \in Files,
         HoldCheck(f) \/ HoldInsert(f) \/ Release(f) \/ RetentionPasses(f)
  PROVE  Base'
<1>0. /\ node \in [Files -> Node] /\ history \in [Files -> [Versions -> Keys \cup {None}]]
      /\ node[f] \in Node /\ node[f].status \in {"LIVE", "TRASH"} <=> node[f].key # None
      /\ cleaner \in [Cleaners -> Cleaner] /\ node[f].version <= node[f].version
  BY DEF Base, TypeOK, Node, Versions
<1>1. /\ node[f].due => node[f].status = "TRASH"
      /\ node[f].held \/ f \in placing => node[f].status # "NONE"
      /\ node[f].status \notin {"LIVE", "TRASH"} => history[f] = NoHistory
      /\ \A p \in Procs : req[p].file = f => node[f].status \in {"LIVE", "TRASH"} /\ ~node[f].due
  BY DEF Base, Occupied, Busy, Exists, Is, Files, None
<1>2. /\ history' = [history EXCEPT ![f] = history[f]] /\ history[f] \in [Versions -> Keys \cup {None}]
      /\ UNCHANGED <<store, made, req>> /\ cleaner' \in [Cleaners -> Cleaner]
  BY <1>0 DEF HoldCheck, HoldInsert, Release, RetentionPasses
<1>3. ASSUME NEW held \in BOOLEAN, node' = [node EXCEPT ![f].held = held],
             held => node[f].status # "NONE", placing' \subseteq placing
      PROVE  Base'
  <2> DEFINE row == [node[f] EXCEPT !.held = held]
  <2>1. row \in Node
    BY <1>0, NodeTypes
  <2>2. /\ row.status = node[f].status /\ row.key = node[f].key /\ row.due = node[f].due
        /\ row.version = node[f].version /\ row.held = held
    BY <1>0 DEF Node
  <2>3. node' = [node EXCEPT ![f] = row]
    BY <1>3
  <2> HIDE DEF row
  <2> QED BY <1>0, <1>1, <1>2, <1>3, <2>1, <2>2, <2>3, BaseRow
<1>4. CASE HoldInsert(f) \/ Release(f)
  <2>1. placing' \subseteq placing /\ node[f].status # "NONE"
    BY <1>1, <1>4 DEF HoldInsert, Release
  <2>2. CASE node' = node
    <3>1. node' = [node EXCEPT ![f] = node[f]]
      BY <1>0, <2>2
    <3> QED BY <1>0, <1>1, <1>2, <2>1, <3>1, BaseRow
  <2>3. CASE \E held \in BOOLEAN : node' = [node EXCEPT ![f].held = held]
    BY <1>3, <2>1, <2>3
  <2> QED BY <1>4, <2>2, <2>3 DEF HoldInsert, Release
<1>5. CASE RetentionPasses(f)
  <2> DEFINE row == [node[f] EXCEPT !.due = TRUE]
  <2>1. row \in Node
    BY <1>0, NodeTypes
  <2>2. /\ row.status = node[f].status /\ row.key = node[f].key /\ row.due
        /\ row.version = node[f].version /\ row.held = node[f].held
    BY <1>0 DEF Node
  <2>3. node' = [node EXCEPT ![f] = row] /\ placing' = placing
    BY <1>5 DEF RetentionPasses
  <2>4. node[f].status = "TRASH" /\ \A p \in Procs : req[p].file # f
    BY <1>5 DEF RetentionPasses, Touching, Is
  <2> HIDE DEF row
  <2> QED BY <1>0, <1>1, <1>2, <2>1, <2>2, <2>3, <2>4, BaseRow
<1>6. CASE HoldCheck(f)
  <2>1. /\ UNCHANGED <<node, history, store, made, req, cleaner>>
        /\ placing' = placing \cup {f} /\ Exists(f)
    BY <1>6 DEF HoldCheck, Exists
  <2>2. TypeOK'
    BY <2>1 DEF Base, TypeOK
  <2>3. Occupied' /\ Busy'
    BY <2>1 DEF Base, Occupied, Busy, Exists, Is
  <2>4. Room'
    BY <2>1, RoomKept DEF Base, Pending
  <2> QED BY <2>2, <2>3, <2>4 DEF Base
<1> QED BY <1>4, <1>5, <1>6

LEMMA BaseStep == Base /\ [Next]_vars => Base'
<1> SUFFICES ASSUME Base, [Next]_vars PROVE Base'
  OBVIOUS
<1>1. CASE UNCHANGED vars
  <2>1. TypeOK' /\ Occupied' /\ Busy'
    BY <1>1 DEF vars, Base, TypeOK, Occupied, Busy, Exists, Is
  <2>2. Room'
    BY <1>1 DEF vars, Base, Room, Pending
  <2> QED BY <2>1, <2>2 DEF Base
<1>2. ASSUME NEW p \in Procs, Handle(p) PROVE Base'
  BY <1>2, BaseUpload, BaseInsert, BaseReads, BaseUpdates DEF Handle
<1> QED BY <1>1, <1>2, BaseCleans, BaseHolds DEF Next

LEMMA InitBase == Init => Base
<1> SUFFICES ASSUME Init PROVE Base
  OBVIOUS
<1>1. TypeOK
  BY EmptyRecords DEF Init, TypeOK
<1>2. Occupied /\ Busy
  BY EmptyRecords DEF Init, Occupied, Busy, Exists, Is
<1>3. Room
  <2> SUFFICES ASSUME NEW f \in Files PROVE node[f].version + Cardinality(Pending(f)) <= MaxVersion
    BY DEF Room
  <2>1. Pending(f) = {}
    BY EmptyRecords DEF Init, Pending, Files, None
  <2>2. Cardinality(Pending(f)) = 0 /\ node[f].version = 1
    BY <2>1, FS_EmptySet, EmptyRecords DEF Init
  <2> QED BY <2>2
<1> QED BY <1>1, <1>2, <1>3 DEF Base

-----------------------------------------------------------------------------
(* Legal holds *)

\* A row that is held and that no DELETE looks at stays: a DELETE that begins passes it over.
LEMMA HoldStep == Base /\ [Next]_vars =>
  \A f \in Files :
     /\ Safe(f) => ~node'[f].held \/ Safe(f)'
     /\ node[f].held =>
           \A c \in Cleaners, k \in Keys : <<f, k>> \in cleaner'[c].todo => <<f, k>> \in cleaner[c].todo
<1> SUFFICES ASSUME Base, [Next]_vars, NEW f \in Files, node[f].held
             PROVE  /\ Safe(f) => ~node'[f].held \/ Safe(f)'
                    /\ \A c \in Cleaners, k \in Keys :
                          <<f, k>> \in cleaner'[c].todo => <<f, k>> \in cleaner[c].todo
  BY DEF Safe
<1> DEFINE Taken == \E c \in Cleaners : cleaner[c].pc = "delete" /\ cleaner[c].file = f
           Lists == \A c \in Cleaners, k \in Keys :
                       <<f, k>> \in cleaner'[c].todo => <<f, k>> \in cleaner[c].todo
<1>0. /\ node \in [Files -> Node] /\ cleaner \in [Cleaners -> Cleaner]
      /\ req \in [Procs -> Request]
  BY DEF Base, TypeOK
<1>a. Safe(f) <=> Exists(f) /\ ~Taken
  BY DEF Safe, Exists
<1>b. Safe(f)' <=> node'[f].held /\ Exists(f)' /\ ~Taken'
  BY DEF Safe, Exists
<1>1. ASSUME cleaner' = cleaner, Exists(f) => Exists(f)'
      PROVE  Lists /\ (Safe(f) => ~node'[f].held \/ Safe(f)')
  BY <1>1, <1>a, <1>b
<1>2. CASE UNCHANGED vars
  BY <1>1, <1>2 DEF vars, Exists
<1>3. ASSUME NEW p \in Procs, Handle(p)
      PROVE  cleaner' = cleaner /\ (Exists(f) => Exists(f)')
  <2>1. cleaner' = cleaner
    BY <1>3, RequestStep DEF Base
  <2>2. CASE UploadInsert(p)
    BY <1>0, <2>1, <2>2 DEF UploadInsert, Is, Exists
  <2>3. CASE VersionCommit(p) \/ Rename(p) \/ Trash(p)
    <3>1. \/ UNCHANGED node
          \/ node' = [node EXCEPT ![req[p].file].key = req[p].key, ![req[p].file].version = @ + 1]
          \/ node' = [node EXCEPT ![req[p].file].version = @ + 1]
          \/ node' = [node EXCEPT ![req[p].file].status = "TRASH", ![req[p].file].due = FALSE]
      BY <2>3 DEF VersionCommit, Rename, Trash
    <3>2. node'[f].status \in {node[f].status, "TRASH"}
      BY <1>0, <3>1 DEF Node
    <3> QED BY <1>0, <2>1, <3>2 DEF Exists
  <2>4. CASE node' = node
    BY <1>0, <2>1, <2>4 DEF Exists
  <2> QED BY <1>3, <2>1, <2>2, <2>3, <2>4 DEF Handle, UploadStart, Put, Drop, Abandon, VersionRead,
                                              RestoreRead, UpdateCheck
<1>4. ASSUME NEW c \in Cleaners, Clean(c)
      PROVE  Lists /\ (Safe(f) => ~node'[f].held \/ Safe(f)')
  <2>1. ASSUME node' = node, ~Taken => ~Taken'
        PROVE  Safe(f) => ~node'[f].held \/ Safe(f)'
    BY <1>a, <1>b, <2>1 DEF Exists
  <2>2. CASE CleanList(c)
    <3>1. \A k \in Keys : <<f, k>> \notin Listed
      BY DEF Listed, Removable
    <3>2. /\ node' = node /\ \A d \in Cleaners : cleaner'[d].todo \in {cleaner[d].todo, Listed}
          /\ \A d \in Cleaners : d # c => cleaner'[d] = cleaner[d]
          /\ cleaner'[c].pc = "remove"
      BY <1>0, <2>2 DEF CleanList, Cleaner
    <3> QED BY <2>1, <3>1, <3>2
  <2>3. CASE CleanRemove(c)
    <3>1. PICK item \in cleaner[c].todo :
             cleaner' \in {[cleaner EXCEPT ![c].pc = "erase", ![c].file = item[1],
                                           ![c].todo = @ \ {item}],
                           [cleaner EXCEPT ![c].todo = @ \ {item}]}
      BY <2>3 DEF CleanRemove
    <3>2. /\ \A d \in Cleaners : d # c => cleaner'[d] = cleaner[d]
          /\ cleaner'[c].todo = cleaner[c].todo \ {item} /\ cleaner[c].pc = "remove"
          /\ cleaner'[c].pc \in {"erase", "remove"} /\ node' = node
      BY <1>0, <2>3, <3>1 DEF CleanRemove, Cleaner
    <3> QED BY <2>1, <3>2
  <2>4. CASE CleanCheck(c)
    <3>1. /\ \A d \in Cleaners : d # c => cleaner'[d] = cleaner[d]
          /\ cleaner'[c].todo = cleaner[c].todo /\ cleaner'[c].file = cleaner[c].file
          /\ cleaner'[c].pc = IF StillRemovable(cleaner[c].file) THEN "delete" ELSE "remove"
          /\ node' = node
      BY <1>0, <2>4 DEF CleanCheck, Cleaner
    <3>2. ~StillRemovable(f)
      BY DEF StillRemovable, Removable
    <3> QED BY <2>1, <3>1, <3>2
  <2>5. CASE CleanErase(c)
    <3>1. /\ \A d \in Cleaners : d # c => cleaner'[d] = cleaner[d]
          /\ cleaner'[c].todo = cleaner[c].todo /\ cleaner'[c].pc = "remove"
          /\ cleaner[c].pc = "delete"
      BY <1>0, <2>5 DEF CleanErase, Cleaner
    <3>2. ~Taken => ~Taken' /\ cleaner[c].file # f
      BY <3>1
    <3>3. cleaner[c].file # f => node'[f] = node[f]
      BY <1>0, <2>5 DEF CleanErase
    <3> QED BY <1>a, <1>b, <3>1, <3>2, <3>3 DEF Exists
  <2>6. CASE CleanEnd(c)
    <3>1. /\ \A d \in Cleaners : d # c => cleaner'[d] = cleaner[d]
          /\ cleaner'[c].todo = {} /\ cleaner'[c].pc = "idle" /\ node' = node
      BY <1>0, <2>6, EmptyRecords DEF CleanEnd
    <3> QED BY <2>1, <3>1
  <2> QED BY <1>4, <2>2, <2>3, <2>4, <2>5, <2>6 DEF Clean
<1>5. ASSUME NEW g \in Files,
             HoldCheck(g) \/ HoldInsert(g) \/ Release(g) \/ RetentionPasses(g)
      PROVE  cleaner' = cleaner /\ node'[f].status = node[f].status
  BY <1>0, <1>5 DEF HoldCheck, HoldInsert, Release, RetentionPasses, Node
<1> QED BY <1>1, <1>2, <1>3, <1>4, <1>5 DEF Next, Exists

-----------------------------------------------------------------------------
(* What cleanups, holds and the passing of time do *)

\* A cleanup lists what is overdue, and erases a file that is overdue.
LEMMA CleanEffect ==
  ASSUME Base, NEW c \in Cleaners, Clean(c)
  PROVE  /\ req' = req /\ made' = made
         /\ \A f \in Files, k \in Keys, d \in Cleaners :
               <<f, k>> \in cleaner'[d].todo =>
                  \/ <<f, k>> \in cleaner[d].todo
                  \/ k = node[f].key /\ Is(f, "TRASH") /\ node[f].due /\ node' = node
         /\ \A f \in Files :
               \/ node'[f] = node[f] /\ history'[f] = history[f]
               \/ /\ Is(f, "TRASH") /\ node[f].due
                  /\ Is(f, "GONE")' /\ node'[f].key = None /\ history'[f] = NoHistory
<1>0. /\ node \in [Files -> Node] /\ cleaner \in [Cleaners -> Cleaner]
      /\ history \in [Files -> [Versions -> Keys \cup {None}]]
  BY DEF Base, TypeOK
<1>1. CASE CleanList(c)
  <2>1. \A d \in Cleaners : cleaner'[d].todo \in {cleaner[d].todo, Listed}
    BY <1>0, <1>1 DEF CleanList, Cleaner
  <2>2. \A f \in Files, k \in Keys :
           <<f, k>> \in Listed => k = node[f].key /\ Is(f, "TRASH") /\ node[f].due
    BY DEF Listed, Removable
  <2> QED BY <1>1, <2>1, <2>2 DEF CleanList
<1>2. CASE CleanRemove(c)
  <2>1. PICK item \in cleaner[c].todo :
           cleaner' \in {[cleaner EXCEPT ![c].pc = "erase", ![c].file = item[1],
                                         ![c].todo = @ \ {item}],
                         [cleaner EXCEPT ![c].todo = @ \ {item}]}
    BY <1>2 DEF CleanRemove
  <2>2. \A d \in Cleaners : cleaner'[d].todo \subseteq cleaner[d].todo
    <3>1. /\ cleaner'[c].todo = cleaner[c].todo \ {item}
          /\ \A d \in Cleaners : d # c => cleaner'[d] = cleaner[d]
      BY <1>0, <2>1 DEF Cleaner
    <3> QED BY <3>1
  <2> QED BY <1>2, <2>2 DEF CleanRemove
<1>3. CASE CleanErase(c)
  <2> DEFINE f == cleaner[c].file
  <2>1. \A d \in Cleaners : cleaner'[d].todo = cleaner[d].todo
    BY <1>0, <1>3 DEF CleanErase, Cleaner
  <2>2. CASE UNCHANGED <<node, history>>
    BY <1>3, <2>1, <2>2 DEF CleanErase
  <2>3. CASE /\ Is(f, "TRASH") /\ node[f].due
             /\ node' = [node EXCEPT ![f] = [NoNode EXCEPT !.status = "GONE",
                                                           !.held = node[f].held]]
             /\ history' = [history EXCEPT ![f] = NoHistory]
    <3>1. f \in Files
      BY <1>0 DEF Cleaner
    <3>2. /\ node'[f].status = "GONE" /\ node'[f].key = None /\ history'[f] = NoHistory
          /\ \A g \in Files : g # f => node'[g] = node[g] /\ history'[g] = history[g]
      BY <1>0, <2>3, <3>1 DEF NoNode
    <3> QED BY <1>3, <2>1, <2>3, <3>2 DEF CleanErase, Is
  <2> QED BY <1>3, <2>2, <2>3 DEF CleanErase
<1>4. CASE CleanEnd(c)
  <2>1. \A d \in Cleaners : cleaner'[d].todo \subseteq cleaner[d].todo
    BY <1>0, <1>4, EmptyRecords DEF CleanEnd
  <2> QED BY <1>4, <2>1 DEF CleanEnd
<1>5. CASE CleanCheck(c)
  <2>1. \A d \in Cleaners : cleaner'[d].todo = cleaner[d].todo
    BY <1>0, <1>5 DEF CleanCheck, Cleaner
  <2> QED BY <1>5, <2>1 DEF CleanCheck
<1> QED BY <1>1, <1>2, <1>3, <1>4, <1>5 DEF Clean

Holds(g) == HoldCheck(g) \/ HoldInsert(g) \/ Release(g) \/ RetentionPasses(g)

\* Holds and the passing of time change no content and no version.
LEMMA HoldEffect ==
  ASSUME Base, NEW g \in Files, Holds(g)
  PROVE  /\ UNCHANGED <<history, store, made, req, cleaner>>
         /\ \A f \in Files : /\ node'[f].key = node[f].key /\ node'[f].version = node[f].version
                             /\ node'[f].status = node[f].status /\ (node[f].due => node'[f].due)
<1>0. node \in [Files -> Node]
  BY DEF Base, TypeOK
<1>1. UNCHANGED <<history, store, made, req, cleaner>>
  BY DEF Holds, HoldCheck, HoldInsert, Release, RetentionPasses
<1>2. CASE HoldCheck(g) \/ HoldInsert(g) \/ Release(g)
  BY <1>0, <1>1, <1>2 DEF HoldCheck, HoldInsert, Release, Node
<1>3. CASE RetentionPasses(g)
  BY <1>0, <1>1, <1>3 DEF RetentionPasses, Node
<1> QED BY <1>2, <1>3 DEF Holds

-----------------------------------------------------------------------------
(* The quota *)

\* p uploads a new file, that it has checked.
Uploads(p) == req[p].file = None /\ req[p].pc \in {"put", "insert"}

\* What an upload was checked against left room for it.
Checked ==
    \A p \in Procs : Uploads(p) => req[p].key \in Keys /\ req[p].seen + Size[req[p].key] <= Limit

LEMMA CheckedStep == Base /\ Checked /\ [Next]_vars => Checked'
<1> SUFFICES ASSUME Base, Checked, [Next]_vars, NEW p \in Procs, Uploads(p)'
             PROVE  req'[p].key \in Keys /\ req'[p].seen + Size[req'[p].key] <= Limit
  BY DEF Checked
<1>0. req \in [Procs -> Request] /\ req[p] \in Request /\ made \in 0..MaxKeys
  BY DEF Base, TypeOK
<1>1. CASE req'[p] = req[p]
  BY <1>1 DEF Checked, Uploads
<1>2. CASE UploadStart(p)
  <2>1. /\ req'[p] = [NoRequest EXCEPT !.pc = "put", !.key = made + 1, !.seen = Used]
        /\ WithinQuota(made + 1) /\ made + 1 \in Keys
    BY <1>0, <1>2 DEF UploadStart, Keys
  <2>2. req'[p].key = made + 1 /\ req'[p].seen = Used
    BY <2>1 DEF NoRequest
  <2> QED BY <2>1, <2>2 DEF WithinQuota
<1>3. CASE Put(p)
  <2>1. /\ req'[p] = NoRequest \/ (/\ req'[p].file = req[p].file /\ req'[p].key = req[p].key
                                   /\ req'[p].seen = req[p].seen)
        /\ req[p].pc = "put"
    BY <1>0, <1>3 DEF Put, Finish, Goto, Request, At
  <2> QED BY <2>1, NoRequestFields DEF Checked, Uploads
<1>4. CASE UploadInsert(p) \/ VersionCommit(p) \/ Drop(p) \/ Rename(p) \/ Trash(p) \/ Abandon(p)
  <2>1. req'[p].pc \in {"idle", "drop"}
    BY <1>0, <1>4, NoRequestFields
    DEF UploadInsert, VersionCommit, Drop, Rename, Trash, Abandon, Failed, Finish, Goto, Request
  <2> QED BY <2>1 DEF Uploads
<1>5. CASE \E f \in Files : VersionRead(p, f) \/ (\E v \in Versions : RestoreRead(p, f, v))
  <2>1. req'[p].file \in Files
    BY <1>0, <1>5 DEF VersionRead, RestoreRead, NoRequest
  <2> QED BY <2>1 DEF Uploads, Files, None
<1>6. CASE \E f \in Files, what \in {"rename", "trash"} : UpdateCheck(p, f, what)
  <2>1. req'[p].file \in Files
    BY <1>0, <1>6 DEF UpdateCheck, NoRequest
  <2> QED BY <2>1 DEF Uploads, Files, None
<1>7. ASSUME NEW q \in Procs, Handle(q), q # p PROVE req'[p] = req[p]
  BY <1>7, RequestStep DEF Base
<1>8. ASSUME NEW c \in Cleaners, Clean(c) PROVE req' = req
  BY <1>8 DEF Clean, CleanList, CleanRemove, CleanCheck, CleanErase, CleanEnd
<1>9. ASSUME NEW f \in Files,
             HoldCheck(f) \/ HoldInsert(f) \/ Release(f) \/ RetentionPasses(f)
      PROVE  req' = req
  BY <1>9 DEF HoldCheck, HoldInsert, Release, RetentionPasses
<1>10. CASE UNCHANGED vars
  BY <1>1, <1>10 DEF vars
<1>11. CASE Handle(p)
  BY <1>2, <1>3, <1>4, <1>5, <1>6, <1>11 DEF Handle
<1> QED BY <1>1, <1>7, <1>8, <1>9, <1>10, <1>11 DEF Next

\* A step that shows no new content takes no more of the quota.
LEMMA UsageKept ==
  ASSUME Base, \A f \in Files : Is(f, "LIVE")' => Is(f, "LIVE") /\ node'[f].key = node[f].key
  PROVE  Used' <= Used
<1>1. Stored' \in SUBSET Stored
  <2>1. \A f \in Files : Is(f, "LIVE")' => Is(f, "LIVE") /\ Bytes(f)' = Bytes(f)
    BY DEF Bytes
  <2> QED BY <2>1 DEF Stored
<1>2. IsFiniteSet(Stored) /\ Used = Cardinality(Stored)
  BY UsageCounts DEF Base
<1>3. Cardinality(Stored') <= Cardinality(Stored)
  BY <1>1, <1>2, FS_Subset
<1> QED BY <1>2, <1>3 DEF Used, Stored

\* An upload adds the size of its content.
LEMMA UsageAdded ==
  ASSUME Base, NEW f \in Files, NEW k \in Keys, node'[f].key = k,
         \A g \in Files : g # f => node'[g] = node[g]
  PROVE  Used' <= Used + Size[k] /\ Used' \in Nat
<1> DEFINE Block == {f} \X (1..Size[k])
<1>1. Stored' \in SUBSET (Stored \cup Block)
  <2>1. \A g \in Files : g # f => Bytes(g)' = Bytes(g) /\ (Is(g, "LIVE")' <=> Is(g, "LIVE"))
    BY DEF Bytes, Is
  <2>2. Bytes(f)' = Block
    BY DEF Bytes
  <2> QED BY <2>1, <2>2 DEF Stored
<1>2. IsFiniteSet(Stored) /\ Used = Cardinality(Stored) /\ Used \in Nat
  BY UsageCounts DEF Base
<1>3. Size[k] \in Nat \ {0}
  BY SizeAssumption DEF SizeAssumption, Keys
<1>4. IsFiniteSet(Block) /\ Cardinality(Block) = Size[k]
  <2>1. IsFiniteSet({f}) /\ Cardinality({f}) = 1
    BY FS_Singleton
  <2>2. IsFiniteSet(1..Size[k]) /\ Cardinality(1..Size[k]) = Size[k]
    <3>1. PICK n \in Nat \ {0} : n = Size[k]
      BY <1>3
    <3>2. IsFiniteSet(1..n) /\ Cardinality(1..n) = IF 1 > n THEN 0 ELSE n - 1 + 1
      BY FS_Interval
    <3> QED BY <3>1, <3>2
  <2>3. IsFiniteSet(Block) /\ Cardinality(Block) = Cardinality({f}) * Cardinality(1..Size[k])
    BY <2>1, <2>2, FS_Product
  <2> QED BY <1>3, <2>1, <2>2, <2>3
<1> HIDE DEF Block
<1>5. /\ IsFiniteSet(Stored \cup Block)
      /\ Cardinality(Stored \cup Block) <= Used + Size[k]
  <2>1. /\ IsFiniteSet(Stored \cup Block)
        /\ Cardinality(Stored \cup Block)
              = Cardinality(Stored) + Cardinality(Block) - Cardinality(Stored \cap Block)
    BY <1>2, <1>4, FS_Union
  <2>2. Stored \cap Block \in SUBSET Stored
    OBVIOUS
  <2>3. Cardinality(Stored \cap Block) \in Nat
    BY <1>2, <2>2, FS_Subset, FS_CardinalityType
  <2> QED BY <1>2, <1>3, <1>4, <2>1, <2>3
<1>6. IsFiniteSet(Stored') /\ Cardinality(Stored') <= Cardinality(Stored \cup Block)
  BY <1>1, <1>5, FS_Subset
<1>7. Cardinality(Stored') \in Nat /\ Cardinality(Stored \cup Block) \in Nat
  BY <1>5, <1>6, FS_CardinalityType
<1>8. Used' = Cardinality(Stored')
  BY DEF Used, Stored
<1> QED BY <1>2, <1>3, <1>5, <1>6, <1>7, <1>8

\* What passes the limit is an upload that was overtaken since its check, or a version.
LEMMA LateStep == Base /\ Checked /\ [Next]_vars =>
  (Used' > Used /\ Used' > Limit =>
      \E p \in Procs : /\ req'[p] # req[p]
                       /\ \/ At(p, "insert") /\ req[p].seen < Used
                          \/ At(p, "commit"))
<1> SUFFICES ASSUME Base, Checked, [Next]_vars, Used' > Used, Used' > Limit
             PROVE  \E p \in Procs : /\ req'[p] # req[p]
                                     /\ \/ At(p, "insert") /\ req[p].seen < Used
                                        \/ At(p, "commit")
  OBVIOUS
<1>0. /\ node \in [Files -> Node] /\ req \in [Procs -> Request]
      /\ history \in [Files -> [Versions -> Keys \cup {None}]]
      /\ cleaner \in [Cleaners -> Cleaner] /\ Used \in Nat /\ Limit \in Nat
  BY UsageCounts DEF Base, TypeOK
<1>1. ASSUME \A f \in Files : Is(f, "LIVE")' => Is(f, "LIVE") /\ node'[f].key = node[f].key
      PROVE  FALSE
  <2>1. Used' <= Used
    BY <1>1, UsageKept
  <2>2. Used' \in Int
    <3>1. Stored' \in SUBSET Stored
      <4>1. \A f \in Files : Is(f, "LIVE")' => Is(f, "LIVE") /\ Bytes(f)' = Bytes(f)
        BY <1>1 DEF Bytes
      <4> QED BY <4>1 DEF Stored
    <3>2. IsFiniteSet(Stored')
      BY <3>1, UsageCounts, FS_Subset DEF Base
    <3> QED BY <3>2, FS_CardinalityType DEF Used, Stored
  <2> QED BY <1>0, <2>1, <2>2
<1>2. CASE UNCHANGED vars
  BY <1>1, <1>2 DEF vars, Is
<1>3. ASSUME NEW p \in Procs, UploadInsert(p)
      PROVE  req'[p] # req[p] /\ At(p, "insert") /\ req[p].seen < Used
  <2>1. /\ Uploads(p) /\ At(p, "insert") /\ req[p].key \in Keys
        /\ req[p].seen + Size[req[p].key] <= Limit /\ req[p].seen \in Nat
    BY <1>0, <1>3 DEF UploadInsert, Uploads, Checked, At, Base, Busy, Request
  <2>2. req'[p].pc \in {"idle", "drop"}
    BY <1>0, <1>3, NoRequestFields DEF UploadInsert, Finish, Goto, Request
  <2>3. PICK f \in Files :
           node' = [node EXCEPT ![f] = [NoNode EXCEPT !.status = "LIVE", !.key = req[p].key]]
    BY <1>1, <1>3 DEF UploadInsert, Is
  <2>4. node'[f].key = req[p].key /\ \A g \in Files : g # f => node'[g] = node[g]
    BY <1>0, <2>3 DEF NoNode
  <2>5. Used' <= Used + Size[req[p].key] /\ Used' \in Nat
    BY <2>1, <2>4, UsageAdded
  <2>6. Size[req[p].key] \in Nat
    BY <2>1, SizeAssumption DEF SizeAssumption, Keys
  <2>7. req[p].seen < Used
    BY <1>0, <2>1, <2>5, <2>6
  <2> QED BY <2>1, <2>2, <2>7 DEF At
<1>4. ASSUME NEW p \in Procs, VersionCommit(p)
      PROVE  req'[p] # req[p] /\ At(p, "commit")
  <2>1. At(p, "commit") /\ req'[p].pc \in {"idle", "drop"}
    BY <1>0, <1>4, NoRequestFields DEF VersionCommit, Failed, Finish, Goto, Request
  <2> QED BY <2>1 DEF At
<1>5. ASSUME NEW p \in Procs, Handle(p), ~UploadInsert(p), ~VersionCommit(p)
      PROVE  FALSE
  <2>1. CASE node' = node
    BY <1>1, <2>1 DEF Is
  <2>2. CASE Rename(p) \/ Trash(p)
    <3>1. \/ node' = [node EXCEPT ![req[p].file].version = @ + 1]
          \/ node' = [node EXCEPT ![req[p].file].status = "TRASH", ![req[p].file].due = FALSE]
      BY <2>2 DEF Rename, Trash
    <3>2. ASSUME NEW f \in Files
          PROVE  node'[f].key = node[f].key /\ node'[f].status \in {node[f].status, "TRASH"}
      <4>1. node[f] \in Node
        BY <1>0
      <4>2. CASE f # req[p].file
        BY <1>0, <3>1, <4>2
      <4>3. CASE f = req[p].file
        <5>1. \/ node'[f] = [node[f] EXCEPT !.version = @ + 1]
              \/ node'[f] = [node[f] EXCEPT !.status = "TRASH", !.due = FALSE]
          BY <1>0, <3>1, <4>3
        <5>2. /\ [node[f] EXCEPT !.version = @ + 1].key = node[f].key
              /\ [node[f] EXCEPT !.version = @ + 1].status = node[f].status
          BY <4>1 DEF Node
        <5>3. /\ [node[f] EXCEPT !.status = "TRASH", !.due = FALSE].key = node[f].key
              /\ [node[f] EXCEPT !.status = "TRASH", !.due = FALSE].status = "TRASH"
          BY <4>1 DEF Node
        <5> QED BY <5>1, <5>2, <5>3
      <4> QED BY <4>2, <4>3
    <3> QED BY <1>1, <3>2 DEF Is
  <2> QED BY <1>5, <2>1, <2>2 DEF Handle, UploadStart, Put, Drop, Abandon, VersionRead,
                                  RestoreRead, UpdateCheck
<1>6. ASSUME NEW c \in Cleaners, Clean(c) PROVE FALSE
  <2>1. \A f \in Files : node'[f] = node[f] \/ Is(f, "GONE")'
    BY <1>6, CleanEffect
  <2> QED BY <1>1, <2>1 DEF Is
<1>7. ASSUME NEW f \in Files, Holds(f) PROVE FALSE
  <2>1. \A g \in Files : node'[g].key = node[g].key /\ node'[g].status = node[g].status
    BY <1>7, HoldEffect
  <2> QED BY <1>1, <2>1 DEF Is
<1> QED BY <1>2, <1>3, <1>4, <1>5, <1>6, <1>7 DEF Next, Holds

-----------------------------------------------------------------------------
(* Which contents a request or a cleanup refers to *)

\* p adds a version to f, or restores one.
Changes(p, f) == req[p].file = f /\ req[p].pc \in {"put", "commit"}

\* p uploads the content k of a new file.
Brings(p, k) == req[p].key = k /\ req[p].file = None /\ req[p].pc \in {"put", "insert"}

\* The contents that were ever of f, as far as the history, a request or a cleanup knows them.
Owns(f, k) ==
    \/ k \in Contents(f)
    \/ \E p \in Procs : Changes(p, f) /\ k \in {req[p].key, req[p].old}
    \/ \E c \in Cleaners : <<f, k>> \in cleaner[c].todo

\* What the steps of a request but UploadInsert and VersionCommit do to the rows.
LEMMA QuietRows ==
  ASSUME Base, NEW p \in Procs, Handle(p), ~UploadInsert(p), ~VersionCommit(p)
  PROVE  /\ history' = history
         /\ \A f \in Files : /\ node'[f].key = node[f].key
                             /\ req[p].file # f => node'[f] = node[f]
                             /\ node'[f].version \in {node[f].version, node[f].version + 1}
<1>0. node \in [Files -> Node]
  BY DEF Base, TypeOK
<1>1. CASE UNCHANGED <<node, history>>
  BY <1>1
<1>2. CASE Rename(p)
  <2>1. history' = history /\ node' = [node EXCEPT ![req[p].file].version = @ + 1]
    BY <1>2 DEF Rename
  <2> QED BY <1>0, <2>1 DEF Node
<1>3. CASE Trash(p)
  <2>1. /\ history' = history
        /\ node' = [node EXCEPT ![req[p].file].status = "TRASH", ![req[p].file].due = FALSE]
    BY <1>3 DEF Trash
  <2> QED BY <1>0, <2>1 DEF Node
<1> QED BY <1>1, <1>2, <1>3 DEF Handle, UploadStart, Put, Drop, Abandon, VersionRead, RestoreRead,
                                UpdateCheck

\* What they do to the request: it goes on, or begins with what it has just read.
LEMMA QuietRequest ==
  ASSUME Base, NEW p \in Procs, Handle(p), ~UploadInsert(p), ~VersionCommit(p)
  PROVE  /\ made' \in {made, made + 1}
         /\ \A f \in Files : Changes(p, f)' =>
              \/ /\ Changes(p, f) /\ req'[p].key = req[p].key /\ req'[p].old = req[p].old
                 /\ req'[p].version = req[p].version /\ node' = node
              \/ /\ Is(f, "LIVE") /\ node' = node
                 /\ req'[p].old = node[f].key /\ req'[p].version = node[f].version
                 /\ \/ req'[p].key = made + 1 /\ made' = made + 1
                    \/ req'[p].key \in Contents(f)
         /\ \A k \in Keys : Brings(p, k)' => Brings(p, k) \/ (k = made + 1 /\ made' = made + 1)
<1>0. req \in [Procs -> Request] /\ req[p] \in Request
  BY DEF Base, TypeOK
<1>1. CASE UploadStart(p)
  <2>1. /\ req'[p] = [NoRequest EXCEPT !.pc = "put", !.key = made + 1, !.seen = Used]
        /\ made' = made + 1
    BY <1>0, <1>1 DEF UploadStart
  <2>2. req'[p].file = None /\ req'[p].key = made + 1
    BY <2>1 DEF NoRequest
  <2> QED BY <2>1, <2>2 DEF Changes, Brings, Files, None
<1>2. CASE Put(p)
  <2>1. made' = made /\ node' = node /\ At(p, "put")
    BY <1>2 DEF Put
  <2>2. \/ req'[p] = NoRequest
        \/ /\ req'[p].file = req[p].file /\ req'[p].key = req[p].key /\ req'[p].old = req[p].old
           /\ req'[p].version = req[p].version
    BY <1>0, <1>2 DEF Put, Finish, Goto, Request
  <2> QED BY <2>1, <2>2, EmptyRecords DEF Changes, Brings, At
<1>3. CASE Drop(p) \/ Abandon(p) \/ Rename(p) \/ Trash(p)
  <2>1. req'[p] = NoRequest /\ made' = made
    BY <1>0, <1>3 DEF Drop, Abandon, Rename, Trash, Finish
  <2> QED BY <2>1, EmptyRecords DEF Changes, Brings
<1>4. ASSUME NEW g \in Files, VersionRead(p, g)
      PROVE  /\ made' = made + 1 /\ node' = node /\ Is(g, "LIVE")
             /\ req'[p].file = g /\ req'[p].key = made + 1
             /\ req'[p].old = node[g].key /\ req'[p].version = node[g].version
  BY <1>0, <1>4 DEF VersionRead, NoRequest
<1>5. ASSUME NEW g \in Files, NEW v \in Versions, RestoreRead(p, g, v)
      PROVE  /\ made' = made /\ node' = node /\ Is(g, "LIVE")
             /\ req'[p].file = g /\ req'[p].key \in Contents(g)
             /\ req'[p].old = node[g].key /\ req'[p].version = node[g].version
  <2>1. /\ made' = made /\ node' = node /\ Is(g, "LIVE")
        /\ req'[p].file = g /\ req'[p].key = history[g][v] /\ history[g][v] # None
        /\ req'[p].old = node[g].key /\ req'[p].version = node[g].version
    BY <1>0, <1>5 DEF RestoreRead, HasVersion, NoRequest
  <2> QED BY <2>1 DEF Contents
<1>6. CASE \E f \in Files, what \in {"rename", "trash"} : UpdateCheck(p, f, what)
  <2>1. req'[p].pc \in {"rename", "trash"} /\ made' = made
    BY <1>0, <1>6 DEF UpdateCheck, NoRequest
  <2> QED BY <2>1 DEF Changes, Brings
<1>7. CASE \E f \in Files : VersionRead(p, f) \/ (\E v \in Versions : RestoreRead(p, f, v))
  <2>1. PICK g \in Files : VersionRead(p, g) \/ (\E v \in Versions : RestoreRead(p, g, v))
    BY <1>7
  <2>2. /\ made' \in {made, made + 1} /\ node' = node /\ Is(g, "LIVE") /\ req'[p].file = g
        /\ req'[p].old = node[g].key /\ req'[p].version = node[g].version
        /\ (req'[p].key = made + 1 /\ made' = made + 1) \/ req'[p].key \in Contents(g)
    BY <1>4, <1>5, <2>1
  <2> QED BY <2>2 DEF Changes, Brings, Files, None
<1> QED BY <1>1, <1>2, <1>3, <1>6, <1>7 DEF Handle

\* UploadInsert leaves a file that nobody refers to as it was, or makes it the file of its content.
LEMMA InsertEffect ==
  ASSUME Base, NEW p \in Procs, UploadInsert(p)
  PROVE  /\ history' = history /\ made' = made /\ cleaner' = cleaner
         /\ req[p].key \in Keys /\ Brings(p, req[p].key)
         /\ \A q \in Procs : q # p => req'[q] = req[q]
         /\ \A f \in Files : ~Changes(p, f)'
         /\ \A k \in Keys : ~Brings(p, k)'
         /\ \/ node' = node
            \/ \E f \in Files : /\ Is(f, "NONE") /\ node'[f].key = req[p].key /\ node'[f].version = 1
                                /\ \A g \in Files : g # f => node'[g] = node[g]
<1>0. /\ req \in [Procs -> Request] /\ req[p] \in Request /\ node \in [Files -> Node]
  BY DEF Base, TypeOK
<1>1. /\ history' = history /\ made' = made /\ cleaner' = cleaner
      /\ req[p].key \in Keys /\ Brings(p, req[p].key)
  BY <1>0 DEF UploadInsert, At, Base, Busy, Request, Brings
<1>2. req'[p].pc \in {"idle", "drop"} /\ \A q \in Procs : q # p => req'[q] = req[q]
  BY <1>0, EmptyRecords DEF UploadInsert, Finish, Goto, Request
<1>3. ASSUME NEW f \in Files, Is(f, "NONE"),
             node' = [node EXCEPT ![f] = [NoNode EXCEPT !.status = "LIVE", !.key = req[p].key]]
      PROVE  /\ node'[f].key = req[p].key /\ node'[f].version = 1
             /\ \A g \in Files : g # f => node'[g] = node[g]
  BY <1>0, <1>3 DEF NoNode
<1>4. \/ node' = node
      \/ \E f \in Files : /\ Is(f, "NONE") /\ node'[f].key = req[p].key /\ node'[f].version = 1
                          /\ \A g \in Files : g # f => node'[g] = node[g]
  BY <1>3 DEF UploadInsert
<1> QED BY <1>1, <1>2, <1>4 DEF Changes, Brings

\* VersionCommit leaves its file as it was, or archives one version and adds another.
LEMMA CommitEffect ==
  ASSUME Base, NEW p \in Procs, VersionCommit(p)
  PROVE  /\ made' = made /\ cleaner' = cleaner /\ req[p].file \in Files
         /\ Changes(p, req[p].file) /\ req[p].version \in Versions
         /\ \A q \in Procs : q # p => req'[q] = req[q]
         /\ \A f \in Files : ~Changes(p, f)'
         /\ \A k \in Keys : ~Brings(p, k)'
         /\ \A f \in Files : f # req[p].file => node'[f] = node[f] /\ history'[f] = history[f]
         /\ \/ node' = node /\ history' = history
            \/ /\ node'[req[p].file].key = req[p].key
               /\ node'[req[p].file].version = node[req[p].file].version + 1
               /\ \A v \in Versions :
                     history'[req[p].file][v] =
                        IF v = req[p].version /\ history[req[p].file][v] = None
                        THEN req[p].old ELSE history[req[p].file][v]
<1>0. /\ req \in [Procs -> Request] /\ req[p] \in Request /\ node \in [Files -> Node]
      /\ history \in [Files -> [Versions -> Keys \cup {None}]]
  BY DEF Base, TypeOK
<1>1. /\ made' = made /\ cleaner' = cleaner /\ req[p].file \in Files
      /\ Changes(p, req[p].file) /\ req[p].version \in Versions
  BY <1>0 DEF VersionCommit, At, Base, Busy, Request, Changes
<1>2. req'[p].pc \in {"idle", "drop"} /\ \A q \in Procs : q # p => req'[q] = req[q]
  BY <1>0, EmptyRecords DEF VersionCommit, Failed, Finish, Goto, Request
<1>3. CASE node' = node /\ history' = history
  BY <1>1, <1>2, <1>3 DEF Changes, Brings
<1>4. CASE /\ history' = Archive(p)
           /\ node' = [node EXCEPT ![req[p].file].key = req[p].key, ![req[p].file].version = @ + 1]
  <2>1. /\ node'[req[p].file].key = req[p].key
        /\ node'[req[p].file].version = node[req[p].file].version + 1
        /\ \A f \in Files : f # req[p].file => node'[f] = node[f]
    BY <1>0, <1>1, <1>4 DEF Node
  <2>2. /\ \A f \in Files : f # req[p].file => history'[f] = history[f]
        /\ \A v \in Versions :
              history'[req[p].file][v] =
                 IF v = req[p].version /\ history[req[p].file][v] = None
                 THEN req[p].old ELSE history[req[p].file][v]
    BY <1>0, <1>1, <1>4 DEF Archive
  <2>3. (\A f \in Files : ~Changes(p, f)') /\ (\A k \in Keys : ~Brings(p, k)')
    BY <1>2 DEF Changes, Brings
  <2> QED BY <1>1, <1>2, <2>1, <2>2, <2>3
<1> QED BY <1>3, <1>4 DEF VersionCommit

-----------------------------------------------------------------------------
(* A content belongs to one file *)

Apart ==
    /\ \A f, g \in Files, k \in Keys : Owns(f, k) /\ Owns(g, k) => f = g
    /\ \A p \in Procs, f \in Files, k \in Keys : Brings(p, k) => ~Owns(f, k)
    /\ \A p, q \in Procs, k \in Keys : Brings(p, k) /\ Brings(q, k) => p = q
    /\ \A f \in Files, k \in Keys : Owns(f, k) => k <= made
    /\ \A p \in Procs, k \in Keys : Brings(p, k) => k <= made

\* A request may refer to a content that is new, at most.
LEMMA ApartFresh ==
  ASSUME Apart, made \in Nat, NEW p \in Procs, made' \in {made, made + 1},
         \A f \in Files, k \in Keys :
            Owns(f, k)' => Owns(f, k) \/ (k = made + 1 /\ made' = made + 1 /\ Changes(p, f)'),
         \A q \in Procs, k \in Keys :
            Brings(q, k)' => Brings(q, k) \/ (q = p /\ k = made + 1 /\ made' = made + 1)
  PROVE  Apart'
<1>0. \A k \in Keys : k \in Int
  BY DEF Keys
<1>1. \A f, g \in Files : ~(Changes(p, f)' /\ Changes(p, g)' /\ f # g)
  BY DEF Changes
<1>2. \A f \in Files, k \in Keys : ~(Changes(p, f)' /\ Brings(p, k)')
  BY DEF Changes, Brings, Files, None
<1>3. \A k \in Keys : k = made + 1 =>
         (\A f \in Files : ~Owns(f, k)) /\ (\A q \in Procs : ~Brings(q, k))
  BY <1>0 DEF Apart
<1>4. \A f, g \in Files, k \in Keys : Owns(f, k)' /\ Owns(g, k)' => f = g
  BY <1>1, <1>3 DEF Apart
<1>5. \A q \in Procs, f \in Files, k \in Keys : Brings(q, k)' => ~Owns(f, k)'
  BY <1>2, <1>3 DEF Apart
<1>6. \A q, r \in Procs, k \in Keys : Brings(q, k)' /\ Brings(r, k)' => q = r
  BY <1>3 DEF Apart
<1>7. \A f \in Files, k \in Keys : Owns(f, k)' => k <= made'
  BY <1>0 DEF Apart
<1>8. \A q \in Procs, k \in Keys : Brings(q, k)' => k <= made'
  BY <1>0 DEF Apart
<1> QED BY <1>4, <1>5, <1>6, <1>7, <1>8 DEF Apart

\* A content that changes hands belongs to one file still.
LEMMA ApartKept ==
  ASSUME Apart, made' = made, NEW p \in Procs, NEW g \in Files,
         \A f \in Files, k \in Keys :
            Owns(f, k)' => Owns(f, k) \/ (f = g /\ Brings(p, k) /\ ~Brings(p, k)'),
         \A q \in Procs, k \in Keys : Brings(q, k)' => Brings(q, k)
  PROVE  Apart'
<1>1. \A f, h \in Files, k \in Keys : Owns(f, k)' /\ Owns(h, k)' => f = h
  BY DEF Apart
<1>2. \A q \in Procs, f \in Files, k \in Keys : Brings(q, k)' => ~Owns(f, k)'
  <2> SUFFICES ASSUME NEW q \in Procs, NEW f \in Files, NEW k \in Keys, Brings(q, k)', Owns(f, k)'
               PROVE  FALSE
    OBVIOUS
  <2>1. Brings(q, k) /\ ~Owns(f, k)
    BY DEF Apart
  <2>2. Brings(p, k) /\ ~Brings(p, k)'
    BY <2>1
  <2> QED BY <2>1, <2>2 DEF Apart
<1>3. \A q, r \in Procs, k \in Keys : Brings(q, k)' /\ Brings(r, k)' => q = r
  BY DEF Apart
<1>4. \A f \in Files, k \in Keys : Owns(f, k)' => k <= made'
  BY DEF Apart
<1>5. \A q \in Procs, k \in Keys : Brings(q, k)' => k <= made'
  BY DEF Apart
<1> QED BY <1>1, <1>2, <1>3, <1>4, <1>5 DEF Apart

LEMMA ContentsSame ==
  ASSUME NEW f, node'[f].key = node[f].key, history'[f] = history[f]
  PROVE  Contents(f)' = Contents(f)
BY DEF Contents

LEMMA ApartHandles ==
  ASSUME Base, Apart, NEW p \in Procs, Handle(p)
  PROVE  Apart'
<1>0. cleaner' = cleaner /\ (\A q \in Procs : q # p => req'[q] = req[q]) /\ made \in Nat
  BY RequestStep DEF Base, TypeOK
<1>1. ASSUME NEW q \in Procs, q # p
      PROVE  /\ \A f \in Files : Changes(q, f)' <=> Changes(q, f)
             /\ \A k \in Keys : Brings(q, k)' <=> Brings(q, k)
  BY <1>0, <1>1 DEF Changes, Brings
<1>2. CASE UploadInsert(p)
  <2>1. /\ history' = history /\ made' = made /\ \A f \in Files : ~Changes(p, f)'
        /\ \A k \in Keys : ~Brings(p, k)'
        /\ req[p].key \in Keys /\ Brings(p, req[p].key)
    BY <1>2, InsertEffect
  <2>2. PICK g \in Files : \A f \in Files : f # g => node'[f] = node[f]
    BY <1>2, InsertEffect DEF Files
  <2>4. ASSUME NEW f \in Files, NEW k \in Keys, Owns(f, k)'
        PROVE  Owns(f, k) \/ (\E h \in Files : f = h /\ node'[h] # node[h] /\ k = req[p].key)
    <3>1. CASE k \in Contents(f)'
      <4>1. CASE node'[f] = node[f]
        BY <2>1, <3>1, <4>1, ContentsSame DEF Owns
      <4>2. CASE node'[f] # node[f]
        <5>1. node'[f].key = req[p].key
          BY <1>2, <4>2, InsertEffect
        <5> QED BY <2>1, <3>1, <4>2, <5>1 DEF Contents, Owns
      <4> QED BY <4>1, <4>2
    <3>2. ASSUME NEW q \in Procs, Changes(q, f)', k \in {req'[q].key, req'[q].old} PROVE Owns(f, k)
      BY <1>0, <1>1, <2>1, <3>2 DEF Owns
    <3>3. CASE \E c \in Cleaners : <<f, k>> \in cleaner'[c].todo
      BY <1>0, <3>3 DEF Owns
    <3> QED BY <2>4, <3>1, <3>2, <3>3 DEF Owns
  <2>6. \A f \in Files, k \in Keys :
           Owns(f, k)' => Owns(f, k) \/ (f = g /\ Brings(p, k) /\ ~Brings(p, k)')
    BY <2>1, <2>2, <2>4
  <2>7. \A q \in Procs, k \in Keys : Brings(q, k)' => Brings(q, k)
    BY <1>1, <2>1
  <2> QED BY <2>1, <2>6, <2>7, ApartKept
<1>3. CASE VersionCommit(p)
  <2>0. PICK g \in Files : g = req[p].file
    BY <1>3, CommitEffect
  <2>1. /\ made' = made /\ Changes(p, g) /\ \A f \in Files : ~Changes(p, f)'
        /\ \A k \in Keys : ~Brings(p, k)'
        /\ \A f \in Files : f # g => node'[f] = node[f] /\ history'[f] = history[f]
    BY <1>3, <2>0, CommitEffect
  <2>2. ASSUME NEW k \in Keys, k \in Contents(g)' PROVE Owns(g, k)
    <3>1. CASE node' = node /\ history' = history
      BY <2>2, <3>1, ContentsSame DEF Owns
    <3>2. CASE /\ node'[g].key = req[p].key
               /\ \A v \in Versions : history'[g][v] \in {req[p].old, history[g][v]}
      BY <2>1, <2>2, <3>2 DEF Contents, Owns
    <3> QED BY <1>3, <2>0, <3>1, <3>2, CommitEffect
  <2>3. ASSUME NEW f \in Files, NEW k \in Keys, Owns(f, k)' PROVE Owns(f, k)
    <3>1. CASE k \in Contents(f)'
      <4>1. CASE f = g
        BY <2>2, <3>1, <4>1
      <4>2. CASE f # g
        BY <2>1, <3>1, <4>2, ContentsSame DEF Owns
      <4> QED BY <4>1, <4>2
    <3>2. ASSUME NEW q \in Procs, Changes(q, f)', k \in {req'[q].key, req'[q].old} PROVE Owns(f, k)
      BY <1>0, <1>1, <2>1, <3>2 DEF Owns
    <3>3. CASE \E c \in Cleaners : <<f, k>> \in cleaner'[c].todo
      BY <1>0, <3>3 DEF Owns
    <3> QED BY <2>3, <3>1, <3>2, <3>3 DEF Owns
  <2>4. \A q \in Procs, k \in Keys : Brings(q, k)' => Brings(q, k)
    BY <1>1, <2>1
  <2> QED BY <2>1, <2>3, <2>4, ApartKept
<1>4. CASE ~UploadInsert(p) /\ ~VersionCommit(p)
  <2>1. /\ history' = history /\ made' \in {made, made + 1}
        /\ \A f \in Files : node'[f].key = node[f].key
    BY <1>4, QuietRows, QuietRequest
  <2>2. ASSUME NEW f \in Files, NEW k \in Keys, Owns(f, k)'
        PROVE  Owns(f, k) \/ (k = made + 1 /\ made' = made + 1 /\ Changes(p, f)')
    <3>1. CASE k \in Contents(f)'
      BY <2>1, <3>1, ContentsSame DEF Owns
    <3>2. ASSUME NEW q \in Procs, q # p, Changes(q, f)', k \in {req'[q].key, req'[q].old}
          PROVE  Owns(f, k)
      BY <1>0, <1>1, <3>2 DEF Owns
    <3>3. CASE Changes(p, f)' /\ k \in {req'[p].key, req'[p].old}
      <4>1. CASE Changes(p, f) /\ req'[p].key = req[p].key /\ req'[p].old = req[p].old
        BY <3>3, <4>1 DEF Owns
      <4>2. CASE /\ req'[p].old = node[f].key
                 /\ (req'[p].key = made + 1 /\ made' = made + 1) \/ req'[p].key \in Contents(f)
        <5>1. k = node[f].key => k \in Contents(f)
          BY DEF Contents, Keys, None
        <5> QED BY <3>3, <4>2, <5>1 DEF Owns
      <4> QED BY <1>4, <3>3, <4>1, <4>2, QuietRequest
    <3>4. CASE \E c \in Cleaners : <<f, k>> \in cleaner'[c].todo
      BY <1>0, <3>4 DEF Owns
    <3> QED BY <2>2, <3>1, <3>2, <3>3, <3>4 DEF Owns
  <2>3. \A q \in Procs, k \in Keys :
           Brings(q, k)' => Brings(q, k) \/ (q = p /\ k = made + 1 /\ made' = made + 1)
    BY <1>1, <1>4, QuietRequest
  <2> QED BY <1>0, <2>1, <2>2, <2>3, ApartFresh
<1> QED BY <1>2, <1>3, <1>4

LEMMA ApartStep == Base /\ Apart /\ [Next]_vars => Apart'
<1> SUFFICES ASSUME Base, Apart, [Next]_vars PROVE Apart'
  OBVIOUS
<1>1. PICK p \in Procs : TRUE
  OBVIOUS
<1>2. 1 \in Files
  BY DEF Files
<1>3. ASSUME made' = made, req' = req, \A f \in Files, k \in Keys : Owns(f, k)' => Owns(f, k)
      PROVE  Apart'
  BY <1>1, <1>2, <1>3, ApartKept DEF Brings
<1>4. CASE UNCHANGED vars
  BY <1>3, <1>4 DEF vars, Owns, Contents, Changes
<1>5. ASSUME NEW c \in Cleaners, Clean(c) PROVE Apart'
  <2>1. req' = req /\ made' = made
    BY <1>5, CleanEffect
  <2>2. ASSUME NEW f \in Files, NEW k \in Keys, Owns(f, k)' PROVE Owns(f, k)
    <3>1. CASE k \in Contents(f)'
      <4>1. CASE node'[f] = node[f] /\ history'[f] = history[f]
        BY <3>1, <4>1, ContentsSame DEF Owns
      <4>2. CASE node'[f].key = None /\ history'[f] = NoHistory
        BY <3>1, <4>2 DEF Contents, NoHistory
      <4> QED BY <1>5, <4>1, <4>2, CleanEffect
    <3>2. ASSUME NEW q \in Procs, Changes(q, f)', k \in {req'[q].key, req'[q].old} PROVE Owns(f, k)
      BY <2>1, <3>2 DEF Owns, Changes
    <3>3. ASSUME NEW d \in Cleaners, <<f, k>> \in cleaner'[d].todo PROVE Owns(f, k)
      <4>1. <<f, k>> \in cleaner[d].todo \/ k = node[f].key
        BY <1>5, <3>3, CleanEffect
      <4> QED BY <4>1 DEF Owns, Contents, Keys, None
    <3> QED BY <2>2, <3>1, <3>2, <3>3 DEF Owns
  <2> QED BY <1>3, <2>1, <2>2
<1>6. ASSUME NEW g \in Files, Holds(g) PROVE Apart'
  <2>1. /\ UNCHANGED <<history, made, req, cleaner>>
        /\ \A f \in Files : Contents(f)' = Contents(f)
    BY <1>6, HoldEffect, ContentsSame
  <2> QED BY <1>3, <2>1 DEF Owns, Changes
<1> QED BY <1>4, <1>5, <1>6, ApartHandles DEF Next, Holds

-----------------------------------------------------------------------------
(* What a cleanup has listed stays overdue until it is erased *)

Overdue ==
    \A c \in Cleaners, f \in Files, k \in Keys :
       <<f, k>> \in cleaner[c].todo => Is(f, "GONE") \/ (Is(f, "TRASH") /\ node[f].due)

\* No request writes a file that is overdue or erased.
LEMMA RequestsSpareOverdue ==
  ASSUME Base, NEW p \in Procs, Handle(p), NEW f \in Files, node[f].due \/ Is(f, "GONE")
  PROVE  node'[f] = node[f]
<1>1. req[p].file # f
  BY DEF Base, Busy, Exists, Is, Files, None
<1>2. ~Is(f, "NONE")
  BY DEF Base, Occupied, Is
<1>3. CASE UploadInsert(p)
  BY <1>2, <1>3, InsertEffect
<1>4. CASE VersionCommit(p)
  BY <1>1, <1>4, CommitEffect
<1>5. CASE ~UploadInsert(p) /\ ~VersionCommit(p)
  BY <1>1, <1>5, QuietRows
<1> QED BY <1>3, <1>4, <1>5

LEMMA OverdueStep == Base /\ Overdue /\ [Next]_vars => Overdue'
<1> SUFFICES ASSUME Base, Overdue, [Next]_vars,
                    NEW c \in Cleaners, NEW f \in Files, NEW k \in Keys, <<f, k>> \in cleaner'[c].todo
             PROVE  Is(f, "GONE")' \/ (Is(f, "TRASH")' /\ node'[f].due)
  BY DEF Overdue
<1>1. CASE UNCHANGED vars
  BY <1>1 DEF vars, Overdue, Is
<1>2. ASSUME NEW p \in Procs, Handle(p) PROVE Is(f, "GONE")' \/ (Is(f, "TRASH")' /\ node'[f].due)
  <2>1. Is(f, "GONE") \/ (Is(f, "TRASH") /\ node[f].due)
    BY <1>2, RequestStep DEF Base, Overdue
  <2> QED BY <1>2, <2>1, RequestsSpareOverdue DEF Is
<1>3. ASSUME NEW d \in Cleaners, Clean(d)
      PROVE  Is(f, "GONE")' \/ (Is(f, "TRASH")' /\ node'[f].due)
  <2>1. Is(f, "GONE") \/ (Is(f, "TRASH") /\ node[f].due)
    BY <1>3, CleanEffect DEF Overdue
  <2> QED BY <1>3, <2>1, CleanEffect DEF Is
<1>4. ASSUME NEW g \in Files, Holds(g)
      PROVE  Is(f, "GONE")' \/ (Is(f, "TRASH")' /\ node'[f].due)
  BY <1>4, HoldEffect DEF Overdue, Is
<1> QED BY <1>1, <1>2, <1>3, <1>4 DEF Next, Holds

LEMMA RemoveStep == Base /\ Apart /\ Overdue /\ [Next]_vars =>
  \A f \in Files : \A k \in Contents(f) \cap store :
     k \notin store' =>
        \/ \E p \in Procs : At(p, "drop") /\ req[p].key = k
        \/ Is(f, "TRASH") /\ node[f].due
<1> SUFFICES ASSUME Base, Apart, Overdue, [Next]_vars,
                    NEW f \in Files, NEW k \in Contents(f) \cap store, k \notin store'
             PROVE  \/ \E p \in Procs : At(p, "drop") /\ req[p].key = k
                    \/ Is(f, "TRASH") /\ node[f].due
  OBVIOUS
<1>0. store \in SUBSET Keys /\ cleaner \in [Cleaners -> Cleaner]
  BY DEF Base, TypeOK
<1>1. k \in Keys /\ Owns(f, k) /\ store' # store
  BY <1>0 DEF Owns
<1>2. ASSUME NEW p \in Procs, Handle(p) PROVE At(p, "drop") /\ req[p].key = k
  <2>1. CASE Put(p)
    BY <1>1, <2>1 DEF Put
  <2>2. CASE Drop(p)
    BY <1>1, <2>2 DEF Drop
  <2> QED BY <1>1, <1>2, <2>1, <2>2 DEF Handle, UploadStart, UploadInsert, Abandon, VersionRead,
                         RestoreRead, VersionCommit, Rename, Trash, UpdateCheck
<1>3. ASSUME NEW c \in Cleaners, Clean(c) PROVE Is(f, "TRASH") /\ node[f].due
  <2>1. CleanRemove(c)
    BY <1>1, <1>3 DEF Clean, CleanList, CleanCheck, CleanErase, CleanEnd
  <2>2. PICK item \in cleaner[c].todo : store' \in {store, store \ {item[2]}}
    BY <2>1 DEF CleanRemove
  <2>3. item = <<item[1], item[2]>> /\ item[1] \in Files /\ item[2] = k
    BY <1>0, <2>2 DEF Cleaner
  <2>4. Owns(item[1], k) /\ <<item[1], k>> \in cleaner[c].todo
    BY <2>2, <2>3 DEF Owns
  <2>5. item[1] = f
    BY <1>1, <2>3, <2>4 DEF Apart
  <2>6. Is(f, "GONE") \/ (Is(f, "TRASH") /\ node[f].due)
    BY <1>1, <2>4, <2>5 DEF Overdue
  <2>7. ~Is(f, "GONE")
    <3>1. Is(f, "GONE") => node[f].key = None /\ history[f] = NoHistory
      BY DEF Base, TypeOK, Occupied, Exists, Is
    <3>2. Is(f, "GONE") => Contents(f) = {}
      BY <3>1 DEF Contents, NoHistory
    <3> QED BY <3>2
  <2> QED BY <2>6, <2>7
<1>4. ASSUME NEW g \in Files, Holds(g) PROVE FALSE
  BY <1>1, <1>4, HoldEffect
<1> QED BY <1>1, <1>2, <1>3, <1>4 DEF Next, Holds, vars

-----------------------------------------------------------------------------
(* Of one version of a file there is one content *)

HistoryIsPast ==
    \A f \in Files, v \in Versions : history[f][v] # None => v < node[f].version

\* What a request read is the content of the version that it read.
ReadIsOfVersion ==
    \A p \in Procs, f \in Files : Changes(p, f) =>
       /\ req[p].version <= node[f].version
       /\ req[p].version = node[f].version => req[p].old = node[f].key
       /\ req[p].old # None
       /\ history[f][req[p].version] \in {None, req[p].old}

ReadersAgree ==
    \A p, q \in Procs, f \in Files :
       Changes(p, f) /\ Changes(q, f) /\ req[p].version = req[q].version => req[p].old = req[q].old

KeyOfVersion == HistoryIsPast /\ ReadIsOfVersion /\ ReadersAgree

LEMMA KeyQuiet ==
  ASSUME Base, KeyOfVersion, NEW p \in Procs, Handle(p), ~UploadInsert(p), ~VersionCommit(p)
  PROVE  KeyOfVersion'
<1>0. /\ \A q \in Procs : q # p => req'[q] = req[q]
      /\ \A f \in Files : node[f].version \in Nat
      /\ \A q \in Procs : req[q].version \in Versions
      /\ \A v \in Versions : v \in Nat
      /\ \A f \in Files : node[f].version \in Versions
  BY RequestStep DEF Base, TypeOK, Node, Versions, Request
<1>1. /\ history' = history
      /\ \A f \in Files : /\ node'[f].key = node[f].key
                          /\ node'[f].version \in {node[f].version, node[f].version + 1}
  BY QuietRows
<1>2. ASSUME NEW f \in Files, Changes(p, f)'
      PROVE  \/ /\ Changes(p, f) /\ req'[p].old = req[p].old /\ req'[p].version = req[p].version
             \/ /\ node[f].key # None /\ node' = node
                /\ req'[p].old = node[f].key /\ req'[p].version = node[f].version
  BY <1>2, QuietRequest DEF Base, TypeOK, Is
<1>3. HistoryIsPast'
  BY <1>0, <1>1 DEF KeyOfVersion, HistoryIsPast
<1>4. ASSUME NEW q \in Procs, NEW f \in Files, Changes(q, f)'
      PROVE  /\ req'[q].version <= node'[f].version
             /\ req'[q].version = node'[f].version => req'[q].old = node'[f].key
             /\ req'[q].old # None
             /\ history'[f][req'[q].version] \in {None, req'[q].old}
  <2>1. CASE Changes(q, f) /\ req'[q].old = req[q].old /\ req'[q].version = req[q].version
    <3>1. /\ req[q].version <= node[f].version /\ req[q].old # None
          /\ req[q].version = node[f].version => req[q].old = node[f].key
          /\ history[f][req[q].version] \in {None, req[q].old}
      BY <2>1 DEF KeyOfVersion, ReadIsOfVersion
    <3>2. req[q].version \in Nat /\ node[f].version \in Nat
      BY <1>0
    <3>3. node'[f].version \in {node[f].version, node[f].version + 1}
          /\ node'[f].key = node[f].key /\ history' = history
      BY <1>1
    <3> QED BY <2>1, <3>1, <3>2, <3>3
  <2>2. CASE /\ node[f].key # None /\ node' = node
             /\ req'[q].old = node[f].key /\ req'[q].version = node[f].version
    <3>1. history[f][node[f].version] = None
      <4>1. history[f][node[f].version] # None => node[f].version < node[f].version
        BY <1>0 DEF KeyOfVersion, HistoryIsPast
      <4> QED BY <1>0, <4>1
    <3> QED BY <1>0, <1>1, <2>2, <3>1
  <2>3. CASE q # p
    BY <1>0, <1>4, <2>1, <2>3 DEF Changes
  <2> QED BY <1>2, <1>4, <2>1, <2>2, <2>3
<1>5. ASSUME NEW q \in Procs, NEW r \in Procs, NEW f \in Files, Changes(q, f)', Changes(r, f)',
             req'[q].version = req'[r].version
      PROVE  req'[q].old = req'[r].old
  <2>1. ASSUME NEW s \in Procs, Changes(s, f)'
        PROVE  \/ Changes(s, f) /\ req'[s].old = req[s].old /\ req'[s].version = req[s].version
               \/ node' = node /\ req'[s].old = node[f].key /\ req'[s].version = node[f].version
    BY <1>0, <1>2, <2>1 DEF Changes
  <2>2. \A s \in Procs : Changes(s, f) /\ req[s].version = node[f].version => req[s].old = node[f].key
    BY DEF KeyOfVersion, ReadIsOfVersion
  <2> QED BY <1>5, <2>1, <2>2 DEF KeyOfVersion, ReadersAgree
<1> QED BY <1>3, <1>4, <1>5 DEF KeyOfVersion, ReadIsOfVersion, ReadersAgree

LEMMA KeyCommit ==
  ASSUME Base, KeyOfVersion, NEW p \in Procs, VersionCommit(p)
  PROVE  KeyOfVersion'
<1>0. PICK g \in Files : g = req[p].file
  BY CommitEffect
<1>1. /\ Changes(p, g) /\ req[p].version \in Versions /\ \A q \in Procs : q # p => req'[q] = req[q]
      /\ \A f \in Files : ~Changes(p, f)'
      /\ \A f \in Files : f # g => node'[f] = node[f] /\ history'[f] = history[f]
  BY <1>0, CommitEffect
<1>2. /\ \A f \in Files : node[f].version \in Nat
      /\ \A v \in Versions : v \in Nat
      /\ \A q \in Procs : req[q].version \in Versions
  BY DEF Base, TypeOK, Node, Versions, Request
<1>3. CASE node' = node /\ history' = history
  <2>1. \A q \in Procs, f \in Files : Changes(q, f)' => Changes(q, f) /\ req'[q] = req[q]
    BY <1>1 DEF Changes
  <2>2. HistoryIsPast'
    BY <1>3 DEF KeyOfVersion, HistoryIsPast
  <2>3. ReadIsOfVersion'
    BY <1>3, <2>1 DEF KeyOfVersion, ReadIsOfVersion
  <2>4. ReadersAgree'
    BY <2>1 DEF KeyOfVersion, ReadersAgree
  <2> QED BY <2>2, <2>3, <2>4 DEF KeyOfVersion
<1>4. CASE /\ node'[g].key = req[p].key
           /\ node'[g].version = node[g].version + 1
           /\ \A v \in Versions : history'[g][v] =
                 IF v = req[p].version /\ history[g][v] = None THEN req[p].old ELSE history[g][v]
  <2>1. ASSUME NEW q \in Procs, NEW f \in Files, Changes(q, f)'
        PROVE  Changes(q, f) /\ req'[q] = req[q]
    BY <1>1, <2>1 DEF Changes
  <2>2. req[p].version <= node[g].version
    BY <1>1 DEF KeyOfVersion, ReadIsOfVersion
  <2>3. HistoryIsPast'
    <3>1. \A v \in Versions : history'[g][v] # None => v < node'[g].version
      BY <1>1, <1>2, <1>4, <2>2 DEF KeyOfVersion, HistoryIsPast
    <3> QED BY <1>1, <3>1 DEF KeyOfVersion, HistoryIsPast
  <2>4. ASSUME NEW q \in Procs, NEW f \in Files, Changes(q, f)'
        PROVE  /\ req'[q].version <= node'[f].version
               /\ req'[q].version = node'[f].version => req'[q].old = node'[f].key
               /\ req'[q].old # None
               /\ history'[f][req'[q].version] \in {None, req'[q].old}
    <3>1. /\ Changes(q, f) /\ req'[q] = req[q]
          /\ req[q].version <= node[f].version /\ req[q].old # None
          /\ req[q].version = node[f].version => req[q].old = node[f].key
          /\ history[f][req[q].version] \in {None, req[q].old}
      BY <2>1, <2>4 DEF KeyOfVersion, ReadIsOfVersion
    <3>2. CASE f # g
      BY <1>1, <3>1, <3>2
    <3>3. CASE f = g
      <4>1. req[q].version = req[p].version => req[q].old = req[p].old
        BY <1>1, <3>1, <3>3 DEF KeyOfVersion, ReadersAgree
      <4>2. history'[g][req[q].version] \in {None, req[q].old}
        BY <1>2, <1>4, <3>1, <3>3, <4>1
      <4>3. req[q].version < node'[g].version
        BY <1>2, <1>4, <3>1, <3>3
      <4>4. node'[g].version \in Nat /\ req[q].version \in Nat
        BY <1>2, <1>4
      <4> QED BY <3>1, <3>3, <4>2, <4>3, <4>4
    <3> QED BY <3>2, <3>3
  <2>5. ReadersAgree'
    BY <2>1 DEF KeyOfVersion, ReadersAgree
  <2> QED BY <2>3, <2>4, <2>5 DEF KeyOfVersion, ReadIsOfVersion
<1> QED BY <1>0, <1>3, <1>4, CommitEffect

LEMMA KeyStep == Base /\ KeyOfVersion /\ [Next]_vars => KeyOfVersion'
<1> SUFFICES ASSUME Base, KeyOfVersion, [Next]_vars PROVE KeyOfVersion'
  OBVIOUS
<1>0. \A q \in Procs, f \in Files : Changes(q, f) => ~node[f].due /\ Exists(f)
  BY DEF Base, Busy, Changes, Files, None
<1>1. ASSUME \A q \in Procs, f \in Files : Changes(q, f)' =>
                /\ Changes(q, f) /\ req'[q] = req[q]
                /\ history'[f] = history[f]
                /\ node'[f].key = node[f].key /\ node'[f].version = node[f].version,
             \A f \in Files : \/ history'[f] = history[f] /\ node'[f].version = node[f].version
                              \/ history'[f] = NoHistory
      PROVE  KeyOfVersion'
  <2>1. HistoryIsPast'
    BY <1>1 DEF KeyOfVersion, HistoryIsPast, NoHistory
  <2>2. ReadIsOfVersion'
    BY <1>1 DEF KeyOfVersion, ReadIsOfVersion
  <2>3. ReadersAgree'
    BY <1>1 DEF KeyOfVersion, ReadersAgree
  <2> QED BY <2>1, <2>2, <2>3 DEF KeyOfVersion
<1>2. CASE UNCHANGED vars
  BY <1>1, <1>2 DEF vars, Changes
<1>3. ASSUME NEW p \in Procs, UploadInsert(p) PROVE KeyOfVersion'
  <2>1. \A q \in Procs, f \in Files : Changes(q, f)' => Changes(q, f) /\ req'[q] = req[q]
    BY <1>3, InsertEffect DEF Changes
  <2>2. \A f \in Files : node'[f] = node[f] \/ (Is(f, "NONE") /\ history[f] = NoHistory)
    BY <1>3, InsertEffect DEF Base, Occupied, Exists, Is
  <2>3. history' = history
    BY <1>3, InsertEffect
  <2>4. \A q \in Procs, f \in Files : Changes(q, f)' => node'[f] = node[f]
    BY <1>0, <2>1, <2>2 DEF Exists, Is
  <2> QED BY <1>1, <2>1, <2>2, <2>3, <2>4
<1>4. ASSUME NEW c \in Cleaners, Clean(c) PROVE KeyOfVersion'
  <2>1. /\ req' = req
        /\ \A f \in Files : \/ node'[f] = node[f] /\ history'[f] = history[f]
                            \/ node[f].due /\ history'[f] = NoHistory
    BY <1>4, CleanEffect
  <2> QED BY <1>0, <1>1, <2>1 DEF Changes
<1>5. ASSUME NEW g \in Files, Holds(g) PROVE KeyOfVersion'
  BY <1>1, <1>5, HoldEffect DEF Changes
<1> QED BY <1>2, <1>3, <1>4, <1>5, KeyQuiet, KeyCommit DEF Next, Holds

\* What a commit takes from a file is archived, if the commit read it.
LEMMA LostStep == Base /\ KeyOfVersion /\ [Next]_vars =>
  \A f \in Files : node'[f].status # "GONE" =>
     \A k \in Contents(f) :
        \/ k \in Contents(f)'
        \/ k = node[f].key /\ \E p \in Touching(f) : At(p, "commit") /\ req[p].old # k
<1> SUFFICES ASSUME Base, KeyOfVersion, [Next]_vars,
                    NEW f \in Files, node'[f].status # "GONE", NEW k \in Contents(f)
             PROVE  \/ k \in Contents(f)'
                    \/ k = node[f].key /\ \E p \in Touching(f) : At(p, "commit") /\ req[p].old # k
  OBVIOUS
<1>1. CASE node'[f].key = node[f].key /\ history'[f] = history[f]
  BY <1>1, ContentsSame
<1>2. CASE UNCHANGED vars
  BY <1>1, <1>2 DEF vars
<1>3. ASSUME NEW p \in Procs, UploadInsert(p) PROVE k \in Contents(f)'
  <2>1. Is(f, "NONE") => node[f].key = None /\ history[f] = NoHistory
    BY DEF Base, TypeOK, Occupied, Exists, Is
  <2>2. ~Is(f, "NONE")
    BY <2>1 DEF Contents, NoHistory
  <2>3. node'[f] = node[f] /\ history'[f] = history[f]
    BY <1>3, <2>2, InsertEffect
  <2> QED BY <2>3, ContentsSame
<1>4. ASSUME NEW p \in Procs, VersionCommit(p)
      PROVE  \/ k \in Contents(f)'
             \/ k = node[f].key /\ p \in Touching(f) /\ At(p, "commit") /\ req[p].old # k
  <2>1. /\ req[p].version \in Versions /\ Changes(p, req[p].file) /\ At(p, "commit")
        /\ req[p].file # f => node'[f] = node[f] /\ history'[f] = history[f]
    BY <1>4, CommitEffect DEF VersionCommit
  <2>2. CASE f # req[p].file \/ (node' = node /\ history' = history)
    BY <1>1, <2>1, <2>2, ContentsSame
  <2>3. CASE /\ f = req[p].file
             /\ \A v \in Versions : history'[f][v] =
                   IF v = req[p].version /\ history[f][v] = None THEN req[p].old ELSE history[f][v]
    <3>1. CASE \E v \in Versions : history[f][v] = k
      <4>1. PICK v \in Versions : history[f][v] = k
        BY <3>1
      <4>2. history'[f][v] = k
        BY <2>3, <4>1 DEF Contents
      <4> QED BY <4>1, <4>2 DEF Contents
    <3>2. CASE k = node[f].key
      <4>1. CASE req[p].old = k
        <5>1. history[f][req[p].version] \in {None, k}
          BY <2>1, <2>3, <4>1 DEF KeyOfVersion, ReadIsOfVersion
        <5>2. history'[f][req[p].version] = k
          BY <2>1, <2>3, <4>1, <5>1 DEF Contents
        <5> QED BY <2>1, <5>2 DEF Contents
      <4>2. CASE req[p].old # k
        BY <2>1, <2>3, <3>2, <4>2 DEF Touching
      <4> QED BY <4>1, <4>2
    <3> QED BY <3>1, <3>2 DEF Contents
  <2> QED BY <1>4, <2>2, <2>3, CommitEffect
<1>5. ASSUME NEW p \in Procs, Handle(p), ~UploadInsert(p), ~VersionCommit(p)
      PROVE  k \in Contents(f)'
  BY <1>5, QuietRows, ContentsSame
<1>6. ASSUME NEW c \in Cleaners, Clean(c) PROVE k \in Contents(f)'
  BY <1>6, CleanEffect, ContentsSame DEF Is
<1>7. ASSUME NEW g \in Files, Holds(g) PROVE k \in Contents(f)'
  BY <1>7, HoldEffect, ContentsSame
<1> QED BY <1>2, <1>3, <1>4, <1>5, <1>6, <1>7 DEF Next, Holds

-----------------------------------------------------------------------------
(* What a request stores is its own until it is committed *)

\* p has made a key, and has not committed it yet.
Stores(p) == req[p].pc \in {"put", "insert", "commit"} /\ ~req[p].restores

\* Somebody else than p refers to the content k.
Shared(k, p) ==
    \/ \E f \in Files : k \in Contents(f)
    \/ \E q \in Procs \ {p} : k \in {req[q].key, req[q].old}
    \/ \E c \in Cleaners, f \in Files : <<f, k>> \in cleaner[c].todo

KeysMade == \A p \in Procs : req[p].key <= made /\ req[p].old <= made

StoredAlone ==
    \A p \in Procs : Stores(p) =>
       /\ ~Shared(req[p].key, p)
       /\ ~At(p, "put") => req[p].key \in store

\* What a request restores stays in the history of its file.
RestoredIsOlder ==
    \A p \in Procs : req[p].restores => At(p, "commit") /\ req[p].key \in Older(req[p].file)

OwnKeys == KeysMade /\ StoredAlone /\ RestoredIsOlder

\* The step leaves p at pc, with what it had read and made.
Moves(p, pc) ==
    /\ req'[p].pc = pc /\ req'[p].file = req[p].file /\ req'[p].key = req[p].key
    /\ req'[p].old = req[p].old /\ req'[p].restores = req[p].restores

LEMMA GotoMoves ==
  ASSUME req \in [Procs -> Request], NEW p \in Procs, NEW pc, Goto(p, pc)
  PROVE  Moves(p, pc)
BY DEF Goto, Moves, Request

\* A request ends, goes on, or begins with what it has read.
LEMMA RequestMoves ==
  ASSUME Base, RestoredIsOlder, NEW p \in Procs, Handle(p)
  PROVE  \/ req'[p] = NoRequest /\ made' = made
         \/ /\ At(p, "put") /\ req[p].key \in store' /\ made' = made
            /\ Moves(p, IF req[p].file = None THEN "insert" ELSE "commit")
         \/ /\ req[p].pc \in {"insert", "commit"} /\ ~req[p].restores /\ made' = made
            /\ Moves(p, "drop")
         \/ /\ At(p, "idle") /\ made' = made + 1 /\ req'[p].key = made + 1 /\ req'[p].pc = "put"
            /\ ~req'[p].restores
            /\ \/ req'[p].old = None /\ req'[p].file = None
               \/ \E f \in Files : /\ Is(f, "LIVE") /\ req'[p].old = node[f].key
                                   /\ req'[p].file = f
         \/ /\ At(p, "idle") /\ made' = made /\ req'[p].restores /\ req'[p].pc = "commit"
            /\ \E f \in Files : /\ Is(f, "LIVE") /\ req'[p].old = node[f].key
                                /\ req'[p].file = f /\ req'[p].key \in Older(f)
         \/ /\ At(p, "idle") /\ made' = made /\ req'[p].pc \in {"rename", "trash"}
            /\ req'[p].key = None /\ req'[p].old = None /\ ~req'[p].restores
<1>0. req \in [Procs -> Request] /\ req[p] \in Request
  BY DEF Base, TypeOK
<1>1. ASSUME Finish(p) PROVE req'[p] = NoRequest
  BY <1>0, <1>1 DEF Finish
<1>2. CASE UploadStart(p)
  BY <1>0, <1>2 DEF UploadStart, NoRequest
<1>3. CASE Put(p)
  BY <1>0, <1>1, <1>3, GotoMoves DEF Put
<1>4. CASE UploadInsert(p) \/ VersionCommit(p)
  <2>1. req[p].pc \in {"insert", "commit"} /\ made' = made
    BY <1>4 DEF UploadInsert, VersionCommit, At
  <2>2. Finish(p) \/ (Goto(p, "drop") /\ ~req[p].restores)
    BY <1>4 DEF UploadInsert, VersionCommit, Failed, RestoredIsOlder, At
  <2> QED BY <1>0, <1>1, <2>1, <2>2, GotoMoves
<1>5. CASE Drop(p) \/ Rename(p) \/ Trash(p) \/ Abandon(p)
  BY <1>1, <1>5 DEF Drop, Rename, Trash, Abandon
<1>6. ASSUME NEW f \in Files, VersionRead(p, f)
      PROVE  /\ At(p, "idle") /\ made' = made + 1 /\ req'[p].key = made + 1
             /\ req'[p].pc = "put" /\ ~req'[p].restores
             /\ Is(f, "LIVE") /\ req'[p].old = node[f].key /\ req'[p].file = f
  BY <1>0, <1>6 DEF VersionRead, NoRequest
<1>7. ASSUME NEW f \in Files, NEW v \in Versions, RestoreRead(p, f, v)
      PROVE  /\ At(p, "idle") /\ made' = made /\ req'[p].restores /\ req'[p].pc = "commit"
             /\ Is(f, "LIVE") /\ req'[p].old = node[f].key /\ req'[p].file = f
             /\ req'[p].key \in Older(f)
  BY <1>0, <1>7 DEF RestoreRead, HasVersion, Older, NoRequest
<1>8. ASSUME NEW f \in Files, NEW what \in {"rename", "trash"}, UpdateCheck(p, f, what)
      PROVE  /\ At(p, "idle") /\ made' = made /\ req'[p].pc \in {"rename", "trash"}
             /\ req'[p].key = None /\ req'[p].old = None /\ ~req'[p].restores
  BY <1>0, <1>8 DEF UpdateCheck, NoRequest
<1> QED BY <1>2, <1>3, <1>4, <1>5, <1>6, <1>7, <1>8 DEF Handle

\* What a request does to the rows and the store concerns the contents it refers to.
LEMMA RowsTake ==
  ASSUME Base, NEW p \in Procs, Handle(p)
  PROVE  /\ \A f \in Files : /\ Contents(f)' \subseteq Contents(f) \cup {req[p].key, req[p].old}
                             /\ req[p].pc \in {"idle", "put"} => Contents(f)' = Contents(f)
                             /\ Older(f) \subseteq Older(f)'
         /\ store \ {req[p].key} \subseteq store'
         /\ req[p].pc \in {"idle", "put"} => store \subseteq store'
<1>1. CASE UploadInsert(p)
  <2>1. ASSUME NEW f \in Files
        PROVE  Contents(f)' \subseteq Contents(f) \cup {req[p].key} /\ Older(f)' = Older(f)
    BY <1>1, InsertEffect DEF Contents, Older
  <2> QED BY <1>1, <2>1 DEF UploadInsert, At
<1>2. CASE VersionCommit(p)
  <2>1. ASSUME NEW f \in Files
        PROVE  /\ Contents(f)' \subseteq Contents(f) \cup {req[p].key, req[p].old}
               /\ Older(f) \subseteq Older(f)'
    <3>1. CASE node'[f] = node[f] /\ history'[f] = history[f]
      BY <3>1, ContentsSame DEF Older
    <3>2. CASE /\ node'[f].key = req[p].key
               /\ \A v \in Versions : history'[f][v] = history[f][v]
                                      \/ (history'[f][v] = req[p].old /\ history[f][v] = None)
      BY <3>2 DEF Contents, Older
    <3> QED BY <1>2, <3>1, <3>2, CommitEffect
  <2> QED BY <1>2, <2>1 DEF VersionCommit, At
<1>3. CASE ~UploadInsert(p) /\ ~VersionCommit(p)
  <2>1. \A f \in Files : Contents(f)' = Contents(f) /\ Older(f)' = Older(f)
    BY <1>3, QuietRows, ContentsSame DEF Older
  <2>2. CASE Put(p) \/ Drop(p)
    BY <2>1, <2>2 DEF Put, Drop, At
  <2>3. CASE store' = store
    BY <2>1, <2>3
  <2> QED BY <1>3, <2>2, <2>3 DEF Handle, UploadStart, Abandon, VersionRead, RestoreRead, Rename,
                                  Trash, UpdateCheck
<1> QED BY <1>1, <1>2, <1>3

\* Every content that a file or a cleanup knows was made.
LEMMA KnownIsMade ==
  ASSUME Base, Apart
  PROVE  /\ \A f \in Files : \A k \in Contents(f) : k \in Keys /\ k <= made
         /\ \A c \in Cleaners, f \in Files, k \in Keys : <<f, k>> \in cleaner[c].todo => k <= made
         /\ made \in Nat /\ \A p \in Procs : req[p].key \in Nat /\ req[p].old \in Nat
         /\ \A f \in Files : node[f].key \in Nat
<1>1. /\ \A f \in Files : Contents(f) \subseteq Keys
      /\ made \in Nat /\ \A p \in Procs : req[p].key \in Nat /\ req[p].old \in Nat
      /\ \A f \in Files : node[f].key \in Nat
  BY DEF Base, TypeOK, Node, Request, Contents, Keys, None
<1> QED BY <1>1 DEF Apart, Owns

LEMMA KeysMadeStep ==
  ASSUME Base, Apart, OwnKeys, NEW p \in Procs, Handle(p) PROVE KeysMade'
<1>1. \A q \in Procs : q # p => req'[q] = req[q]
  BY RequestStep DEF Base
<1>2. made \in Nat /\ made' \in {made, made + 1}
  BY RequestMoves, KnownIsMade DEF OwnKeys
<1>3. req'[p].key <= made' /\ req'[p].old <= made'
  <2>1. \A f \in Files : Is(f, "LIVE") => node[f].key <= made
    BY KnownIsMade DEF Base, TypeOK, Is, Contents
  <2>2. \A f \in Files : Older(f) \subseteq Contents(f)
    BY DEF Older, Contents
  <2> QED BY <1>2, <2>1, <2>2, RequestMoves, KnownIsMade, NoRequestFields
          DEF OwnKeys, KeysMade, Moves, None
<1> QED BY <1>1, <1>2, <1>3, KnownIsMade DEF OwnKeys, KeysMade

\* Nobody learns of a content that a request keeps to itself.
LEMMA SharedStep ==
  ASSUME Base, Apart, OwnKeys, NEW p \in Procs, Handle(p), NEW q \in Procs, NEW k \in Keys,
         \/ k = made + 1 /\ q = p /\ At(p, "idle")
         \/ Stores(q) /\ k = req[q].key /\ (q = p => At(p, "put"))
  PROVE  ~Shared(k, q)'
<1>1. cleaner' = cleaner /\ \A r \in Procs : r # p => req'[r] = req[r]
  BY RequestStep DEF Base
<1>2. ~Shared(k, q) /\ (q # p => k <= made)
  <2>1. CASE k = made + 1 /\ q = p
    <3>1. \A j \in Nat : j <= made => j # k
      BY <2>1, KnownIsMade
    <3>2. \A j \in Keys : j \in Nat
      BY DEF Keys
    <3> QED BY <2>1, <3>1, <3>2, KnownIsMade DEF Shared, OwnKeys, KeysMade
  <2>2. CASE Stores(q) /\ k = req[q].key
    BY <2>2 DEF OwnKeys, StoredAlone, KeysMade
  <2> QED BY <2>1, <2>2
<1>3. \A f \in Files : k \notin Contents(f)'
  <2>1. q # p => k \notin {req[p].key, req[p].old}
    BY <1>2 DEF Shared
  <2>2. q = p => req[p].pc \in {"idle", "put"}
    BY DEF At
  <2> QED BY <1>2, <2>1, <2>2, RowsTake DEF Shared
<1>4. q # p => k \notin {req'[p].key, req'[p].old}
  <2> HAVE q # p
  <2>1. k \notin {req[p].key, req[p].old} /\ k <= made /\ k # None
    BY <1>2 DEF Shared, Keys, None
  <2>2. \A f \in Files : Is(f, "LIVE") => k # node[f].key /\ k \notin Older(f)
    BY <1>2, <2>1 DEF Shared, Contents, Older
  <2> QED BY <2>1, <2>2, RequestMoves, KnownIsMade, NoRequestFields DEF Moves, OwnKeys
<1> QED BY <1>1, <1>2, <1>3, <1>4 DEF Shared

LEMMA OwnHandles ==
  ASSUME Base, Apart, OwnKeys, NEW p \in Procs, Handle(p) PROVE OwnKeys'
<1>0. /\ cleaner' = cleaner /\ \A q \in Procs : q # p => req'[q] = req[q]
      /\ req \in [Procs -> Request]
  BY RequestStep DEF Base, TypeOK
<1>1. Base' /\ req' \in [Procs -> Request]
  BY BaseStep DEF Next, Base, TypeOK
<1>2. StoredAlone'
  <2>0. SUFFICES ASSUME NEW q \in Procs, Stores(q)', NEW k \in Keys, k = req'[q].key
                 PROVE  ~Shared(k, q)' /\ (req'[q].pc # "put" => k \in store')
    <3>1. \A q \in Procs : Stores(q)' => req'[q].key \in Keys
      BY <1>1 DEF Stores, Base, Busy, Request
    <3> QED BY <3>1 DEF StoredAlone, Shared, At
  <2>1. CASE q # p
    <3>1. Stores(q) /\ req'[q] = req[q] /\ k = req[q].key
      BY <1>0, <2>0, <2>1 DEF Stores
    <3>2. ~Shared(k, q)'
      BY <2>1, <3>1, SharedStep
    <3>3. k # req[p].key /\ (req[q].pc # "put" => k \in store)
      BY <2>1, <3>1 DEF OwnKeys, StoredAlone, Shared, At
    <3> QED BY <3>1, <3>2, <3>3, RowsTake
  <2>2. CASE q = p
    <3>1. CASE At(p, "put") /\ req[p].key \in store' /\ req'[p].key = req[p].key
               /\ req'[p].restores = req[p].restores
      <4>1. Stores(p) /\ k = req[p].key
        BY <2>0, <2>2, <3>1 DEF Stores, At
      <4>2. ~Shared(k, p)'
        BY <3>1, <4>1, SharedStep
      <4> QED BY <2>2, <3>1, <4>1, <4>2
    <3>2. CASE /\ At(p, "idle") /\ made' = made + 1 /\ req'[p].key = made + 1 /\ req'[p].pc = "put"
      <4>1. ~Shared(k, p)'
        BY <2>0, <2>2, <3>2, SharedStep
      <4> QED BY <2>2, <3>2, <4>1
    <3> QED BY <2>0, <2>2, <3>1, <3>2, RequestMoves, NoRequestFields DEF OwnKeys, Stores, Moves
  <2> QED BY <2>1, <2>2
<1>3. RestoredIsOlder'
  <2>0. SUFFICES ASSUME NEW q \in Procs, req'[q].restores
                 PROVE  /\ req'[q].pc = "commit"
                        /\ \E f \in Files : f = req'[q].file /\ req'[q].key \in Older(f)'
    BY DEF RestoredIsOlder, At, Older
  <2>1. CASE q # p
    <3>1. /\ req'[q] = req[q] /\ req[q].restores /\ req[q].pc = "commit" /\ req[q].file \in Files
          /\ req[q].key \in Older(req[q].file)
      BY <1>0, <2>0, <2>1 DEF OwnKeys, RestoredIsOlder, At, Base, Busy, Request
    <3>2. PICK f \in Files : f = req[q].file
      BY <3>1
    <3> QED BY <3>1, <3>2, RowsTake
  <2>2. CASE q = p
    <3>1. ~(At(p, "put") /\ req[p].restores)
      BY DEF OwnKeys, RestoredIsOlder, At
    <3>2. /\ At(p, "idle") /\ req'[p].pc = "commit"
          /\ \E f \in Files : req'[p].file = f /\ req'[p].key \in Older(f)
      BY <2>0, <2>2, <3>1, RequestMoves, NoRequestFields DEF OwnKeys, Moves
    <3> QED BY <2>2, <3>2, RowsTake
  <2> QED BY <2>1, <2>2
<1> QED BY <1>2, <1>3, KeysMadeStep DEF OwnKeys

LEMMA OwnStep == Base /\ Apart /\ OwnKeys /\ [Next]_vars => OwnKeys'
<1> SUFFICES ASSUME Base, Apart, OwnKeys, [Next]_vars PROVE OwnKeys'
  OBVIOUS
<1>0. /\ store \in SUBSET Keys /\ req \in [Procs -> Request] /\ cleaner \in [Cleaners -> Cleaner]
      /\ history \in [Files -> [Versions -> Keys \cup {None}]]
  BY DEF Base, TypeOK
<1>1. ASSUME req' = req, made' = made,
             \A f \in Files : Contents(f)' \subseteq Contents(f),
             \A c \in Cleaners, f \in Files, k \in Keys :
                <<f, k>> \in cleaner'[c].todo =>
                   (\E d \in Cleaners : <<f, k>> \in cleaner[d].todo) \/ k \in Contents(f),
             \A p \in Procs : Stores(p) /\ req[p].key \in store => req[p].key \in store',
             \A p \in Procs : req[p].restores => Older(req[p].file) \subseteq Older(req[p].file)'
      PROVE  OwnKeys'
  <2>1. \A p \in Procs, k \in Keys : Shared(k, p)' => Shared(k, p)
    BY <1>1 DEF Shared
  <2>2. \A p \in Procs : Stores(p) => req[p].key \in Keys
    BY <1>0 DEF Stores, Base, Busy, Request
  <2>3. StoredAlone'
    BY <1>1, <2>1, <2>2 DEF OwnKeys, StoredAlone, Stores, At
  <2> QED BY <1>1, <2>3 DEF OwnKeys, KeysMade, RestoredIsOlder, At
<1>2. CASE UNCHANGED vars
  BY <1>1, <1>2 DEF vars, Contents, Older
<1>3. ASSUME NEW c \in Cleaners, Clean(c) PROVE OwnKeys'
  <2>1. /\ req' = req /\ made' = made
        /\ \A f \in Files : Contents(f)' \subseteq Contents(f)
    <3>1. \A f \in Files : \/ node'[f] = node[f] /\ history'[f] = history[f]
                           \/ node'[f].key = None /\ history'[f] = NoHistory
      BY <1>3, CleanEffect
    <3> QED BY <1>3, <3>1, CleanEffect, ContentsSame DEF Contents, NoHistory
  <2>2. \A d \in Cleaners, f \in Files, k \in Keys :
           <<f, k>> \in cleaner'[d].todo =>
              (\E e \in Cleaners : <<f, k>> \in cleaner[e].todo) \/ k \in Contents(f)
    <3>1. \A f \in Files, k \in Keys : k = node[f].key => k \in Contents(f)
      BY DEF Contents, Keys, None
    <3> QED BY <1>3, <3>1, CleanEffect
  <2>3. \A p \in Procs : req[p].restores => Older(req[p].file)' = Older(req[p].file)
    <3>1. \A p \in Procs : req[p].restores => req[p].file \in Files /\ ~node[req[p].file].due
      BY <1>0 DEF OwnKeys, RestoredIsOlder, At, Base, Busy, Request
    <3> QED BY <1>3, <2>1, <3>1, CleanEffect DEF Older
  <2>4. \A p \in Procs : Stores(p) /\ req[p].key \in store => req[p].key \in store'
    <3>1. CASE CleanRemove(c)
      <4>1. PICK item \in cleaner[c].todo : store' \in {store, store \ {item[2]}}
        BY <3>1 DEF CleanRemove
      <4>2. item = <<item[1], item[2]>> /\ item[1] \in Files
        BY <1>0, <4>1 DEF Cleaner
      <4>3. \A p \in Procs : Stores(p) => req[p].key # item[2]
        BY <4>1, <4>2 DEF OwnKeys, StoredAlone, Shared
      <4> QED BY <4>1, <4>3
    <3>2. CASE store' = store
      BY <3>2
    <3> QED BY <1>3, <3>1, <3>2 DEF Clean, CleanList, CleanCheck, CleanErase, CleanEnd
  <2> QED BY <1>1, <2>1, <2>2, <2>3, <2>4
<1>4. ASSUME NEW g \in Files, Holds(g) PROVE OwnKeys'
  <2>1. /\ UNCHANGED <<history, store, made, req, cleaner>>
        /\ \A f \in Files : Contents(f)' = Contents(f)
    BY <1>4, HoldEffect, ContentsSame
  <2> QED BY <1>1, <2>1 DEF Older
<1> QED BY <1>2, <1>3, <1>4, OwnHandles DEF Next, Holds

-----------------------------------------------------------------------------
(* The drive is a cabinet of files *)

LEMMA CabinetContents ==
  /\ \A f \in Files : Cabinet!Contents(f) = Contents(f)
  /\ \A k : Cabinet!Known(k) <=> \E f \in Files : k \in Contents(f)
<1>1. \A f \in Files : Cabinet!Contents(f) = Contents(f)
  BY DEF Cabinet!Contents, Contents, Past, Older, Current
<1> QED BY <1>1 DEF Cabinet!Known

\* What a step of one request does to the drafts.
LEMMA DraftsStep ==
  ASSUME NEW p \in Procs, \A q \in Procs : q # p => req'[q] = req[q]
  PROVE  /\ p \notin Changing' => Drafts' \subseteq Drafts
         /\ p \notin Changing' /\ p \notin Changing => Drafts' = Drafts
         /\ p \notin Changing' => Drafts' \in {Drafts, Drafts \ {DraftOf(p)}}
         /\ p \in Changing' /\ p \notin Changing => Drafts' = Drafts \cup {DraftOf(p)'}
         /\ p \in Changing' /\ p \in Changing /\ DraftOf(p)' = DraftOf(p) => Drafts' = Drafts
<1> DEFINE Rest == {DraftOf(q) : q \in Changing \ {p}}
<1>1. Drafts = IF p \in Changing THEN Rest \cup {DraftOf(p)} ELSE Rest
  BY DEF Drafts
<1>2. \A q \in Procs : q # p => (q \in Changing' <=> q \in Changing) /\ DraftOf(q)' = DraftOf(q)
  BY DEF Changing, DraftOf
<1>3. Rest' = Rest
  BY <1>2 DEF Changing
<1>4. Drafts' = IF p \in Changing' THEN Rest \cup {DraftOf(p)'} ELSE Rest
  BY <1>3 DEF Drafts
<1> HIDE DEF Rest
<1> QED BY <1>1, <1>4

\* And to the doubts.
LEMMA DoubtsStep ==
  ASSUME NEW p \in Procs, \A q \in Procs : q # p => req'[q] = req[q]
  PROVE  /\ ~At(p, "drop") /\ req'[p].pc # "drop" => Doubted' = Doubted
         /\ ~At(p, "drop") /\ Moves(p, "drop") => Doubted' = Doubted \cup {req[p].key}
         /\ req'[p].pc # "drop" => Doubted' \in {Doubted, Doubted \ {req[p].key}}
<1> DEFINE Dropping == {q \in Procs : At(q, "drop")}
           Rest == {req[q].key : q \in Dropping \ {p}}
<1>1. Doubted = IF At(p, "drop") THEN Rest \cup {req[p].key} ELSE Rest
  BY DEF Doubted
<1>2. \A q \in Procs : q # p => (q \in Dropping' <=> q \in Dropping) /\ req'[q].key = req[q].key
  BY DEF At
<1>3. Rest' = Rest
  BY <1>2
<1>4. Doubted' = IF req'[p].pc = "drop" THEN Rest \cup {req'[p].key} ELSE Rest
  BY <1>3 DEF Doubted, At
<1> HIDE DEF Rest, Dropping
<1> QED BY <1>1, <1>4 DEF Moves

\* What a step of one cleanup does to the erasures that are decided.
LEMMA DoomedStep ==
  ASSUME NEW c \in Cleaners, \A d \in Cleaners : d # c => cleaner'[d] = cleaner[d]
  PROVE  /\ cleaner[c].pc # "delete" /\ cleaner'[c].pc # "delete" => Doomed' = Doomed
         /\ cleaner'[c].pc # "delete" => Doomed' \in {Doomed, Doomed \ {cleaner[c].file}}
         /\ cleaner[c].pc # "delete" /\ cleaner'[c].pc = "delete" =>
               Doomed' = Doomed \cup {cleaner'[c].file}
<1> DEFINE Deleting == {d \in Cleaners : cleaner[d].pc = "delete"}
           Rest == {cleaner[d].file : d \in Deleting \ {c}}
<1>1. Doomed = IF cleaner[c].pc = "delete" THEN Rest \cup {cleaner[c].file} ELSE Rest
  BY DEF Doomed
<1>2. \A d \in Cleaners : d # c => (d \in Deleting' <=> d \in Deleting)
                                  /\ cleaner'[d].file = cleaner[d].file
  OBVIOUS
<1>3. Rest' = Rest
  BY <1>2
<1>4. Doomed' = IF cleaner'[c].pc = "delete" THEN Rest \cup {cleaner'[c].file} ELSE Rest
  BY <1>3 DEF Doomed
<1> HIDE DEF Rest, Deleting
<1> QED BY <1>1, <1>4

\* A step that leaves the rows alone.
LEMMA RowsSame ==
  ASSUME node' = node, history' = history
  PROVE  UNCHANGED <<State, Current, Past, Ripe, Held>>
BY DEF State, Current, Past, Older, Ripe, Held

\* A request gives up, or goes on unseen.
LEMMA Forgets ==
  ASSUME Base, NEW p \in Procs, \A q \in Procs : q # p => req'[q] = req[q],
         node' = node, history' = history, store' = store, Doomed' = Doomed, req'[p] = NoRequest
  PROVE  Cabinet!Forget
<1>1. p \notin Changing' /\ req'[p].pc # "drop"
  BY NoRequestFields DEF Changing
<1>2. Drafts' \subseteq Drafts /\ Doubted' \subseteq Doubted
  BY <1>1, DraftsStep, DoubtsStep
<1> QED BY <1>2, RowsSame DEF Cabinet!Forget

LEMMA PutStep ==
  ASSUME Base, OwnKeys, NEW p \in Procs, Put(p)
  PROVE  Cabinet!Next \/ UNCHANGED Cabinet!cabinet
<1>0. /\ UNCHANGED <<node, history>> /\ At(p, "put") /\ req[p].key \in Keys
      /\ Doomed' = Doomed /\ \A q \in Procs : q # p => req'[q] = req[q]
  BY RequestStep DEF Put, Handle, Base, Busy, TypeOK, Request, At
<1>1. CASE store' = store /\ req'[p] = NoRequest
  BY <1>0, <1>1, Forgets DEF Cabinet!Next
<1>2. CASE store' = store \cup {req[p].key}
  <2>1. Drafts' \subseteq Drafts /\ Doubted' = Doubted
    <3>1. CASE req'[p] = NoRequest
      <4>1. p \notin Changing' /\ req'[p].pc # "drop"
        BY <3>1, NoRequestFields DEF Changing
      <4> QED BY <1>0, <4>1, DraftsStep, DoubtsStep DEF At
    <3>2. CASE Moves(p, IF req[p].file = None THEN "insert" ELSE "commit")
      <4>1. (p \in Changing' <=> p \in Changing) /\ DraftOf(p)' = DraftOf(p) /\ req'[p].pc # "drop"
        BY <1>0, <3>2 DEF Moves, Changing, DraftOf, At
      <4> QED BY <1>0, <4>1, DraftsStep, DoubtsStep DEF At
    <3> QED BY <1>0, <3>1, <3>2, GotoMoves DEF Put, Finish, Base, TypeOK
  <2>2. ~Cabinet!Known(req[p].key)
    BY <1>0, CabinetContents DEF OwnKeys, StoredAlone, RestoredIsOlder, Stores, Shared, At
  <2>3. Cabinet!Store(req[p].key)
    BY <1>0, <1>2, <2>1, <2>2, RowsSame DEF Cabinet!Store
  <2> QED BY <1>0, <2>3 DEF Cabinet!Next
<1>3. (store' = store /\ Finish(p)) \/ store' = store \cup {req[p].key}
  BY DEF Put
<1>4. Finish(p) => req'[p] = NoRequest
  BY DEF Finish, Base, TypeOK
<1> QED BY <1>1, <1>2, <1>3, <1>4

\* What a request that wrote a row may be unsure of.
LEMMA Doubts ==
  ASSUME Base, NEW p \in Procs, req[p].pc \in {"insert", "commit"},
         \A q \in Procs : q # p => req'[q] = req[q], Finish(p) \/ Goto(p, "drop")
  PROVE  /\ Doubted' = Doubted \/ Doubted' = Doubted \cup {req[p].key}
         /\ Finish(p) => Doubted' = Doubted
         /\ p \notin Changing'
<1>1. CASE Finish(p)
  <2>1. req'[p] = NoRequest
    BY <1>1 DEF Finish, Base, TypeOK
  <2> QED BY <2>1, NoRequestFields, DoubtsStep DEF At, Changing
<1>2. CASE Goto(p, "drop") /\ ~Finish(p)
  <2>1. Moves(p, "drop")
    BY <1>2, GotoMoves DEF Base, TypeOK
  <2> QED BY <1>2, <2>1, DoubtsStep DEF At, Changing, Moves
<1> QED BY <1>1, <1>2

LEMMA InsertStep ==
  ASSUME Base, OwnKeys, NEW p \in Procs, UploadInsert(p)
  PROVE  Cabinet!Next \/ UNCHANGED Cabinet!cabinet
<1>0. /\ UNCHANGED <<history, store>> /\ req[p].pc = "insert" /\ req[p].key \in Keys
      /\ Doomed' = Doomed /\ \A q \in Procs : q # p => req'[q] = req[q]
      /\ node \in [Files -> Node]
  BY RequestStep DEF UploadInsert, Handle, Base, Busy, TypeOK, Request, At
<1>1. req[p].key \in store /\ ~Cabinet!Known(req[p].key)
  BY <1>0, CabinetContents DEF OwnKeys, StoredAlone, RestoredIsOlder, Stores, Shared, At
<1>2. /\ Doubted' = Doubted \/ Doubted' = Doubted \cup {req[p].key}
      /\ Drafts' = Drafts
  <2>1. Finish(p) \/ Goto(p, "drop")
    BY DEF UploadInsert
  <2>2. p \notin Changing
    BY <1>0 DEF Changing
  <2> QED BY <1>0, <2>1, <2>2, Doubts, DraftsStep
<1>3. CASE node' = node
  <2>1. Cabinet!Forget
    BY <1>0, <1>1, <1>2, <1>3, RowsSame DEF Cabinet!Forget
  <2> QED BY <2>1 DEF Cabinet!Next
<1>4. ASSUME NEW f \in Files, Is(f, "NONE"),
             node' = [node EXCEPT ![f] = [NoNode EXCEPT !.status = "LIVE", !.key = req[p].key]]
      PROVE  Cabinet!Add(f, req[p].key)
  <2>1. /\ node'[f].status = "LIVE" /\ node'[f].key = req[p].key /\ ~node'[f].due /\ ~node'[f].held
        /\ \A g \in Files : g # f => node'[g] = node[g]
    BY <1>0, <1>4 DEF NoNode
  <2>2. ~node[f].due /\ ~node[f].held
    BY <1>4 DEF Base, Occupied, Exists, Is
  <2>3. /\ State' = [State EXCEPT ![f] = "LIVE"] /\ Current' = [Current EXCEPT ![f] = req[p].key]
        /\ Ripe' = Ripe /\ Held' = Held /\ Past' = Past
    BY <1>0, <2>1, <2>2 DEF State, Current, Ripe, Held, Past, Older
  <2> QED BY <1>0, <1>1, <1>2, <1>4, <2>3
      DEF Cabinet!Add, Cabinet!Is, Cabinet!MayDoubt, State, Is
<1>5. node' = node \/ \E f \in Files :
         /\ Is(f, "NONE")
         /\ node' = [node EXCEPT ![f] = [NoNode EXCEPT !.status = "LIVE", !.key = req[p].key]]
  BY DEF UploadInsert
<1> QED BY <1>0, <1>3, <1>4, <1>5 DEF Cabinet!Next

LEMMA BeginStep ==
  ASSUME Base, NEW p \in Procs, NEW f \in Files,
         VersionRead(p, f) \/ \E v \in Versions : RestoreRead(p, f, v)
  PROVE  Cabinet!Next
<1>0. /\ UNCHANGED <<node, history, store>> /\ At(p, "idle") /\ Is(f, "LIVE")
      /\ Doomed' = Doomed /\ \A q \in Procs : q # p => req'[q] = req[q]
  BY RequestStep DEF VersionRead, RestoreRead, Handle, Base
<1>1. req'[p].file = f /\ req'[p].old = node[f].key /\ req'[p].pc \in {"put", "commit"}
  <2>1. req \in [Procs -> Request]
    BY DEF Base, TypeOK
  <2>2. CASE VersionRead(p, f)
    BY <2>1, <2>2 DEF VersionRead, NoRequest
  <2>3. ASSUME NEW v \in Versions, RestoreRead(p, f, v)
        PROVE  req'[p].file = f /\ req'[p].old = node[f].key /\ req'[p].pc = "commit"
    BY <2>1, <2>3 DEF RestoreRead, NoRequest
  <2> QED BY <2>2, <2>3
<1>2. p \notin Changing /\ p \in Changing' /\ req'[p].pc # "drop" /\ f # None
  BY <1>0, <1>1 DEF Changing, At, Files, None
<1>3. Drafts' = Drafts \cup {DraftOf(p)'} /\ Doubted' = Doubted
  BY <1>0, <1>2, DraftsStep, DoubtsStep DEF At
<1>4. PICK d : d = DraftOf(p)'
  OBVIOUS
<1>5. d \in Cabinet!Draft /\ d.file = f /\ d.on = node[f].key
  <2>1. Base'
    BY BaseReads
  <2>2. req'[p].key \in Keys
    BY <1>1, <2>1 DEF Base, TypeOK, Busy, Request
  <2>3. node[f].key \in Keys
    BY <1>0 DEF Base, TypeOK, Is, Node
  <2> QED BY <1>1, <1>4, <2>2, <2>3 DEF Cabinet!Draft, DraftOf
<1>6. Cabinet!Begin(d)
  BY <1>0, <1>3, <1>4, <1>5, RowsSame DEF Cabinet!Begin, Cabinet!Is, Is, State, Current
<1> QED BY <1>5, <1>6 DEF Cabinet!Next

LEMMA CommitStep ==
  ASSUME Base, KeyOfVersion, OwnKeys, NEW p \in Procs, VersionCommit(p)
  PROVE  Cabinet!Next
<1>0. /\ store' = store /\ req[p].pc = "commit" /\ req[p].key \in Keys /\ req[p].old \in Keys
      /\ req[p].version \in Versions
      /\ Doomed' = Doomed /\ \A q \in Procs : q # p => req'[q] = req[q]
      /\ node \in [Files -> Node] /\ history \in [Files -> [Versions -> Keys \cup {None}]]
  <2>1. Changes(p, req[p].file) /\ req[p].file \in Files /\ req[p].version \in Versions
    BY CommitEffect
  <2>2. req[p].old # None
    BY <2>1 DEF KeyOfVersion, ReadIsOfVersion
  <2>3. Doomed' = Doomed
    BY RequestStep DEF Base, Handle
  <2> QED BY <2>1, <2>2, <2>3, CommitEffect DEF VersionCommit, Base, Busy, TypeOK, Request, At
<1>1. PICK f \in Files : f = req[p].file /\ f # None /\ Changes(p, f)
  BY CommitEffect DEF Files, None
<1>2. ~req[p].restores => req[p].key \in store /\ ~Cabinet!Known(req[p].key)
  BY <1>0, CabinetContents DEF OwnKeys, StoredAlone, Stores, Shared, At
<1>3. p \in Changing /\ DraftOf(p) \in Cabinet!Draft
  BY <1>0, <1>1 DEF Changing, Cabinet!Draft, DraftOf
<1>4. /\ Finish(p) \/ (Goto(p, "drop") /\ ~req[p].restores)
      /\ req[p].restores => Finish(p)
  BY DEF VersionCommit, Failed
<1>5. /\ Doubted' = Doubted \/ Doubted' = Doubted \cup {req[p].key}
      /\ req[p].restores => Doubted' = Doubted
      /\ Drafts' \in {Drafts, Drafts \ {DraftOf(p)}}
  BY <1>0, <1>4, Doubts, DraftsStep
<1>6. CASE node' = node /\ history' = history
  <2>1. Cabinet!Forget
    BY <1>0, <1>2, <1>5, <1>6, RowsSame DEF Cabinet!Forget
  <2> QED BY <2>1 DEF Cabinet!Next
<1>7. CASE /\ history' = Archive(p)
           /\ node' = [node EXCEPT ![req[p].file].key = req[p].key, ![req[p].file].version = @ + 1]
  <2>1. /\ node'[f].key = req[p].key /\ \A g \in Files : g # f => node'[g] = node[g]
        /\ node'[f].status = node[f].status /\ node'[f].due = node[f].due
        /\ node'[f].held = node[f].held
    BY <1>0, <1>1, <1>7 DEF Node
  <2>2. State' = State /\ Ripe' = Ripe /\ Held' = Held
    BY <2>1 DEF State, Ripe, Held
  <2>3. Current' = [Current EXCEPT ![f] = req[p].key]
    BY <2>1 DEF Current
  <2>4. Past' = [Past EXCEPT ![f] = Past[f] \cup {req[p].old}]
    <3>1. \A v \in Versions : history'[f][v] =
             IF v = req[p].version THEN req[p].old ELSE history[f][v]
      <4>1. history[f][req[p].version] \in {None, req[p].old}
        BY <1>1 DEF KeyOfVersion, ReadIsOfVersion
      <4> QED BY <1>0, <1>1, <1>7, <4>1 DEF Archive
    <3>2. Older(f)' = Older(f) \cup {req[p].old}
      <4>1. history[f][req[p].version] \in {None, req[p].old}
        BY <1>1 DEF KeyOfVersion, ReadIsOfVersion
      <4>2. req[p].old # None
        BY <1>0 DEF Keys, None
      <4> QED BY <1>0, <3>1, <4>1, <4>2 DEF Older
    <3>3. \A g \in Files : g # f => Older(g)' = Older(g)
      BY <1>0, <1>1, <1>7 DEF Archive, Older
    <3> QED BY <3>2, <3>3 DEF Past
  <2>5. State[f] \in {"LIVE", "TRASH"} /\ f \notin Ripe
    BY <1>1 DEF Base, Busy, Exists, State, Ripe
  <2>6. req[p].restores => req[p].key \in Past[f]
    BY <1>1 DEF OwnKeys, RestoredIsOlder, Past
  <2>7. /\ DraftOf(p).file = f /\ DraftOf(p).key = req[p].key /\ DraftOf(p).on = req[p].old
        /\ DraftOf(p) \in Drafts
    BY <1>1, <1>3 DEF DraftOf, Drafts
  <2>8. \/ req[p].key \in store /\ ~Cabinet!Known(req[p].key) /\ Cabinet!MayDoubt(req[p].key)
        \/ req[p].key \in Past[f] /\ Doubted' = Doubted
    BY <1>2, <1>5, <2>6 DEF Cabinet!MayDoubt
  <2>9. Cabinet!Publish(DraftOf(p))
    BY <1>0, <1>5, <2>2, <2>3, <2>4, <2>5, <2>7, <2>8 DEF Cabinet!Publish
  <2> QED BY <1>3, <2>9 DEF Cabinet!Next
<1> QED BY <1>6, <1>7 DEF VersionCommit

LEMMA DropStep ==
  ASSUME Base, NEW p \in Procs, Drop(p)
  PROVE  Cabinet!Next
<1>0. /\ UNCHANGED <<node, history>> /\ req[p].pc = "drop" /\ req[p].key \in Keys
      /\ store' \in {store, store \ {req[p].key}} /\ req'[p] = NoRequest
      /\ Doomed' = Doomed /\ \A q \in Procs : q # p => req'[q] = req[q]
  BY RequestStep DEF Drop, Finish, Handle, Base, Busy, TypeOK, Request, At
<1>1. CASE store' = store
  BY <1>0, <1>1, Forgets DEF Cabinet!Next
<1>2. CASE store' = store \ {req[p].key}
  <2>1. p \notin Changing /\ p \notin Changing' /\ req'[p].pc # "drop"
    BY <1>0, NoRequestFields DEF Changing
  <2>2. Drafts' = Drafts /\ Doubted' \in {Doubted, Doubted \ {req[p].key}}
    BY <1>0, <2>1, DraftsStep, DoubtsStep
  <2>3. req[p].key \in Doubted
    BY <1>0 DEF Doubted, At
  <2>4. Cabinet!Remove(req[p].key)
    BY <1>0, <1>2, <2>2, <2>3, RowsSame DEF Cabinet!Remove
  <2> QED BY <1>0, <2>4 DEF Cabinet!Next
<1> QED BY <1>0, <1>1, <1>2

\* A request that changes no content: it looks, renames or moves to the trash.
LEMMA EditStep ==
  ASSUME Base, NEW p \in Procs,
         \/ UploadStart(p) \/ Rename(p) \/ Trash(p) \/ Abandon(p)
         \/ \E f \in Files, what \in {"rename", "trash"} : UpdateCheck(p, f, what)
  PROVE  Cabinet!Next \/ UNCHANGED Cabinet!cabinet
<1>0. /\ UNCHANGED <<history, store>> /\ Doomed' = Doomed
      /\ \A q \in Procs : q # p => req'[q] = req[q]
      /\ node \in [Files -> Node] /\ req \in [Procs -> Request]
  BY RequestStep DEF UploadStart, Rename, Trash, Abandon, UpdateCheck, Handle, Base, TypeOK
<1>1. CASE Abandon(p)
  <2>1. req'[p] = NoRequest /\ node' = node
    BY <1>0, <1>1 DEF Abandon, Finish
  <2> QED BY <1>0, <2>1, Forgets DEF Cabinet!Next
<1>2. CASE ~Abandon(p)
  <2>1. /\ req[p].pc \in {"idle", "rename", "trash"}
        /\ req'[p].pc \in {"idle", "rename", "trash"} \/ (req'[p].pc = "put" /\ req'[p].file = None)
    <3>1. CASE UploadStart(p)
      <4>1. /\ [NoRequest EXCEPT !.pc = "put", !.key = made + 1, !.seen = Used].pc = "put"
            /\ [NoRequest EXCEPT !.pc = "put", !.key = made + 1, !.seen = Used].file = None
        BY DEF NoRequest
      <4> QED BY <1>0, <3>1, <4>1 DEF UploadStart, At
    <3>2. CASE Rename(p) \/ Trash(p)
      BY <1>0, <3>2, NoRequestFields DEF Rename, Trash, Finish, At
    <3>3. ASSUME NEW f \in Files, NEW what \in {"rename", "trash"}, UpdateCheck(p, f, what)
          PROVE  req[p].pc = "idle" /\ req'[p].pc = what
      BY <1>0, <3>3 DEF UpdateCheck, At, NoRequest
    <3> QED BY <1>2, <3>1, <3>2, <3>3
  <2>2. p \notin Changing /\ p \notin Changing' /\ ~At(p, "drop") /\ req'[p].pc # "drop"
    BY <2>1 DEF Changing, At
  <2>3. Drafts' = Drafts /\ Doubted' = Doubted
    BY <1>0, <2>2, DraftsStep, DoubtsStep
  <2>4. CASE UploadStart(p) \/ \E f \in Files, what \in {"rename", "trash"} : UpdateCheck(p, f, what)
    <3>1. node' = node
      BY <2>4 DEF UploadStart, UpdateCheck
    <3> QED BY <1>0, <2>3, <3>1, RowsSame DEF Cabinet!cabinet
  <2>5. CASE Rename(p) \/ Trash(p)
    <3>1. PICK f \in Files : f = req[p].file /\ Exists(f) /\ ~node[f].due
      BY <1>0, <2>5 DEF Rename, Trash, At, Base, Busy, Request
    <3>2. /\ \A g \in Files : g # f => node'[g] = node[g]
          /\ node'[f].key = node[f].key /\ ~node'[f].due /\ node'[f].held = node[f].held
          /\ node'[f].status \in {node[f].status, "TRASH"}
      BY <1>0, <2>5, <3>1 DEF Rename, Trash, Node
    <3>3. UNCHANGED <<Current, Past, Ripe, Held>>
      BY <1>0, <3>1, <3>2 DEF Current, Past, Older, Ripe, Held
    <3>4. CASE node'[f].status = node[f].status
      <4>1. State' = State
        BY <3>2, <3>4 DEF State
      <4> QED BY <1>0, <2>3, <3>3, <4>1 DEF Cabinet!cabinet
    <3>5. CASE node'[f].status # node[f].status
      <4>1. State' = [State EXCEPT ![f] = "TRASH"] /\ State[f] = "LIVE"
        BY <3>1, <3>2, <3>5 DEF State, Exists, Is
      <4>2. Cabinet!Trash(f)
        BY <1>0, <2>3, <3>3, <4>1 DEF Cabinet!Trash, Cabinet!Is
      <4> QED BY <4>2 DEF Cabinet!Next
    <3> QED BY <3>4, <3>5
  <2> QED BY <1>2, <2>4, <2>5
<1> QED BY <1>1, <1>2

LEMMA CleanStep ==
  ASSUME Base, Apart, Overdue, NEW c \in Cleaners, Clean(c)
  PROVE  Cabinet!Next \/ UNCHANGED Cabinet!cabinet
<1>0. /\ req' = req /\ cleaner \in [Cleaners -> Cleaner] /\ node \in [Files -> Node]
      /\ history \in [Files -> [Versions -> Keys \cup {None}]]
  BY CleanEffect DEF Base, TypeOK
<1>1. Drafts' = Drafts /\ Doubted' = Doubted
  BY <1>0 DEF Drafts, DraftOf, Changing, Doubted, At
<1>2. CASE UNCHANGED <<node, history, store>> /\ Doomed' \subseteq Doomed
  <2>1. Cabinet!Spare
    BY <1>1, <1>2, RowsSame DEF Cabinet!Spare
  <2> QED BY <2>1 DEF Cabinet!Next
<1>3. CASE CleanRemove(c)
  <2>1. PICK item \in cleaner[c].todo :
          /\ store' \in {store, store \ {item[2]}}
          /\ cleaner' \in {[cleaner EXCEPT ![c].pc = "erase", ![c].file = item[1],
                                           ![c].todo = @ \ {item}],
                           [cleaner EXCEPT ![c].todo = @ \ {item}]}
    BY <1>3 DEF CleanRemove
  <2>2. item = <<item[1], item[2]>> /\ item[1] \in Files /\ item[2] \in Keys
    BY <1>0, <2>1 DEF Cleaner
  <2>3. ASSUME NEW f \in Files, item[2] \in Contents(f)
        PROVE  Is(f, "TRASH") /\ node[f].due
    <3>1. Owns(f, item[2]) /\ Owns(item[1], item[2])
      BY <2>1, <2>2, <2>3 DEF Owns
    <3>2. f = item[1]
      BY <2>2, <3>1 DEF Apart
    <3>3. Is(f, "GONE") \/ (Is(f, "TRASH") /\ node[f].due)
      BY <2>1, <2>2, <3>2 DEF Overdue
    <3>4. Is(f, "GONE") => node[f].key = None /\ history[f] = NoHistory
      BY DEF Base, TypeOK, Occupied, Exists, Is
    <3> QED BY <2>3, <3>3, <3>4 DEF Contents, NoHistory
  <2>4. \A f \in Files : item[2] \in Cabinet!Contents(f) => Cabinet!Is(f, "TRASH") /\ f \in Ripe
    BY <2>3, CabinetContents DEF Cabinet!Is, State, Ripe, Is
  <2>5. UNCHANGED <<node, history>>
    BY <1>3 DEF CleanRemove
  <2>6. Doomed' = Doomed
    <3>1. cleaner[c].pc = "remove" /\ cleaner'[c].pc \in {"erase", cleaner[c].pc}
      BY <1>0, <1>3, <2>1 DEF CleanRemove, Cleaner
    <3>2. \A d \in Cleaners : d # c => cleaner'[d] = cleaner[d]
      BY <1>0, <2>1
    <3> QED BY <3>1, <3>2, DoomedStep
  <2>7. CASE store' = store \ {item[2]}
    <3>1. Cabinet!Remove(item[2])
      BY <1>1, <2>4, <2>5, <2>6, <2>7, RowsSame DEF Cabinet!Remove
    <3> QED BY <2>2, <3>1 DEF Cabinet!Next
  <2> QED BY <1>2, <2>1, <2>5, <2>6, <2>7
<1>4. CASE CleanCheck(c)
  <2>1. /\ cleaner'[c].pc = IF StillRemovable(cleaner[c].file) THEN "delete" ELSE "remove"
        /\ cleaner[c].pc = "erase" /\ cleaner'[c].file = cleaner[c].file
        /\ \A d \in Cleaners : d # c => cleaner'[d] = cleaner[d]
        /\ UNCHANGED <<node, history, store>>
    BY <1>0, <1>4 DEF CleanCheck, Cleaner
  <2>2. CASE ~StillRemovable(cleaner[c].file)
    BY <1>2, <2>1, <2>2, DoomedStep
  <2>3. CASE StillRemovable(cleaner[c].file)
    <3>1. PICK f \in Files : f = cleaner[c].file
      BY <1>0 DEF Cleaner
    <3>2. Doomed' = Doomed \cup {f}
      BY <2>1, <2>3, <3>1, DoomedStep
    <3>3. State[f] = "TRASH" /\ f \in Ripe \ Held
      BY <2>3, <3>1 DEF StillRemovable, Removable, Is, State, Ripe, Held
    <3>4. Cabinet!Condemn(f)
      BY <1>1, <2>1, <3>2, <3>3, RowsSame DEF Cabinet!Condemn, Cabinet!Is
    <3> QED BY <3>4 DEF Cabinet!Next
  <2> QED BY <2>2, <2>3
<1>5. CASE CleanErase(c)
  <2>0. PICK f \in Files : f = cleaner[c].file
    BY <1>0 DEF Cleaner
  <2>1. f \in Doomed /\ Doomed' \in {Doomed, Doomed \ {f}}
    <3>1. /\ cleaner[c].pc = "delete" /\ cleaner'[c].pc = "remove"
          /\ \A d \in Cleaners : d # c => cleaner'[d] = cleaner[d]
      BY <1>0, <1>5 DEF CleanErase, Cleaner
    <3>2. f \in Doomed
      BY <2>0, <3>1 DEF Doomed
    <3> QED BY <2>0, <3>1, <3>2, DoomedStep
  <2>a. CASE UNCHANGED <<node, history>>
    BY <1>2, <1>5, <2>1, <2>a DEF CleanErase
  <2>b. CASE /\ Is(f, "TRASH") /\ node[f].due
             /\ node' = [node EXCEPT ![f] = [NoNode EXCEPT !.status = "GONE",
                                                           !.held = node[f].held]]
             /\ history' = [history EXCEPT ![f] = NoHistory]
    <3>1. store' = store
      BY <1>5 DEF CleanErase
    <3>3. /\ node'[f].status = "GONE" /\ node'[f].key = None /\ ~node'[f].due
          /\ node'[f].held = node[f].held /\ \A g \in Files : g # f => node'[g] = node[g]
      BY <1>0, <2>b DEF NoNode
    <3>4. Older(f)' = {} /\ \A g \in Files : g # f => Older(g)' = Older(g)
      BY <1>0, <2>b DEF Older, NoHistory
    <3>5. /\ State' = [State EXCEPT ![f] = "GONE"] /\ Current' = [Current EXCEPT ![f] = None]
          /\ Past' = [Past EXCEPT ![f] = {}]
      BY <3>3, <3>4 DEF State, Current, Past
    <3>6. Ripe' = Ripe \ {f} /\ Held' = Held
      BY <2>b, <3>3 DEF Ripe, Held
    <3>7. State[f] = "TRASH" /\ f \in Ripe
      BY <2>b DEF Is, State, Ripe
    <3>8. \A d \in Drafts : d.file # f
      <4>1. \A p \in Changing : req[p].file # f
        BY <2>b DEF Changing, Base, Busy
      <4> QED BY <4>1 DEF Drafts, DraftOf
    <3>9. Cabinet!Erase(f)
      BY <1>1, <2>1, <3>1, <3>5, <3>6, <3>7, <3>8 DEF Cabinet!Erase, Cabinet!Is
    <3> QED BY <3>9 DEF Cabinet!Next
  <2> QED BY <1>5, <2>0, <2>a, <2>b DEF CleanErase
<1>6. CASE CleanList(c) \/ CleanEnd(c)
  <2>1. /\ cleaner'[c].pc # "delete" /\ \A d \in Cleaners : d # c => cleaner'[d] = cleaner[d]
        /\ UNCHANGED <<node, history, store>>
    BY <1>0, <1>6, EmptyRecords DEF CleanList, CleanEnd, Cleaner
  <2>2. Doomed' \subseteq Doomed
    BY <2>1, DoomedStep
  <2> QED BY <1>2, <2>1, <2>2
<1> QED BY <1>3, <1>4, <1>5, <1>6 DEF Clean

LEMMA HoldsStep ==
  ASSUME Base, NEW f \in Files, Holds(f)
  PROVE  Cabinet!Next \/ UNCHANGED Cabinet!cabinet
<1>0. /\ UNCHANGED <<history, store, req, cleaner>> /\ node \in [Files -> Node]
  BY HoldEffect DEF Base, TypeOK
<1>1. Drafts' = Drafts /\ Doubted' = Doubted /\ Doomed' = Doomed
  BY <1>0 DEF Drafts, DraftOf, Changing, Doubted, Doomed, At
<1>2. UNCHANGED <<State, Current, Past>>
  BY <1>0, HoldEffect DEF State, Current, Past, Older
<1>3. CASE node' = node
  BY <1>0, <1>1, <1>3, RowsSame DEF Cabinet!cabinet
<1>4. CASE (HoldInsert(f) \/ Release(f)) /\ ~UNCHANGED node
  <2>1. PICK held \in BOOLEAN : node' = [node EXCEPT ![f].held = held]
    BY <1>4 DEF HoldInsert, Release
  <2>2. /\ \A g \in Files : g # f => node'[g] = node[g]
        /\ node'[f].due = node[f].due /\ node'[f].held = held
    BY <1>0, <2>1 DEF Node
  <2>3. Ripe' = Ripe /\ Held' \in {Held \cup {f}, Held \ {f}}
    BY <2>2 DEF Ripe, Held
  <2>4. State[f] # "NONE"
    BY <1>4 DEF HoldInsert, Release, Base, Occupied, Is, State
  <2>5. Cabinet!HoldOrRelease(f)
    BY <1>0, <1>1, <1>2, <2>3, <2>4 DEF Cabinet!HoldOrRelease, Cabinet!Is
  <2> QED BY <2>5 DEF Cabinet!Next
<1>5. CASE RetentionPasses(f)
  <2>1. /\ \A g \in Files : g # f => node'[g] = node[g]
        /\ node'[f].due /\ node'[f].held = node[f].held /\ Is(f, "TRASH")
    BY <1>0, <1>5 DEF RetentionPasses, Node
  <2>2. Ripe' = Ripe \cup {f} /\ Held' = Held
    BY <2>1 DEF Ripe, Held
  <2>3. Cabinet!Ripen(f)
    BY <1>0, <1>1, <1>2, <2>1, <2>2 DEF Cabinet!Ripen, Cabinet!Is, State, Is
  <2> QED BY <2>3 DEF Cabinet!Next
<1> QED BY <1>3, <1>4, <1>5 DEF Holds, HoldCheck

LEMMA CabinetInit == Init => Cabinet!Init
<1> SUFFICES ASSUME Init PROVE Cabinet!Init
  OBVIOUS
<1>1. State = [f \in Files |-> "NONE"] /\ Current = [f \in Files |-> None] /\ Ripe = {} /\ Held = {}
  BY EmptyRecords DEF Init, State, Current, Ripe, Held
<1>4. Doomed = {}
  BY EmptyRecords DEF Init, Doomed
<1>2. Past = [f \in Files |-> {}]
  BY DEF Init, Past, Older, NoHistory
<1>3. Drafts = {} /\ Doubted = {} /\ store = {}
  BY NoRequestFields DEF Init, Drafts, Changing, Doubted, At
<1> QED BY <1>1, <1>2, <1>3, <1>4 DEF Cabinet!Init

LEMMA CabinetStep ==
  Base /\ Apart /\ Overdue /\ KeyOfVersion /\ OwnKeys /\ [Next]_vars => [Cabinet!Next]_(Cabinet!cabinet)
<1> SUFFICES ASSUME Base, Apart, Overdue, KeyOfVersion, OwnKeys, [Next]_vars
             PROVE  Cabinet!Next \/ UNCHANGED Cabinet!cabinet
  OBVIOUS
<1>1. CASE UNCHANGED vars
  BY <1>1, RowsSame
  DEF vars, Cabinet!cabinet, Drafts, DraftOf, Changing, Doubted, Doomed, At
<1>2. ASSUME NEW p \in Procs, Handle(p) PROVE Cabinet!Next \/ UNCHANGED Cabinet!cabinet
  BY <1>2, PutStep, InsertStep, BeginStep, CommitStep, DropStep, EditStep DEF Handle
<1> QED BY <1>1, <1>2, CleanStep, HoldsStep DEF Next, Holds

-----------------------------------------------------------------------------
DInv == Base /\ Checked /\ Apart /\ Overdue /\ KeyOfVersion /\ OwnKeys

LEMMA InitDInv == Init => DInv
<1> SUFFICES ASSUME Init PROVE DInv
  OBVIOUS
<1>1. Base /\ Checked
  BY InitBase, EmptyRecords DEF Init, Checked, Uploads
<1>2. /\ \A f \in Files : Contents(f) = {} /\ history[f] = NoHistory
      /\ \A c \in Cleaners : cleaner[c].todo = {}
      /\ \A p \in Procs, f \in Files : ~Changes(p, f)
      /\ \A p \in Procs, k \in Keys : ~Brings(p, k)
  BY EmptyRecords DEF Init, Contents, NoHistory, Changes, Brings
<1>3. \A f \in Files, k \in Keys : ~Owns(f, k)
  BY <1>2 DEF Owns
<1>4. Apart /\ Overdue
  BY <1>2, <1>3 DEF Apart, Overdue
<1>5. KeyOfVersion
  BY <1>2 DEF KeyOfVersion, HistoryIsPast, ReadIsOfVersion, ReadersAgree, NoHistory
<1>6. OwnKeys
  BY NoRequestFields DEF Init, OwnKeys, KeysMade, StoredAlone, RestoredIsOlder, Stores, None
<1> QED BY <1>1, <1>4, <1>5, <1>6 DEF DInv

\* The inductive invariant of the drive: what a request works on exists and is not overdue, an
\* upload was checked against a usage that left room for it, each content belongs to one file, what a cleanup has listed stays overdue, of one version there is
\* one content, and nobody knows what a request has stored before it is committed (drive.go,
\* cleanupDriveRetention).
THEOREM DriveInvariant == Spec => []DInv
<1>1. DInv /\ [Next]_vars => DInv'
  BY BaseStep, CheckedStep, ApartStep, OverdueStep, KeyStep, OwnStep DEF DInv
<1> QED BY <1>1, InitDInv, PTL DEF Spec

\* Every variable of Drive keeps its type; a file has a content while it is live or in the trash.
THEOREM DriveTypeCorrect == Spec => []TypeOK
<1>1. DInv => TypeOK
  BY DEF DInv, Base
<1> QED BY <1>1, DriveInvariant, PTL

\* For any requests, sizes and limit, what takes the usage past the quota is an upload that the
\* usage has outrun since its check, or a version or restore, that nobody checks (driveUpload,
\* driveVersions, enforceTenantQuota).
THEOREM OvershootNeedsOvertaking == Spec => OvershootIsLate
<1> DEFINE Step == Used' > Used /\ Used' > Limit =>
         \E p \in Procs : /\ req'[p] # req[p]
                          /\ \/ At(p, "insert") /\ req[p].seen < Used
                             \/ At(p, "commit")
<1>1. DInv /\ [Next]_vars => [Step]_vars
  BY LateStep DEF DInv
<1> QED BY <1>1, DriveInvariant, PTL DEF OvershootIsLate, Spec

\* For any requests and cleanups, a content drops out of its file only when two changes of one
\* version overlapped (driveVersions, driveVersionRestore).
THEOREM VersionsAreKept == Spec => LostOnlyToOverlap
<1> DEFINE Step == \A f \in Files :
         node'[f].status # "GONE" =>
           \A k \in Contents(f) : \/ k \in Contents(f)'
                                 \/ /\ k = node[f].key
                                    /\ \E p \in Touching(f) : At(p, "commit") /\ req[p].old # k
<1>1. DInv /\ [Next]_vars => [Step]_vars
  BY LostStep DEF DInv
<1> QED BY <1>1, DriveInvariant, PTL DEF LostOnlyToOverlap, Spec

\* For any cleanups, what one has listed is still overdue trash when it removes the object; all
\* else is removed by the request that stored it (cleanupDriveRetention, driveUpload).
THEOREM CleanupsRemoveTrash == Spec => RemovedOnlyAsTrash
<1> DEFINE Step == \A f \in Files : \A k \in Contents(f) \cap store :
         k \notin store' =>
           \/ \E p \in Procs : At(p, "drop") /\ req[p].key = k
           \/ Is(f, "TRASH") /\ node[f].due
<1>1. DInv /\ [Next]_vars => [Step]_vars
  BY RemoveStep DEF DInv
<1> QED BY <1>1, DriveInvariant, PTL DEF RemovedOnlyAsTrash, Spec

\* For any requests and cleanups, a file under a hold that no DELETE has looked at before keeps its
\* row while it is held, though a cleanup had listed it, and no later cleanup lists it; a hold
\* placed after the look may come too late (cleanupDriveRetention, legalHoldResource).
THEOREM HoldsKeepFiles == Spec => HeldIsKept
<1> DEFINE Step == \A f \in Files :
         /\ Safe(f) => ~node'[f].held \/ Safe(f)'
         /\ node[f].held =>
               \A c \in Cleaners, k \in Keys :
                  <<f, k>> \in cleaner'[c].todo => <<f, k>> \in cleaner[c].todo
<1>1. DInv /\ [Next]_vars => [Step]_vars
  BY HoldStep DEF DInv
<1> QED BY <1>1, DriveInvariant, PTL DEF HeldIsKept, Spec

\* For any requests, cleanups and bounds, and however they overlap and fail, the files are what a
\* cabinet without requests makes of them: a commit puts away what its request had read and
\* shows what the store has taken, and only ripe trash is erased, that nobody changes and that
\* nobody held when its DELETE looked.
THEOREM FilesAreACabinet == Spec => KeepsCabinet
<1>1. Init => Cabinet!Init
  BY CabinetInit
<1>2. DInv /\ [Next]_vars => [Cabinet!Next]_(Cabinet!cabinet)
  BY CabinetStep DEF DInv
<1> QED BY <1>1, <1>2, DriveInvariant, PTL DEF Spec, KeepsCabinet, Cabinet!Spec
===============================================================================
