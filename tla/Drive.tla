-------------------------------- MODULE Drive --------------------------------
(***************************************************************************)
(* The files of a workspace's drive: a row and its history of versions in  *)
(* the database, their contents in the object store.  Requests upload,     *)
(* add and restore versions, rename and trash; passes of the retention     *)
(* cleanup remove what is in the trash for long enough; an administrator   *)
(* holds files for legal reasons.  Each action is one statement, one       *)
(* transaction or one call to the store.                                   *)
(*                                                                         *)
(* The size of a content goes with its key, and every request comes from a *)
(* user that canEditDriveNode lets edit the file while it is not deleted.  *)
(***************************************************************************)
EXTENDS Integers, FiniteSets

CONSTANTS
    Procs,       \* requests in flight
    Cleaners,    \* passes of cleanupDriveRetention in flight
    Limit,       \* what max_storage_bytes leaves for the files
    Size,        \* the size of the content with each key
    MaxFiles,    \* bound: files ever created
    MaxKeys,     \* bound: object keys ever made
    MaxVersion   \* bound: the version of a file

ASSUME BoundsAssumption ==
    /\ Limit \in Nat \ {0} /\ MaxFiles \in Nat \ {0}
    /\ MaxKeys \in Nat \ {0} /\ MaxVersion \in Nat \ {0}
ASSUME ProcsAssumption == IsFiniteSet(Procs) /\ Procs # {}
ASSUME SizeAssumption == Size \in [1..MaxKeys -> Nat \ {0}]

VARIABLES
    node,      \* the rows of drive_nodes
    history,   \* the rows of drive_versions: the key of each older version
    store,     \* the keys that have an object in the store
    made,      \* how many object keys were made: each is new
    req,       \* the requests
    cleaner,   \* the cleanup passes
    placing    \* the files a hold of which is under way: its transaction has seen the row

vars == <<node, history, store, made, req, cleaner, placing>>

Files == 1..MaxFiles
Keys == 1..MaxKeys
Versions == 1..MaxVersion
None == 0

\* due: retention_until has passed; held: an ACTIVE legal hold names the file, which may
\* be GONE: legal_hold_resources refers to no row.
Node == [status: {"NONE", "LIVE", "TRASH", "GONE"}, key: Keys \cup {None},
         version: Versions, due: BOOLEAN, held: BOOLEAN]

\* file: the file a request is about (None for the upload of a new one); key: the
\* object it stores or restores; old, version: what it read of the file's row.  seen is
\* history: the usage that an upload was checked against.
Request == [pc: {"idle", "put", "insert", "commit", "drop", "rename", "trash"},
            file: Files \cup {None}, key: Keys \cup {None}, restores: BOOLEAN,
            old: Keys \cup {None}, version: Versions, seen: Nat]

Cleaner == [pc: {"idle", "remove", "erase", "delete"}, todo: SUBSET (Files \X Keys), file: Files]

TypeOK ==
    /\ node \in [Files -> Node]
    /\ history \in [Files -> [Versions -> Keys \cup {None}]]
    /\ store \in SUBSET Keys
    /\ made \in 0..MaxKeys
    /\ req \in [Procs -> Request]
    /\ cleaner \in [Cleaners -> Cleaner]
    /\ placing \in SUBSET Files
    /\ \A f \in Files : node[f].status \in {"LIVE", "TRASH"} <=> node[f].key # None

-----------------------------------------------------------------------------
NoNode == [status |-> "NONE", key |-> None, version |-> 1, due |-> FALSE, held |-> FALSE]

NoHistory == [v \in Versions |-> None]

NoRequest == [pc |-> "idle", file |-> None, key |-> None, restores |-> FALSE,
              old |-> None, version |-> 1, seen |-> 0]

Idle == [pc |-> "idle", todo |-> {}, file |-> 1]

Init ==
    /\ node = [f \in Files |-> NoNode]
    /\ history = [f \in Files |-> NoHistory]
    /\ store = {} /\ made = 0
    /\ req = [p \in Procs |-> NoRequest]
    /\ cleaner = [c \in Cleaners |-> Idle]
    /\ placing = {}

Is(f, status) == node[f].status = status
At(p, pc) == req[p].pc = pc
Goto(p, pc) == req' = [req EXCEPT ![p].pc = pc]
Finish(p) == req' = [req EXCEPT ![p] = NoRequest]
Touching(f) == {p \in Procs : req[p].file = f}

\* Bound: requests that are under way do not run past the last version.
HasRoom(f) == node[f].version + Cardinality(Touching(f)) < MaxVersion

-----------------------------------------------------------------------------
(* driveUpload, enforceTenantQuota *)

\* SUM(size_bytes) over the files that are not deleted, block by block.  The attachments
\* and recordings it also counts are taken from the Limit.
Bytes(f) == {f} \X (1..Size[node[f].key])
Used == Cardinality(UNION {Bytes(f) : f \in {g \in Files : Is(g, "LIVE")}})

\* Mutant: compares the usage without the upload.
WithinQuotaLate(k) == Used <= Limit

WithinQuota(k) == Used + Size[k] <= Limit

UploadStart(p) ==
    /\ At(p, "idle") /\ made < MaxKeys
    /\ WithinQuota(made + 1)
    /\ made' = made + 1
    /\ req' = [req EXCEPT ![p] = [NoRequest EXCEPT !.pc = "put", !.key = made + 1,
                                                  !.seen = Used]]
    /\ UNCHANGED <<node, history, store, cleaner, placing>>

\* PutObject, of a new file or of a version.  It may fail after the store has it.
Put(p) ==
    /\ At(p, "put")
    /\ \/ /\ store' = store \cup {req[p].key}
          /\ Goto(p, IF req[p].file = None THEN "insert" ELSE "commit") \/ Finish(p)
       \/ Finish(p) /\ UNCHANGED store
    /\ UNCHANGED <<node, history, made, cleaner, placing>>

\* An INSERT may fail after the row is there, when its answer is lost.
UploadInsert(p) ==
    /\ At(p, "insert")
    /\ \/ /\ \E f \in Files :
                /\ Is(f, "NONE") /\ \A g \in Files : g < f => ~Is(g, "NONE")
                /\ node' = [node EXCEPT ![f] = [NoNode EXCEPT !.status = "LIVE",
                                                              !.key = req[p].key]]
          /\ Finish(p) \/ Goto(p, "drop")
       \/ Goto(p, "drop") /\ UNCHANGED node
    /\ UNCHANGED <<history, store, made, cleaner, placing>>

\* RemoveObject of what the request has stored; its error is ignored.
Drop(p) ==
    /\ At(p, "drop")
    /\ store' \in {store, store \ {req[p].key}}
    /\ Finish(p)
    /\ UNCHANGED <<node, history, made, cleaner, placing>>

-----------------------------------------------------------------------------
(* driveVersions and driveVersionRestore *)

VersionRead(p, f) ==
    /\ At(p, "idle") /\ made < MaxKeys /\ HasRoom(f)
    /\ Is(f, "LIVE")
    /\ made' = made + 1
    /\ req' = [req EXCEPT ![p] = [NoRequest EXCEPT
                 !.pc = "put", !.file = f, !.key = made + 1,
                 !.old = node[f].key, !.version = node[f].version]]
    /\ UNCHANGED <<node, history, store, cleaner, placing>>

\* Mutant: does not look for the version.
HasVersionAny(f, v) == TRUE

HasVersion(f, v) == history[f][v] # None

RestoreRead(p, f, v) ==
    /\ At(p, "idle") /\ HasRoom(f)
    /\ Is(f, "LIVE") /\ HasVersion(f, v)
    /\ req' = [req EXCEPT ![p] = [NoRequest EXCEPT
                 !.pc = "commit", !.file = f, !.key = history[f][v], !.restores = TRUE,
                 !.old = node[f].key, !.version = node[f].version]]
    /\ UNCHANGED <<node, history, store, made, cleaner, placing>>

\* Mutant: does not insert the older version.
ArchiveNot(p) == history

\* INSERT of the older version, which keeps a row that is there already.
Archive(p) ==
    LET f == req[p].file IN
    IF history[f][req[p].version] = None
    THEN [history EXCEPT ![f][req[p].version] = req[p].old] ELSE history

\* A restore has stored nothing and removes nothing when it fails.
Failed(p) == IF req[p].restores THEN Finish(p) ELSE Goto(p, "drop")

\* The transaction of both handlers.  Its UPDATE names the file only, deleted or not.
VersionCommit(p) ==
    LET f == req[p].file IN
    /\ At(p, "commit")
    /\ \/ /\ history' = Archive(p)
          /\ node' = [node EXCEPT ![f].key = req[p].key, ![f].version = @ + 1]
          /\ Finish(p) \/ Failed(p)
       \/ Failed(p) /\ UNCHANGED <<node, history>>
    /\ UNCHANGED <<store, made, cleaner, placing>>

-----------------------------------------------------------------------------
(* driveNodeUpdate *)

\* canEditDriveNode; the UPDATE that follows names the file only.
UpdateCheck(p, f, what) ==
    /\ At(p, "idle") /\ Is(f, "LIVE") /\ HasRoom(f)
    /\ req' = [req EXCEPT ![p] = [NoRequest EXCEPT !.pc = what, !.file = f]]
    /\ UNCHANGED <<node, history, store, made, cleaner, placing>>

Rename(p) ==
    /\ At(p, "rename")
    /\ node' = [node EXCEPT ![req[p].file].version = @ + 1]
    /\ Finish(p)
    /\ UNCHANGED <<history, store, made, cleaner, placing>>

\* retention_until moves to at least a day from now.
Trash(p) ==
    /\ At(p, "trash")
    /\ node' = [node EXCEPT ![req[p].file].status = "TRASH", ![req[p].file].due = FALSE]
    /\ Finish(p)
    /\ UNCHANGED <<history, store, made, cleaner, placing>>

\* The request is cancelled or its process dies.
Abandon(p) ==
    /\ ~At(p, "idle") /\ Finish(p)
    /\ UNCHANGED <<node, history, store, made, cleaner, placing>>

-----------------------------------------------------------------------------
(* cleanupDriveRetention *)

Removable(f) == Is(f, "TRASH") /\ node[f].due /\ ~node[f].held

\* Mutant: lists the whole trash.
ListedEarly ==
    {<<f, node[f].key>> : f \in {g \in Files : Is(g, "TRASH") /\ ~node[g].held}}

Listed == {<<f, node[f].key>> : f \in {g \in Files : Removable(g)}}

CleanList(c) ==
    /\ cleaner[c].pc = "idle"
    /\ cleaner' = [cleaner EXCEPT ![c].pc = "remove", ![c].todo = Listed]
    /\ UNCHANGED <<node, history, store, made, req, placing>>

\* A RemoveObject that fails, before or after the object is gone, leaves the row.
CleanRemove(c) ==
    /\ cleaner[c].pc = "remove"
    /\ \E item \in cleaner[c].todo :
          \/ /\ store' = store \ {item[2]}
             /\ cleaner' = [cleaner EXCEPT ![c].pc = "erase", ![c].file = item[1],
                                           ![c].todo = @ \ {item}]
          \/ /\ store' \in {store, store \ {item[2]}}
             /\ cleaner' = [cleaner EXCEPT ![c].todo = @ \ {item}]
    /\ UNCHANGED <<node, history, made, req, placing>>

\* Mutant: deletes what was listed.
StillRemovableBlind(f) == Is(f, "TRASH")

StillRemovable(f) == Removable(f)

\* The DELETE repeats the conditions.  It sees the holds as of its start,
CleanCheck(c) ==
    /\ cleaner[c].pc = "erase"
    /\ cleaner' = [cleaner EXCEPT ![c].pc =
                      IF StillRemovable(cleaner[c].file) THEN "delete" ELSE "remove"]
    /\ UNCHANGED <<node, history, store, made, req, placing>>

\* and the row as it is when it takes it; the versions go with the row, not their objects.
CleanErase(c) ==
    LET f == cleaner[c].file IN
    /\ cleaner[c].pc = "delete"
    /\ \/ /\ Is(f, "TRASH") /\ node[f].due
          /\ node' = [node EXCEPT ![f] = [NoNode EXCEPT !.status = "GONE", !.held = node[f].held]]
          /\ history' = [history EXCEPT ![f] = NoHistory]
       \/ UNCHANGED <<node, history>>
    /\ cleaner' = [cleaner EXCEPT ![c].pc = "remove"]
    /\ UNCHANGED <<store, made, req, placing>>

\* The pass ends, or its process dies.
CleanEnd(c) ==
    /\ cleaner[c].pc # "idle"
    /\ cleaner' = [cleaner EXCEPT ![c] = Idle]
    /\ UNCHANGED <<node, history, store, made, req, placing>>

-----------------------------------------------------------------------------
(* legalHoldResource, releaseLegalHold, and time *)

\* SELECT EXISTS, under a lock that no cleanup of the drive takes.
\* Bound: one hold at a time names a file.
HoldCheck(f) ==
    /\ node[f].status \in {"LIVE", "TRASH"} /\ ~node[f].held
    /\ placing' = placing \cup {f}
    /\ UNCHANGED <<node, history, store, made, req, cleaner>>

\* INSERT and COMMIT, whatever has become of the row; or the request ends without them.
HoldInsert(f) ==
    /\ f \in placing /\ placing' = placing \ {f}
    /\ node' \in {node, [node EXCEPT ![f].held = TRUE]}
    /\ UNCHANGED <<history, store, made, req, cleaner>>

Release(f) ==
    /\ node[f].held
    /\ node' = [node EXCEPT ![f].held = FALSE]
    /\ UNCHANGED <<history, store, made, req, cleaner, placing>>

\* retention_until passes: at least a day after the deletion, and no request lasts a day.
RetentionPasses(f) ==
    /\ Is(f, "TRASH") /\ ~node[f].due /\ Touching(f) = {}
    /\ node' = [node EXCEPT ![f].due = TRUE]
    /\ UNCHANGED <<history, store, made, req, cleaner, placing>>

-----------------------------------------------------------------------------
Handle(p) ==
    \/ UploadStart(p) \/ Put(p) \/ UploadInsert(p) \/ Drop(p) \/ VersionCommit(p)
    \/ Rename(p) \/ Trash(p) \/ Abandon(p)
    \/ \E f \in Files : VersionRead(p, f) \/ (\E v \in Versions : RestoreRead(p, f, v))
    \/ \E f \in Files, what \in {"rename", "trash"} : UpdateCheck(p, f, what)

Clean(c) == CleanList(c) \/ CleanRemove(c) \/ CleanCheck(c) \/ CleanErase(c) \/ CleanEnd(c)

Next ==
    \/ \E p \in Procs : Handle(p)
    \/ \E c \in Cleaners : Clean(c)
    \/ \E f \in Files : HoldCheck(f) \/ HoldInsert(f) \/ Release(f) \/ RetentionPasses(f)

Spec == Init /\ [][Next]_vars

-----------------------------------------------------------------------------
(* What must hold *)

\* The contents a file refers to: the current one and those of its older versions.
Contents(f) == ({node[f].key} \cup {history[f][v] : v \in Versions}) \ {None}

\* No content of a file drops out of its history, whoever renames, restores and uploads
\* at the same time, unless a version is committed over a content that its request did
\* not read: two changes of one version overlapped (driveVersions).
LostOnlyToOverlap ==
    [][\A f \in Files :
         node'[f].status # "GONE" =>
           \A k \in Contents(f) : \/ k \in Contents(f)'
                                 \/ /\ k = node[f].key
                                    /\ \E p \in Touching(f) : At(p, "commit") /\ req[p].old # k]_vars

\* The object of a content is removed only by the request that stored it and took its
\* commit to have failed, or by a cleanup while the file is in the trash and overdue:
\* what a cleanup has listed is still so when it removes it.
RemovedOnlyAsTrash ==
    [][\A f \in Files : \A k \in Contents(f) \cap store :
         k \notin store' =>
           \/ \E p \in Procs : At(p, "drop") /\ req[p].key = k
           \/ Is(f, "TRASH") /\ node[f].due]_vars

\* A file under a hold, that no DELETE has looked at before the hold was there, is safe as
\* long as the hold lasts, even when a cleanup had listed it: no DELETE takes it, and no
\* cleanup that begins lists it (cleanupDriveRetention).
Safe(f) ==
    /\ node[f].held /\ node[f].status \in {"LIVE", "TRASH"}
    /\ \A c \in Cleaners : ~(cleaner[c].pc = "delete" /\ cleaner[c].file = f)

HeldIsKept ==
    [][\A f \in Files :
         /\ Safe(f) => ~node'[f].held \/ Safe(f)'
         /\ node[f].held =>
               \A c \in Cleaners, k \in Keys :
                  <<f, k>> \in cleaner'[c].todo => <<f, k>> \in cleaner[c].todo]_vars

\* The quota is checked before the content is stored, and for uploads only: what takes the
\* usage past the limit is an upload that the usage has outrun since its check, or a
\* version or restore, whose size nobody checks (driveUpload, driveVersions).
OvershootIsLate ==
    [][Used' > Used /\ Used' > Limit =>
         \E p \in Procs : /\ req'[p] # req[p]
                          /\ \/ At(p, "insert") /\ req[p].seen < Used
                             \/ At(p, "commit")]_vars

\* What a cabinet that knows no requests would say of the files.
State == [f \in Files |-> node[f].status]
Current == [f \in Files |-> node[f].key]
Older(f) == {history[f][v] : v \in Versions} \ {None}
Past == [f \in Files |-> Older(f)]
Ripe == {f \in Files : node[f].due}
Held == {f \in Files : node[f].held}
Doomed == {cleaner[c].file : c \in {d \in Cleaners : cleaner[d].pc = "delete"}}
Changing == {p \in Procs : req[p].file # None /\ req[p].pc \in {"put", "commit"}}
DraftOf(p) == [file |-> req[p].file, key |-> req[p].key, on |-> req[p].old]
Drafts == {DraftOf(p) : p \in Changing}
Doubted == {req[p].key : p \in {q \in Procs : At(q, "drop")}}

Cabinet == INSTANCE FileCabinet WITH
    state <- State, current <- Current, older <- Past, ripe <- Ripe, held <- Held,
    doomed <- Doomed, objects <- store, drafts <- Drafts, doubted <- Doubted

\* Uploads, versions, restores, cleanups and holds that overlap, and fail halfway, do to the
\* files what a cabinet does: a commit puts away what its request had read and shows what the
\* store has taken, two files never share a content, and what is erased is ripe, in
\* nobody's hands and was not held when its erasure was decided (driveVersions, driveUpload,
\* cleanupDriveRetention).
KeepsCabinet == Cabinet!Spec
=============================================================================
