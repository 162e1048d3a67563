----------------------------- MODULE DataExport -----------------------------
(***************************************************************************)
(* The data exports of a workspace: an administrator asks for one, another *)
(* reviews it, a worker of some API process builds the archive and stores  *)
(* it, and later removes it.                                               *)
(*                                                                         *)
(* A worker holds a session advisory lock on one connection and does its   *)
(* work on others: when that connection is lost PostgreSQL frees the lock  *)
(* and the worker goes on.  It stops at every statement that writes and at *)
(* every call to the object store.                                         *)
(***************************************************************************)
EXTENDS Integers, FiniteSets

CONSTANTS
    Admins,      \* administrators with governance.manage
    Workers,     \* the data export workers of the API processes
    MaxExports,  \* bound: requests ever made
    PerRun,      \* exports a worker processes in one run
    NoAdmin,     \* nobody has reviewed it
    Free         \* nobody holds the workers' lock

ASSUME AdminsAssumption == NoAdmin \notin Admins /\ Admins # {}
ASSUME WorkersAssumption == Free \notin Workers
ASSUME BoundsAssumption == MaxExports \in Nat \ {0} /\ PerRun \in Nat \ {0}

VARIABLES
    exports,     \* the rows of data_export_requests, in the order they were inserted
    object,      \* the exports whose archive is in the store
    downloaded,  \* the exports a signed URL was issued for
    lock,        \* pg_try_advisory_lock(dataExportWorkerLockID)
    wk           \* the workers

vars == <<exports, object, downloaded, lock, wk>>

Exports == 1..MaxExports

Waiting  == {"PENDING", "APPROVED", "PROCESSING"}
Finished == {"READY", "FAILED", "EXPIRED"}

\* turn: the place of reviewed_at among the reviews; overdue: expires_at has passed.
Row == [status: {"NONE", "REJECTED"} \cup Waiting \cup Finished, by: Admins,
        reviewer: Admins \cup {NoAdmin}, turn: 0..MaxExports, overdue: BOOLEAN]

Steps == {"idle", "clean", "erase", "claim", "put", "save", "undo", "fail"}

Worker == [pc: Steps, export: Exports, todo: SUBSET Exports, left: 0..PerRun]

TypeOK ==
    /\ exports \in [Exports -> Row]
    /\ object \in SUBSET Exports
    /\ downloaded \in SUBSET Exports
    /\ lock \in Workers \cup {Free}
    /\ wk \in [Workers -> Worker]

-----------------------------------------------------------------------------
NoRow == [status |-> "NONE", by |-> CHOOSE a \in Admins : TRUE, reviewer |-> NoAdmin,
          turn |-> 0, overdue |-> FALSE]

Idle == [pc |-> "idle", export |-> 1, todo |-> {}, left |-> 0]

Init ==
    /\ exports = [e \in Exports |-> NoRow]
    /\ object = {} /\ downloaded = {}
    /\ lock = Free
    /\ wk = [w \in Workers |-> Idle]

Is(e, status) == exports[e].status = status
At(w, step) == wk[w].pc = step
Goto(w, step) == wk' = [wk EXCEPT ![w].pc = step]

-----------------------------------------------------------------------------
(* adminDataExports, reviewDataExport and downloadDataExport *)

\* The unique index allows an administrator one export in the queue.
Request(a) ==
    /\ \A e \in Exports : exports[e].by = a => exports[e].status \notin Waiting
    /\ \E e \in Exports :
          /\ Is(e, "NONE") /\ \A f \in Exports : f < e => ~Is(f, "NONE")
          /\ exports' = [exports EXCEPT ![e] = [NoRow EXCEPT !.status = "PENDING", !.by = a]]
    /\ UNCHANGED <<object, downloaded, lock, wk>>

Reviewed == {e \in Exports : exports[e].turn > 0}

Review(a, e, verdict) ==
    /\ Is(e, "PENDING") /\ exports[e].by # a
    /\ \E turn \in {t \in 1..MaxExports : t = Cardinality(Reviewed) + 1} :
          exports' = [exports EXCEPT ![e].status = verdict, ![e].reviewer = a, ![e].turn = turn]
    /\ UNCHANGED <<object, downloaded, lock, wk>>

Download(e) ==
    /\ Is(e, "READY") /\ ~exports[e].overdue
    /\ downloaded' = downloaded \cup {e}
    /\ UNCHANGED <<exports, object, lock, wk>>

-----------------------------------------------------------------------------
(* runDataExportWorker and cleanupExpiredDataExports *)

Overdue == {e \in Exports : Is(e, "READY") /\ exports[e].overdue}

\* Mutant: cleans up every finished export.
WorkerStartEager(w) ==
    /\ At(w, "idle") /\ lock = Free
    /\ lock' = w
    /\ wk' = [wk EXCEPT ![w] = [Idle EXCEPT !.pc = "clean", !.left = PerRun,
                                            !.todo = {e \in Exports : Is(e, "READY")}]]
    /\ UNCHANGED <<exports, object, downloaded>>

WorkerStart(w) ==
    /\ At(w, "idle") /\ lock = Free
    /\ lock' = w
    /\ wk' = [wk EXCEPT ![w] = [Idle EXCEPT !.pc = "clean", !.todo = Overdue, !.left = PerRun]]
    /\ UNCHANGED <<exports, object, downloaded>>

CleanRemove(w) ==
    /\ At(w, "clean")
    /\ \E e \in wk[w].todo :
          /\ object' = object \ {e}
          /\ wk' = [wk EXCEPT ![w].pc = "erase", ![w].export = e, ![w].todo = @ \ {e}]
    /\ UNCHANGED <<exports, downloaded, lock>>

\* Mutant: marks nothing.
CleanEraseNot(w) ==
    /\ At(w, "erase") /\ Goto(w, "clean")
    /\ UNCHANGED <<exports, object, downloaded, lock>>

CleanErase(w) ==
    LET e == wk[w].export IN
    /\ At(w, "erase")
    /\ exports' = IF e \in Overdue THEN [exports EXCEPT ![e].status = "EXPIRED"] ELSE exports
    /\ Goto(w, "clean")
    /\ UNCHANGED <<object, downloaded, lock>>

\* The archive could not be removed, or the row not updated: the next run tries again.
CleanSkip(w) ==
    /\ \/ At(w, "erase") /\ Goto(w, "clean")
       \/ At(w, "clean") /\ \E e \in wk[w].todo : wk' = [wk EXCEPT ![w].todo = @ \ {e}]
    /\ UNCHANGED <<exports, object, downloaded, lock>>

CleanDone(w) ==
    /\ At(w, "clean") /\ wk[w].todo = {}
    /\ Goto(w, "claim")
    /\ UNCHANGED <<exports, object, downloaded, lock>>

\* The approved export that was reviewed first.
First(e) ==
    /\ Is(e, "APPROVED")
    /\ \A f \in Exports : Is(f, "APPROVED") => exports[e].turn <= exports[f].turn

\* Mutant: takes up again what a worker that died may have left.
ClaimAgain(w) ==
    /\ At(w, "claim") /\ wk[w].left > 0
    /\ \E e \in Exports :
          /\ exports[e].status \in {"APPROVED", "PROCESSING"}
          /\ exports' = [exports EXCEPT ![e].status = "PROCESSING"]
          /\ wk' = [wk EXCEPT ![w].pc = "put", ![w].export = e, ![w].left = @ - 1]
    /\ UNCHANGED <<object, downloaded, lock>>

\* Mutant: takes jobs that wait for their review.
ClaimPending(w) ==
    /\ At(w, "claim") /\ wk[w].left > 0
    /\ \E e \in Exports :
          /\ exports[e].status \in {"PENDING", "APPROVED"}
          /\ exports' = [exports EXCEPT ![e].status = "PROCESSING"]
          /\ wk' = [wk EXCEPT ![w].pc = "put", ![w].export = e, ![w].left = @ - 1]
    /\ UNCHANGED <<object, downloaded, lock>>

\* Mutant: does not count the jobs of a run.
ClaimUncounted(w) ==
    /\ At(w, "claim")
    /\ \E e \in Exports :
          /\ First(e)
          /\ exports' = [exports EXCEPT ![e].status = "PROCESSING"]
          /\ wk' = [wk EXCEPT ![w].pc = "put", ![w].export = e, ![w].left = @ - 1]
    /\ UNCHANGED <<object, downloaded, lock>>

\* One UPDATE with FOR UPDATE SKIP LOCKED finds and marks the job.
Claim(w) ==
    /\ At(w, "claim") /\ wk[w].left > 0
    /\ \E e \in Exports :
          /\ First(e)
          /\ exports' = [exports EXCEPT ![e].status = "PROCESSING"]
          /\ wk' = [wk EXCEPT ![w].pc = "put", ![w].export = e, ![w].left = @ - 1]
    /\ UNCHANGED <<object, downloaded, lock>>

\* The archive is built and stored.  A failure may come after the store has it.
GeneratePut(w) ==
    /\ At(w, "put")
    /\ \/ object' = object \cup {wk[w].export} /\ (Goto(w, "save") \/ Goto(w, "fail"))
       \/ Goto(w, "fail") /\ UNCHANGED object
    /\ UNCHANGED <<exports, downloaded, lock>>

\* A failure may come after the row is updated.
GenerateSave(w) ==
    LET e == wk[w].export IN
    /\ At(w, "save")
    /\ \/ /\ Is(e, "PROCESSING")
          /\ exports' = [exports EXCEPT ![e].status = "READY"]
          /\ Goto(w, "claim") \/ Goto(w, "undo")
       \/ Goto(w, "undo") /\ UNCHANGED exports
    /\ UNCHANGED <<object, downloaded, lock>>

GenerateUndo(w) ==
    /\ At(w, "undo")
    /\ object' \in {object, object \ {wk[w].export}}
    /\ Goto(w, "fail")
    /\ UNCHANGED <<exports, downloaded, lock>>

GenerateFail(w) ==
    LET e == wk[w].export IN
    /\ At(w, "fail")
    /\ exports' \in {exports, IF Is(e, "PROCESSING")
                              THEN [exports EXCEPT ![e].status = "FAILED"] ELSE exports}
    /\ Goto(w, "claim")
    /\ UNCHANGED <<object, downloaded, lock>>

\* Mutant: the connection goes back to the pool with its lock.
UnlockedNever(w) == lock

Unlocked(w) == IF lock = w THEN Free ELSE lock

WorkerDone(w) ==
    /\ At(w, "claim")
    /\ wk[w].left = 0 \/ \A e \in Exports : ~Is(e, "APPROVED")
    /\ wk' = [wk EXCEPT ![w] = Idle]
    /\ lock' = Unlocked(w)
    /\ UNCHANGED <<exports, object, downloaded>>

-----------------------------------------------------------------------------
(* Time and failures *)

Expires(e) ==
    /\ Is(e, "READY") /\ ~exports[e].overdue
    /\ exports' = [exports EXCEPT ![e].overdue = TRUE]
    /\ UNCHANGED <<object, downloaded, lock, wk>>

\* The connection that holds the lock is lost; the worker does not notice.
LoseLock(w) ==
    /\ lock = w /\ lock' = Free
    /\ UNCHANGED <<exports, object, downloaded, wk>>

\* The process dies, or stopWorker cancels the context of every later statement.
Crash(w) ==
    /\ ~At(w, "idle")
    /\ wk' = [wk EXCEPT ![w] = Idle]
    /\ lock' = Unlocked(w)
    /\ UNCHANGED <<exports, object, downloaded>>

-----------------------------------------------------------------------------
Clean(w) == CleanRemove(w) \/ CleanErase(w) \/ CleanSkip(w) \/ CleanDone(w)
Generate(w) == GeneratePut(w) \/ GenerateSave(w) \/ GenerateUndo(w) \/ GenerateFail(w)
Work(w) == WorkerStart(w) \/ Clean(w) \/ Claim(w) \/ Generate(w) \/ WorkerDone(w)

Next ==
    \/ \E a \in Admins :
          \/ Request(a)
          \/ \E e \in Exports, verdict \in {"APPROVED", "REJECTED"} : Review(a, e, verdict)
    \/ \E e \in Exports : Download(e) \/ Expires(e)
    \/ \E w \in Workers : Work(w) \/ LoseLock(w) \/ Crash(w)

Spec == Init /\ [][Next]_vars

\* The timer of every worker goes on, and not every run dies before its next step
\* or finds the store or the database failing.  Time passes.
FairSpec ==
    /\ Spec
    /\ \A w \in Workers :
          /\ WF_vars(Work(w))
          /\ SF_vars(WorkerStart(w))
          /\ SF_vars(CleanRemove(w))
          /\ SF_vars(CleanErase(w))
          /\ SF_vars(CleanDone(w))
          /\ SF_vars(Claim(w))
    /\ \A e \in Exports : WF_vars(Expires(e))

-----------------------------------------------------------------------------
(* What must hold *)

\* Four eyes: an archive exists, or was handed out, only for an export that an
\* administrator other than the requester has approved, whatever its workers and
\* their failures have done since (reviewDataExport).
FourEyes ==
    \A e \in object \cup downloaded :
        /\ exports[e].status \in {"PROCESSING"} \cup Finished
        /\ exports[e].reviewer \in Admins \ {exports[e].by}

\* A worker is past its claim on an export.
Building(w, e) == wk[w].pc \in {"put", "save", "undo", "fail"} /\ wk[w].export = e

\* No two workers build the same export, though a worker may have lost its lock to
\* the other (claimDataExport).
OneBuilder ==
    \A v, w \in Workers, e \in Exports : Building(v, e) /\ Building(w, e) => v = w

\* An archive that can be downloaded is removed only by the worker that built it,
\* when it takes its own UPDATE to have failed: no cleanup and no other worker
\* removes it before it is overdue.
ReadyLostOnlyToItsBuilder ==
    [][\A e \in object : Is(e, "READY") /\ ~exports[e].overdue /\ e \notin object' =>
         \E w \in Workers : At(w, "undo") /\ wk[w].export = e]_vars

\* What a review, a build or a cleanup has settled stays settled: rejected and
\* failed exports are final, a ready one can only expire, and an expired archive
\* never becomes available again.
SettledIsFinal ==
    [][\A e \in Exports :
         /\ exports[e].status \in {"REJECTED", "FAILED", "EXPIRED"} =>
              exports'[e].status = exports[e].status
         /\ Is(e, "READY") => exports'[e].status \in {"READY", "EXPIRED"}
         /\ exports[e].overdue => exports'[e].overdue]_vars

\* The part of the induction about workers: a job in work was approved, a job that
\* is being cleaned up is overdue or expired.
InWork ==
    /\ \A e \in Exports :
          /\ exports[e].status \in {"APPROVED", "PROCESSING"} \cup Finished =>
                exports[e].reviewer \in Admins \ {exports[e].by}
          /\ exports[e].overdue => exports[e].status \in {"READY", "EXPIRED"}
          /\ Is(e, "NONE") => exports[e].reviewer = NoAdmin
    /\ \A w \in Workers, e \in Exports :
          /\ Building(w, e) => exports[e].status \in {"PROCESSING"} \cup Finished
          /\ e \in wk[w].todo \/ (At(w, "erase") /\ wk[w].export = e) =>
                exports[e].status \in {"READY", "EXPIRED"} /\ exports[e].overdue
          /\ Building(w, e) /\ wk[w].pc \in {"put", "save"} => Is(e, "PROCESSING")

\* The part about the store: an archive is there when its row is to say so, and gone when
\* its row says that; a worker that undoes its work on a READY archive built it.
InStore ==
    /\ \A e \in Exports : Is(e, "EXPIRED") => e \notin object
    /\ \A w \in Workers :
          /\ At(w, "save") => wk[w].export \in object
          /\ At(w, "erase") => wk[w].export \notin object
          /\ wk[w].pc \in {"undo", "fail"} => ~Is(wk[w].export, "FAILED")

IInv == TypeOK /\ FourEyes /\ OneBuilder /\ InWork /\ InStore

\* What a desk that knows no workers would say of the exports.
Status == [e \in Exports |-> exports[e].status]
Asker == [e \in Exports |-> exports[e].by]
Judge == [e \in Exports |-> exports[e].reviewer]
Late == {e \in Exports : exports[e].overdue}
Doubts(w, e) == At(w, "undo") /\ wk[w].export = e
Doubted == {e \in Exports : Is(e, "READY") /\ \E w \in Workers : Doubts(w, e)}

Desk == INSTANCE ExportDesk WITH
    status <- Status, by <- Asker, judge <- Judge, stored <- object, late <- Late,
    doubted <- Doubted, handed <- downloaded

\* Workers that lose their lock to one another, find the store failing or die at any step
\* do to the exports what a desk without workers would: each is made once, is READY only
\* when its archive is in the store and EXPIRED only when it is not, and the archive
\* goes early only if the worker that made it was not told that it is READY.
KeepsDesk == Desk!Spec

\* An overdue archive is marked expired, however often a cleanup is cut short.
OverdueExpires == \A e \in Exports : e \in Overdue ~> Is(e, "EXPIRED")

\* An approved export is taken up.
ApprovedIsClaimed == \A e \in Exports : Is(e, "APPROVED") ~> ~Is(e, "APPROVED")
=============================================================================
