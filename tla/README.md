# Xspace API: a verification project

TLA+ models of the concurrent core of the Xspace API (`src/services/api`, Go), the
TLC runs that check them on small instances, and TLAPS proofs of their main
invariants for every instance. Source paths below are relative to
`src/services/api/internal/httpapi/` unless they say otherwise.

## 1. The system

One or more API processes serve HTTP requests, each in a goroutine of its own, and
start five background workers (`src/services/api/cmd/api/main.go`). All durable
state is in PostgreSQL; the API keeps nothing between requests but the
subscribers of the chat hub. Media lives in LiveKit (rooms, tokens, egress), files
in an S3 object store, money at Xendit, mail at an SMTP server. Nearly every
handler is a sequence of autocommitted SQL statements and external calls, so the
unit of interleaving is the statement, not the request. Three workers guard
themselves with a PostgreSQL advisory lock, the purge and the legal holds share a
transaction-level lock, and everything else relies on the `WHERE` clause of each
`UPDATE` and on a handful of partial unique indexes.

| component | state | operations | what is hard about it | what makes it correct |
|---|---|---|---|---|
| Meeting room (`meetings.go`, `participants.go`, `livekit.go`, `realtime_moderation.go`, `lifecycle.go`) | `meetings`, `meeting_participants`, the LiveKit room, tokens | create, join, token, leave, list + reconcile, admit / reject / remove / promote / mute, lock / unlock / end, delete | a status read before a write; a LiveKit snapshot older than the rows it is applied to; dropped errors | one active row a user and it is the latest; no media without admission; host and guests keep their roles; who is gone stays gone; ended meetings are over |
| Meeting duration worker (`meeting_duration_worker.go`) | `ended_at`, `end_reason`, `room_closed_at` | select, end + sweep (one transaction), close, mark | crash or LiveKit failure between the steps; requests in flight during the sweep | overdue meetings end, their rooms close, nobody is left in them |
| Recordings (`recordings.go`) | `recordings`, egress, object | start, stop, library reconciliation, delete | four systems of record for one recording; unconditional updates after slow calls | one active recording a meeting; stale rows are repaired; deleted stays deleted |
| Governance (`governance.go`, `governance_worker.go`) | `legal_holds`, retention marks | hold, release, expire, purge | a hold racing a removal | a held object is not removed |
| Data exports (`data_exports.go`, `data_exports_worker.go`) | `data_export_requests`, archive | request, review, download, claim, build, clean up | lock held on one connection and work done on another; crash and lost acknowledgement | four eyes; one builder; settled is final; archives are there while READY and go away afterwards |
| Billing (`billing*.go`) | subscription, checkouts, invoices, webhook events | checkout, cancel, webhooks | at-least-once and unordered events, provider calls between reads and writes | each event applied once; what overlaps is booked as if it had not; a scheduled cancellation keeps its period unless a payment fails |
| Plans and quotas (`plans.go`) | plan limits against counted rows | `enforceTenantQuota` before an insert | check and insert apart | usage passes the limit only by an upload it has outrun, or by a version, which nobody checks |
| Accounts (`auth.go`, `sessions.go`, `mfa.go`, `oidc.go`, `onboarding.go`, `invitations.go`, `admin_users.go`, `scim.go`) | users, sessions, MFA, invitations, links | create, invite, activate, sign in by password, code or provider, reset, change status, delete | sign-ins racing resets and status changes; a list of codes read and written back; a revocation that fails unnoticed | a session outlives neither password nor status; a code opens one session |
| Email outbox (`transactional_email.go`, `onboarding.go`) | `email_outbox` | queue, claim, send, save, retry, scrub | crash or lost answer between claim, mail server and result | every mail is tried; none that was taken goes out again |
| Incidents (`incidents.go`, `incident_escalation_worker.go`, `alertmanager_webhook.go`) | incidents, an advisory lock | create, transition, alert, escalate | an answer racing the escalation; repeated and reordered alerts; a pass that loses its lock | escalated once, in time, and only if nobody answered |
| Chat (`chat.go`, `chat_hub.go`, `chat_attachments.go`) | messages, members' marks, subscribers, attachments | post, edit, delete, subscribe, publish, clear, hide, attach, redact, purge | edits crossing deletions; holds crossing purges and half-done uploads; marks against new messages; full buffers | what is erased stays so; a new message un-hides; held attachments stay |
| Drive (`drive.go`) | nodes, versions, objects | upload, new version, restore, rename, trash, clean up, hold | row and object apart; two versions from one reading; a cleanup without the lock of the hold | contents stay in the history; a file held in time stays |
| Calendar, rooms, history; directory, roles; platform admin; audit, search, dashboards | their tables | single statements and transactions | little: one transaction each | table constraints |

How they interact: the calendar and the rooms insert meetings; the room handlers and
the duration worker share `meetings` and the LiveKit room; a recording belongs to a
meeting and its egress ends when the room closes; holds and retention act on
recordings, messages, attachments and files; an escalation queues mails, and a deleted
account scrubs them; quotas are checked by the handlers that insert. They call each
other through the database and LiveKit only; the one thing shared in memory is the chat
hub, and each process has its own.

`PROJECT.json` lists every component, the hazards of the code at their lines, and
which property is about each.

## 2. The modules

Five modules say what a component promises, as if nobody overlapped, failed or died:

* `MeetingSeats`: a meeting's phase only advances, its door closes when it is over, and each
  user is out, waiting or in. A seat is the user's active row; `KeepsSeats`, at the end of
  `MeetingRoom`, is `MeetingSeats` under that mapping.
* `ExportDesk`: an export is asked for, decided by somebody else, made once, READY only when its
  archive is in the store and EXPIRED only when it is not. It knows no worker and no lock; an
  archive goes before its time only while its maker was not told that it is READY (`doubted`,
  the worker at `undo`). `KeepsDesk` of `DataExport`.
* `SubscriptionLedger`: each event Xendit reports is booked once, in any order, as a whole, by what
  the books say at that moment. `KeepsLedger` of `Billing`, where a webhook takes three
  statements and may roll back.
* `IncidentAlarm`: an incident raises one alarm, in one step, while it waits and is old enough, and
  whoever is told by it is told once. `KeepsAlarm` of `Incidents`, whose escalation lists first and
  writes later, and whose mails are claimed, sent and saved by workers that die.
* `FileCabinet`: a new content takes the place of the one that its author had seen, which goes to the
  older ones; a file shows what the store has taken and shares nothing with another; an object leaves
  with ripe trash or by an author who doubts its use, a file as ripe trash that nobody changes and nobody held when
  its erasure was decided.
  `KeepsCabinet` of `Drive`, where an upload is up to four calls of which each may fail after it was done.

`MeetingRoom` is the code of the meetings. `Recording`, `DataExport`, `Billing`, `Accounts`, `Drive` and `Chat` model one
component each; `Incidents` extends `Outbox` and composes the two: what escalates queues
what is sent. `MC<M>.tla` holds symmetry sets and bounds, `<M>Proofs.tla` theorems. Mutants, operators named after the
definition they break and marked "Mutant:", stand before that definition; they show
that each property depends on the code.

### How code becomes actions

A handler in flight is a record `req[p]`: the step it stands at and what it carries
(the row it read, the snapshot it took). Its first action is its arrival: every read
and check before the first write, in one step, because it changes nothing. After
that each SQL statement that writes, each external call, and each read whose answer
is carried across another step is an action of its own, with the `WHERE` clause as
its guard and `RowsAffected = 0` as its other branch. A refused request changes
nothing and is left out. One transaction is one action, except where an external call is made
inside it (the purge), when its steps are apart and its lock is a variable, and where one that does
not take its lock may commit between its statements (the hold of a file). `Abort(p)`, `WorkerFail` and `Crash(w)` stop a goroutine at any step:
a cancelled request context, a failed statement, a dead process.

**MeetingRoom** (one meeting). `meeting` is the row (`planEnded` is
`end_reason='PLAN_DURATION_LIMIT'`, `roomClosed` is `room_closed_at`); `rows` are
`meeting_participants` in the order of `created_at`, which is also their index; `live`
who is connected to LiveKit, `tokens` who holds a token, `overdue` that the plan limit
has passed, `wk` the worker. `Join, JoinInsert, JoinActivate` are `joinMeeting`;
`Token, TokenRestore, TokenSign` are `liveKitToken`; `List, Reconcile*` are
`listParticipants` and `reconcileRealtimeParticipants`; `Moderate*` and `Control*` the two moderation handlers with `syncParticipantAction` and `DeleteRoom`; `Leave*`,
`Delete*`, `Worker*` the rest. A leave is one statement of two steps: its subselect picks a row
that is joined or waiting, and its UPDATE, which names the id only, may have to wait for another
transaction and then writes whatever that one has left. Times (20 s before a row may be reconciled, two minutes
until DISCONNECTED becomes LEFT, a token's 15 minutes) are nondeterministic: the
steps they delay may happen at any time. Left out: the mute of a track and the
metadata of a promoted participant (LiveKit state no property is about), audit
events, notices, passwords and consent (they refuse and change nothing), `LIMIT 50`.
`admitted` is a history flag: a moderator's admit has set this row to JOINED.

**Recording** (the recordings of one meeting). `rec` the rows (`expired` is
`retention_expired_at`, `deleted` is `storage_deleted_at`, `sized` is `size_bytes > 0`),
`egress` what LiveKit knows, `object` the store, `held` the recordings with one or more
active holds, `lock` the advisory lock of the governance resource. The two deletes
differ in how they find the recording and share their actions. Purging and expiring
are also run by hand (`runGovernanceRetention`), so two purges may overlap. `PurgeUnlocks` is the
loss of a purge's connection: PostgreSQL releases the lock, and the purge, which is inside
`RemoveObject`, learns of it at its next statement; `PurgeFails` is every other failure, which
rolls back and goes on with the next recording.

**DataExport** (a workspace). `exports` the rows with `turn` for the order of
`reviewed_at`, `object` the archives, `lock` the session advisory lock, `wk` the workers.
`LoseLock` is the loss of the one connection that holds the lock while the worker goes
on through the pool. `PerRun` stands for the constant 3.

**Billing** (one workspace). `sub` is the row of `tenant_subscriptions` (`cancel` is
`cancel_at_period_end`, `current` says that `current_period_ends_at` is set and to come),
`checkout` and `invoice` the rows of those tables, `trail` the last row of
`billing_subscription_events`, `applied` how often an event was committed, `xendit` the
session and then the plan of each checkout, `sent` the events Xendit delivers until they
are accepted. A webhook is one
transaction: `Register` takes the unique key of its event, `Lock` is `SELECT ... FOR
UPDATE`, `Commit` everything it writes; `Abort` rolls back. An event whose only write is
one statement (`ApplySession`, `ApplyCycle`) is one action. `CheckoutInsert, CheckoutSession,
CheckoutStore, CheckoutAbandon` are `adminBillingCheckout`; `Cancellation,
CancelDeactivate, CancelSchedule` are `adminBillingCancellation`. A plan has one cycle;
`retrying` is as `created`, `force_attempt_failed` as `failed`.

**Accounts** (one account). `account` is the row of `users`; passwords are numbered in the
order they are set. `session` are the live rows of `sessions`, `resets` those of
`password_reset_tokens`, `links` the invitation and the verification of the address, `mfa`
the row of `user_mfa`. `LoginRead, SaveCodes, CreateSession` are `login` with `verifyMFA`;
`AcceptInvitation` and `OidcResolve` end in the same `createSession`; `SetStatus, Revoke`
are `updateAdminUser` and the SCIM handlers; `ForgotRead, ForgotCommit` the transaction of
`forgotPassword`, whose rows it has locked; `ResetPassword`, `DeleteUser` and the others are
one transaction each. `stray`, `spent` and `muddled` are history: a session that a failed
revocation left or that was inserted after the account had changed, the codes that
were accepted, and that the list was written from two readings or not at all.

**Outbox** and **Incidents** (one workspace). `mail` are the rows of `email_outbox`, `sender`
the email workers: `Claim, Send, Save` are `deliverOneEmail`, and `Lose` every way a
result goes missing. `taken` counts what the mail server took and said so; an error
answer leaves open whether it took the mail. `incident` has the rows, `worker` the escalation
workers with the advisory lock: `PassStart`, one `Escalate` or `EscalateFails` for each
incident it has listed, `PassEnd`. `age` is the incident's age in units of its deadline:
P1 is due at 1, P4 at `MaxAge`, which stand for all four severities.

**Chat** (one conversation). `msg` are the messages, numbered by `created_at`, `file` the
attachment of each, `member` the marks of `chat_members` against `updated_at`, `stream` the
subscribers of `chatHub`, up to the connection: `Consume` is `chatEvents` writing an event. `Insert,
Touch, Publish` are a POST; `ChangeRead` and `Edit` or `Delete` the others; `Redact` and `Purge*` the
retention, `PurgeUnlocks` among them, `Hold` and `Release` the hold. The page is not modelled: it
parses the envelope `{type,payload}` of an event as the message (section 3), so no property of what a
member sees could rest on the stream.

**Drive** (a workspace's files). `node` are the rows, `history` the rows of `drive_versions`, `store`
the objects; the size of a content goes with its key (`Size`), and `Used` is what `plans.go:123` sums. `UploadStart, Put, UploadInsert, Drop` are
`driveUpload` with its quota; `VersionRead, Put, VersionCommit, Drop` a new version,
`RestoreRead, VersionCommit` a restore; `UpdateCheck` with `Rename` or `Trash` is
`driveNodeUpdate` and the deletion; `Clean*` is `cleanupDriveRetention`. A hold (`HoldCheck`,
`HoldInsert`) looks for the row and inserts later, under a lock that the cleanup does not take; the
cleanup's DELETE looks for holds as of its start (`CleanCheck`) and takes the row later (`CleanErase`).
So a hold may name a file that is `GONE`: `legal_hold_resources` refers to no row.

## 3. What the runs check

| run | instance | checks | what it shows |
|---|---|---|---|
| `meeting_handlers` | host + member, 2 handlers, 2 rows, `Bound` | `TypeOK`, `ActiveIsLatest`, `GoneStaysGone`, `KeepsSeats` | joins, tokens, reconciliations, leaves, moderation, ends and deletes in any order keep one active row a user, bring no row back that is LEFT or REMOVED, and implement `MeetingSeats` |
| `meeting_guests` | host + external guest, 1 handler, 1 row, the worker, all of the model, fair | `AdmittedOnly`, `RolesKept`, `OverdueEnds`, `PlanEndedCloses` | no path around the waiting room; roles are stable; the worker's retries suffice |
| `recording_handlers` | 2 handlers, 2 recordings, `SecondIsUngoverned` | `TypeOK`, `HeldLostOnlyUnlocked` | purge and hold exclude each other; a held object is lost only to a delete that checked too early or a purge that lost its connection |
| `recording_library` | 1 handler, 1 recording, fair | `FinishedIsListed`, `UploadedIsSized`, `ExpiredIsPurged` | the library repairs what a crash left; later purges finish what earlier ones began |
| `export_queue` | 2 admins, 2 workers, 2 exports | `TypeOK`, `FourEyes`, `KeepsDesk`, `ReadyLostOnlyToItsBuilder` | under lost locks, crashes and failures every export goes the way of `ExportDesk`, and READY archives are there |
| `export_worker` | 2 admins, 1 worker, 2 exports, fair | `OverdueExpires`, `ApprovedIsClaimed` | the queue moves |
| `billing_webhooks` | 2 handlers, 2 checkouts, `Upgrade` | `TypeOK`, `AppliedOnce`, `KeepsLedger`, `ScheduledLostToFailedOnly` | events once, in any order, against checkout and cancellation, and each as `SubscriptionLedger` would book it alone; in the paid period of a scheduled cancellation only a failed payment ends access |
| `accounts_sessions` | 2 requests, 1 recovery code, 2 sessions, passwords and reset links | `TypeOK`, `SignedOut`, `SpentIsRemoved` | sign-ins against resets, status changes, deletion and changes of the second factor: what revocation reaches, and when a code is gone |
| `incidents_escalation` | 1 incident, 1 admin, 2 escalation and 2 email workers, 3 attempts, fair | `TypeOK`, `NoNeedlessCopy`, `KeepsAlarm`, `OverdueEscalates`, `MailIsTried` | under lost locks, lost answers and dead processes an overdue incident is escalated once, as in `IncidentAlarm`, and its mail tried until sent or given up |
| `chat_conversation` | 2 requests, 1 member, 2 purges, 2 messages, buffer of 2, `Bound` | `TypeOK`, `ErasedStaysErased`, `NewMessageUnhides`, `HeldKeepsAttachments` | edits against deletion and redaction; marks against new messages; purge and upload against hold |
| `drive_files` | 2 requests, 1 cleanup, 3 files, 3 keys of sizes 1, 1 and 2, quota of 2, `Bound` | `TypeOK`, `OvershootIsLate`, `LostOnlyToOverlap`, `KeepsCabinet`, `HeldIsKept` | by what the usage passes the quota; contents are lost to overlapping versions only; trash, cleanup and hold in every order; `Drive` implements `FileCabinet` |

There is one run for each question, and a model's safety and liveness share a run where the
instance that has the interesting cases is the same. One more run, `recording_hold_lost`,
states what the repository says of itself and finds it violated: `HeldNeverRemoved`, that
a recording under an active legal hold is not deleted (`recordings.go:408`). A delete reads
the hold with the row and removes the object later, without the lock that the purge and the
hold take. The passing `HeldLostOnlyUnlocked` states what does hold, for any number of
handlers and recordings: a held object is lost to nobody who has that lock.

Met while modelling, and left without a run of their own:

* *Meetings.* A join that had read an open meeting lands after the sweep of the duration worker
  and leaves an active row in an ended meeting (`meetings.go:249`, against
  `tasklist.md:318`). A leave that waited for a removal or for the sweep makes the REMOVED row LEFT,
  since its UPDATE repeats no status outside its subselect (`lifecycle.go:11`). `DeleteRoom` is tried once when a moderator ends a meeting and its
  error is dropped (`realtime_moderation.go:86`): the room may stay open. Ending has no
  condition on the status (`:83`), so a CANCELLED meeting becomes ENDED. Deleting a meeting
  that the worker ended takes it out of the worker's retries (`meetings.go:155`), and a client
  whose token is still valid recreates a closed room (`meeting_duration_worker.go:152`).
* *Recordings.* A start that dies before it saves its egress id blocks the meeting, because the
  repair of stale rows needs one (`recordings.go:482`, against `:113-114`); if only the answer of
  the start is lost, the row is FAILED and the egress runs (`:134`). A stop that fails sets
  its recording back to RECORDING even if it was deleted meanwhile (`:181`), and a
  deleted row may regain a size (`:505`). A purge whose connection is lost while it removes
  the object has lost its lock too, and one whose COMMIT fails has removed the object of a row that
  may be held afterwards (`governance.go:383`, `:332`).
* *Exports.* An export whose worker died stays PROCESSING, which nothing takes up and which blocks
  its requester (`data_exports_worker.go:109`, `data_exports.go:77`). After an upload whose
  UPDATE seemed to fail but did commit, the undo removes the archive of a READY export
  (`data_exports_worker.go:181`); an archive whose worker died before its UPDATE is never
  cleaned up (`:229`).
* *Billing.* The event that a cancellation causes may overtake its own UPDATE and end access at
  once (`billing.go:106`, against `tasklist.md:328`). A failed payment ends access in the paid period
  of a scheduled cancellation, also when its event arrives after the payment: `cycle.failed` makes
  PAST_DUE whatever the status is (`billing_xendit_webhook.go:222`), and the quota checks then
  refuse the workspace (`plans.go:151`, `:210`). A late `cycle.succeeded` makes a CANCELED
  subscription ACTIVE (`billing_xendit_webhook.go:236`), a late `cycle.created` makes a PAID
  invoice PENDING (`:264`; its date stays), and a cancellation that crosses an upgrade
  deactivates the old plan and marks the new one, which goes on being charged (`billing.go:114`).
* *Accounts.* A sign-in in flight survives a reset or a suspension: its session is a `stray`
  (`auth.go:119`). A login with any code writes the whole list back, so two that overlap restore
  a spent code (`:117`). `resetPassword` on an account that is not ACTIVE uses up the link and
  answers that the password was updated; two overlapping `forgotPassword` leave two
  open links. An administrator or SCIM may reactivate a deleted account, with no look at
  the quota, and two administrators may deactivate each other. Enrolment and confirmation
  name no secret: one request may confirm another's enrolment.
* *Mail and incidents.* A PROCESSING mail is never reclaimed (`onboarding.go:299`), and a scrubbed
  one is tried again at the address of the deleted account. A reopened incident keeps its
  level and is never escalated again, which `docs/observability.md:42` does not say. A
  repeated alert overwrites the severity an administrator has set; a severity lowered
  between the listing and the transaction does not stop the escalation. An audit error
  after the commit answers 500, and Alertmanager sends the alert again.
* *Chat.* The stream writes `{type,payload}` (`chat.go:212-218`) and the page parses that as the
  message itself (`page.tsx:101-102`): the first event adds an item with no id and no body, the later
  ones are dropped as its duplicates, and a streamed post is never shown (against `tasklist.md:218`).
  The page also takes the answer of a load that was asked for before the conversation was last
  selected (`page.tsx:46-52`), and after a clear it drops posts newer than `cleared_at` (`:201`, `:214`). A full
  buffer drops events (`chat_hub.go:46`), and the hub is local to its
  process. An edit may write its text into a message that has been erased (`chat.go:412`). The UPDATE of
  `updated_at` ignores its error (`:376`). Two requests may create the same direct conversation twice
  (`:119-150`), and marking as read covers messages that came after the page's last load.
* *Drive.* Of two version uploads that overlap, both are acknowledged and one content is in no
  history (`drive.go:359`). The cleanup takes no advisory lock: a file held between the listing and
  the removal keeps its row and loses its object (`:280`), and a hold whose EXISTS came before the
  cleanup's DELETE is confirmed for a file that is erased (`governance.go:207-215`). Versions and
  restores set the size of the file, which the quota counts, with no check: one of them may pass the
  limit by a whole upload (`drive.go:361`, `:399`). The objects of older versions are neither counted nor removed. An upload whose INSERT committed and
  whose answer was lost removes the object of its own row. A node may be moved below itself.

### Bounds, and why they are enough

Two handlers give every pair of steps of two requests in every order; no property
relates three handlers, and each update touches one row, so a third adds no new kind of
conflict. Two rows let a user leave and come back, or two users race. Two recordings
are what it takes for one to start while another is being stopped. Two exports fill the
queue of one requester behind another. `PerRun` is 1 where two workers race, so that a run
ends with work left, and 2 where one worker goes on after a failure. Two checkouts let a
plan be bought over another. One account is enough, because no handler
writes two; one recovery code is what two sign-ins race for, two sessions what a revocation may
half reach, two passwords an old and a new one, and two reset links one that replaces
another. One incident and one administrator suffice for the workers, which treat each
incident in a transaction and each mail in a statement of its own; two workers of each
kind race. Three attempts (five in the code) have a first, a middle and a last. Two messages are an
old and a new one, the buffer of 2 (eight in the code) is filled by one message and one other event,
and two purges meet at the lock. Two files and a third for the quota, three keys and versions: a
file with two older contents and another beside it. Of the three contents the last is as large as the two
before it (`MCSize`), so that a version can take the usage past a limit of 2 by itself.

The two-handler runs keep within minutes by a CONSTRAINT. `Bound` explores a gated
meeting for what happens among the people in it (`Membership`: nobody ends, locks or
deletes it, and the host's own client does not connect; it starts WAITING) and an open one
for how it ends (`Closing`: nobody lists, moderates people or connects). With a second
recording, `SecondIsUngoverned` has no holds and no retention. `Upgrade` gives the second plan no
cycle and no end. `Bound` of Chat has attachments on the first message only, and retention, holds and
attachments only while nobody is subscribed. `Bound` of Drive has versions, holds
and cleanups while there are at most two files, and holds on the first. What the first two cut
off is explored by the one-handler runs of the same modules, which have no constraint; Billing has no
such run, and what `Upgrade` cuts off (a second plan that is itself cycled, fails and ends) is left to
the proofs. Those of Chat and Drive cut off
combinations of parts that share no variable but the message's or the file's status. The proofs,
those of Chat and Drive too, have no bound at all. Handlers are symmetric;
symmetry is not used with liveness.

### Fairness

Only what a timer or the runtime guarantees is fair. A handler in flight takes its next
step or stops. The workers' timers fire for ever, and no statement or call of a worker
fails every time (strong fairness of its steps against `WorkerFail`, `Crash`).
LiveKit finishes uploads. The governance worker ticks every 24 hours, and not every purge of a recording
fails, dies or loses its connection (strong fairness of `Expire`, `PurgeSelect`, `PurgeLock`, of
`PurgeRemove` with the lock and of `PurgeErase`, against `PurgeFails`, `PurgeUnlocks` and `Abort`). Some escalation worker starts a pass at every tick and every pass
ends (weak fairness of `PassStart`, `PassEnd`); a given incident's transaction does not roll
back for ever (strong fairness of `Escalate`, against `EscalateFails` and lost locks). Email
workers go on and five minutes pass (weak fairness of their steps and of `Retry`), but
nothing says that a claim, an answer of the mail server or a save ever succeeds: `MailIsTried`
has the failures in its conclusion. The library is polled by its page, so its
reconciliation starts again and again. No client, no administrator and no egress end
is fair.

## 4. What is proved

All theorems hold for any finite or infinite set of users, handlers, workers and any
row bound; the constants' assumptions (`UsersAssumption`, `MaxRowsAssumption`,
`ProcsAssumption`, `MaxRecsAssumption`, `AdminsAssumption`, `WorkersAssumption`,
`BoundsAssumption`, `MaxPlansAssumption`, `CodesAssumption`, `MailsAssumption`,
`AttemptsAssumption`, `AgeAssumption`, `MailsAreNotices`, `FreeAssumption`, `SizeAssumption`) are all they use;
of `Drive` the requests are finite in number.

* `MeetingRoomProofs`: `TypeCorrect`; `Invariant`, the inductive invariant `IInv`; from it
  `LatestRowIsTheSession` (`ActiveIsLatest`), `WaitingRoomHolds` (`AdmittedOnly`),
  `RolesAreKept`; and the action properties `GoneRowsStay` (`GoneStaysGone`),
  `OverStaysOver` (`OverIsFinal`). `ActiveIsLatest` alone is not inductive: an insert takes
  the first free row, so rows must fill in order (`RowsInOrder`); a restore
  or a moderation writes a row chosen earlier, so the row must exist and be the caller's
  (`TargetsExist`). `AdmittedOnly` is about tokens; it needs that whoever is
  present, or about to be given a token, was admitted (`PresentAdmitted`,
  `SignersAdmitted`). `SeatsAreKept` (`KeepsSeats`) maps each statement to a step of
  `MeetingSeats` or to none; the host's join starts the meeting two statements after it inserted
  the row, so it needs that whoever is to start it is the host and has a row (`StartersHosted`).
* `RecordingProofs`: `RecordingTypeCorrect`, `PurgeNeverTouchesHeld` (`PurgeSparesHeld`,
    strengthened to `LockHeld`: whoever places a hold has the lock),
  `HeldObjectsSurvive` (`HeldLostOnlyUnlocked`), `OneRecordingAtATime`
  (`OneActiveRecording`).
* `DataExportProofs`: `DataExportTypeCorrect`, `FourEyesHold`, `OneBuilderEach`,
  `SettledStaysSettled`, `ReadyArchivesSurvive`, from `IInv` with `InWork`: a job in work
  was approved, is PROCESSING until it is saved, and what a cleanup selected is still
  overdue when it is removed. `OneBuilder` does not rest on the workers' lock, which may be
  lost, but on the claim. `ExportsKeepTheDesk` (`KeepsDesk`) has one lemma for each kind of step
  (`AskedStep` to `FailedStep`) and needs what the store holds while a worker is between
  the archive and the row: it is there before a save, gone before an expiry, and whoever
  undoes works on a row that nobody has settled as FAILED (`InStore`).
* `BillingProofs`: `BillingTypeCorrect`, `EventsApplyOnce`, `SchedulesAreCurrent`,
  `HistoryChains`, `OnlyFailuresEndAccess` (`ScheduledLostToFailedOnly`), `SettledCheckouts`, `PaidInvoices`, from
  `BillingInvariant`. `AppliedOnce` needs that an event in flight is in one transaction
  and not yet committed (`EventsClaimed`); the history and the schedule that what a
  transaction read under its lock is still so when it writes (`LockedRead`), the schedule also that
  what it is about to write is what its event asks for (`LockedEvent`); settled
  checkouts that a checkout has one handler, which finds it unsettled (`CheckoutsOwned`),
  and that Xendit never reports a session both paid and expired (`SessionsAgree`).
  `BooksAreALedger` (`KeepsLedger`): the commit of a webhook is `Book` of `SubscriptionLedger` and
  every earlier statement of it a stutter, because the event it holds was reported and what
  it read and decided at the lock is what the ledger would decide now (`LockedEvent`).
* `IncidentsProofs`: `IncidentsTypeCorrect`, `NoCopyWithoutError` (`NoNeedlessCopy`),
  `EscalationIsUnique` (`EscalatedOnce`), from `IncidentsInvariant`. A mail's count of copies
  needs that of all workers at one mail one at most has its recipient's address (`OneReal`;
  another can be there only after the mail was scrubbed, `AddressKnown`), and that what a worker
  knows of the server is so (`AnswerTrue`); an escalation is unique because the level counts them
  (`LevelCounts`). Neither rests on the advisory lock.
  `AlarmReachesOnce` (`KeepsAlarm`) composes the two: the escalation's transaction is `Raise`, the
  server's first answer `Deliver`, the rest stutters or changes the situation; a pass that listed
  an incident long ago may only raise it because incidents do not grow younger (`ListedRipe`).
* `AccountsProofs`: `AccountsTypeCorrect`, `RevocationReachesAll` (`SignedOut`),
  `CodesAreSpentOnce` (`SpentIsRemoved`), from `AccountsInvariant`. `SignedOut` is inductive with the
  types; the codes need that one sign-in at most is about to write the list (`OneList`) and
  that what it writes has no spent code (`ListIsClean`), both only until something muddles it.
* `ChatProofs`: `ChatTypeCorrect`, `ErasedTextIsGone`
  (`ErasedStaysErased`), `HiddenUntilNextMessage` (`NewMessageUnhides`), `HoldsKeepAttachments`
  (`HeldKeepsAttachments`), from `ChatInvariant`. An edit under way on a
  deleted message has muddled it (`EditsMuddle`); whoever hides the conversation has seen all
  that is posted because messages are posted in their order (`PostedInOrder`); and a purge that has its
  lock finds no hold (`PurgesUnheld`), since a hold takes the lock too.
* `DriveProofs`: `DriveTypeCorrect`, `VersionsAreKept` (`LostOnlyToOverlap`), `CleanupsRemoveTrash`
  (`RemovedOnlyAsTrash`), `HoldsKeepFiles` (`HeldIsKept`), `OvershootNeedsOvertaking` (`OvershootIsLate`),
  from `DriveInvariant`. What a request works on exists and is not overdue (`Busy`), so
  no request writes what a cleanup has listed (`Overdue`). A content belongs to one file as
  far as rows, versions, requests and cleanups know it (`Apart`), so a cleanup removes no object of another
  file. Requests that read one version read one content (`KeyOfVersion`), so a version row that is
  there already holds the content it should. An upload past the check
  of the quota was checked against a usage that left room for it (`Checked`), so it passes the limit only
  when the usage has grown since. `FilesAreACabinet` (`KeepsCabinet`) needs besides that
  nobody knows what a request has stored before it is committed, so a commit shows a new content
  that is in the store, and that what is restored stays in the history (`OwnKeys`).

`OverIsFinal`, `PurgeSparesHeld`, `OneActiveRecording`, `OneBuilder`, `SettledIsFinal`,
`HistoryIsAChain`, `ScheduledIsCurrent`, `SettledCheckoutStays`, `PaidStaysPaid`, `EscalatedOnce` and
`RemovedOnlyAsTrash` are
proved and in no run: the theorem says more than the small instance would, and the refinements
that the runs check contain most of them.

Each refinement is proved in two halves: the initial states map to initial states, and under the
inductive invariant every step maps to a step of the abstract specification or leaves its variables
alone. What the mapping hides (who holds a lock, what a request carries) is what the
strengthened invariants speak of.

Only model-checked: liveness (`OverdueEnds`, `PlanEndedCloses`, `FinishedIsListed`,
`UploadedIsSized`, `ExpiredIsPurged`, `OverdueExpires`, `ApprovedIsClaimed`, `OverdueEscalates`, `MailIsTried`), which
is beyond the prover.

## 5. Plan

1. Done: every component of the table but the last row, each with its inductive invariant, its
   safety and action properties proved, and the five abstract specifications with the proofs that
   the code implements them.
2. Next: an abstract specification of the sessions of `Accounts`, and
   proofs that each pass of a worker ends (a measure that every step of it shrinks), which is the part of
   the liveness properties that the prover can reach.

### Not modelled

* Billing: the provider-neutral webhook (`billing.go:132-214`), which repeats the transaction of the Xendit one
  with other event names; renewals, since a second cycle repeats the first.
* Meetings: the batch of 50 of the duration worker, which needs many meetings for one question;
  the composition with `Recording`, where the only shared step is an egress that ends with the room,
  and `Recording` lets an egress end at any time.
* Chat: creation of conversations and members, search, reactions, pins and the read mark, of which only
  the event they publish matters to another actor. Drive: folders, shares and downloads.
* Accounts: the bootstrap of the first workspace, profiles, the configuration and token
  validation of the provider; of SCIM the groups. Incidents: notes, titles, assignees, their log.
* Calendar, rooms, history, directory, roles, platform administration, dashboards, search and audit: single
  statements and transactions over tables nobody else decides on, which a model would only restate.
* The web client, its chat page included, process start and shutdown, and the deployment.
