------------------------------- MODULE Incidents -------------------------------
(***************************************************************************)
(* The incidents of a workspace, from administrators and from the alerts   *)
(* of Alertmanager, and the worker that escalates those that nobody has    *)
(* acknowledged in time and queues a mail for every administrator.  Each   *)
(* action is one transaction.                                              *)
(***************************************************************************)
EXTENDS Outbox

CONSTANTS
    Ids,       \* the incidents; one that has an alert has its fingerprint
    Admins,    \* the administrators that may be told
    Workers,   \* the escalation workers of the API processes
    MaxAge     \* bound: ages of an incident that are told apart

ASSUME MailsAreNotices == Mails = Ids \X Admins
ASSUME AgeAssumption == MaxAge \in Nat \ {0}

VARIABLES
    incident,   \* the rows of incidents
    worker      \* the workers

vars == <<incident, worker, mail, sender>>

Statuses == {"OPEN", "ACKNOWLEDGED", "INVESTIGATING", "RESOLVED", "CLOSED"}
Severities == {"P1", "P4"}

\* How old an incident is before nobody's answer is too late.
Deadline(severity) == IF severity = "P1" THEN 1 ELSE MaxAge

\* acked, resolved: acknowledged_at and resolved_at are set; told is not stored: how
\* many escalations were committed.
Incident == [status: Statuses \cup {"NONE"}, severity: Severities, age: 0..MaxAge,
             acked: BOOLEAN, resolved: BOOLEAN, level: 0..1, told: 0..2]

\* on: it holds the advisory lock.
Worker == [on: BOOLEAN, todo: SUBSET Ids]

TypeOK ==
    /\ OutboxTypeOK
    /\ incident \in [Ids -> Incident]
    /\ worker \in [Workers -> Worker]
    /\ \A v, w \in Workers : worker[v].on /\ worker[w].on => v = w
    /\ \A w \in Workers : worker[w].todo # {} => worker[w].on
    /\ \A i \in Ids : incident[i].resolved <=> incident[i].status \in {"RESOLVED", "CLOSED"}

-----------------------------------------------------------------------------
NoIncident == [status |-> "NONE", severity |-> "P4", age |-> 0, acked |-> FALSE,
               resolved |-> FALSE, level |-> 0, told |-> 0]

Off == [on |-> FALSE, todo |-> {}]

Init ==
    /\ OutboxInit
    /\ incident = [i \in Ids |-> NoIncident]
    /\ worker = [w \in Workers |-> Off]

Is(i, status) == incident[i].status = status

Set(i, row) == incident' = [incident EXCEPT ![i] = row] /\ UNCHANGED <<worker, outbox>>

-----------------------------------------------------------------------------
(* createAdminIncident, updateAdminIncident, transitionAdminIncident *)

Create(i, severity) ==
    /\ Is(i, "NONE")
    /\ Set(i, [NoIncident EXCEPT !.status = "OPEN", !.severity = severity])

SetSeverity(i, severity) ==
    /\ ~Is(i, "NONE")
    /\ Set(i, [incident[i] EXCEPT !.severity = severity])

Acknowledge(i) ==
    /\ Is(i, "OPEN")
    /\ Set(i, [incident[i] EXCEPT !.status = "ACKNOWLEDGED", !.acked = TRUE])

Investigate(i) ==
    /\ incident[i].status \in {"OPEN", "ACKNOWLEDGED"}
    /\ Set(i, [incident[i] EXCEPT !.status = "INVESTIGATING"])

Resolve(i) ==
    /\ incident[i].status \in {"OPEN", "ACKNOWLEDGED", "INVESTIGATING"}
    /\ Set(i, [incident[i] EXCEPT !.status = "RESOLVED", !.resolved = TRUE])

Close(i) ==
    /\ Is(i, "RESOLVED")
    /\ Set(i, [incident[i] EXCEPT !.status = "CLOSED"])

\* It keeps its age, and that it was acknowledged and escalated.
Reopen(i) ==
    /\ incident[i].status \in {"RESOLVED", "CLOSED"}
    /\ Set(i, [incident[i] EXCEPT !.status = "OPEN", !.resolved = FALSE])

-----------------------------------------------------------------------------
(* upsertAlertIncident: a delivery may be repeated and come out of order.  Of two that *)
(* insert the same fingerprint one fails on the unique index, and is sent again.       *)

\* Mutant: the time of the resolution stays.
FiringKept(i) == IF incident[i].status \in {"RESOLVED", "CLOSED"}
                 THEN [incident[i] EXCEPT !.status = "OPEN"] ELSE incident[i]

Firing(i) ==
    CASE Is(i, "NONE") -> [NoIncident EXCEPT !.status = "OPEN"]
      [] incident[i].status \in {"RESOLVED", "CLOSED"} ->
            [incident[i] EXCEPT !.status = "OPEN", !.resolved = FALSE]
      [] OTHER -> incident[i]

AlertFires(i, severity) == Set(i, [Firing(i) EXCEPT !.severity = severity])

AlertResolved(i) ==
    CASE Is(i, "NONE") -> [NoIncident EXCEPT !.status = "RESOLVED", !.resolved = TRUE]
      [] Is(i, "CLOSED") -> incident[i]
      [] OTHER -> [incident[i] EXCEPT !.status = "RESOLVED", !.resolved = TRUE]

AlertResolves(i, severity) == Set(i, [AlertResolved(i) EXCEPT !.severity = severity])

\* Time: the age of an incident.
Ages(i) ==
    /\ ~Is(i, "NONE") /\ incident[i].age < MaxAge
    /\ Set(i, [incident[i] EXCEPT !.age = @ + 1])

-----------------------------------------------------------------------------
(* runIncidentEscalation and escalateIncident *)

\* The condition both statements have.
Unheard(i) == incident[i].level = 0 /\ Is(i, "OPEN") /\ ~incident[i].acked

Overdue(i) == Unheard(i) /\ incident[i].age >= Deadline(incident[i].severity)

LockIsFree == \A w \in Workers : ~worker[w].on

\* It takes the lock and lists what is overdue.
PassStart(w) ==
    /\ LockIsFree
    /\ worker' = [worker EXCEPT ![w] = [on |-> TRUE, todo |-> {i \in Ids : Overdue(i)}]]
    /\ UNCHANGED <<incident, outbox>>

Done(w, i) == worker' = [worker EXCEPT ![w].todo = @ \ {i}]

\* Mutant: escalates what was listed.
StillUnheardBlind(i) == incident[i].level = 0

StillUnheard(i) == Unheard(i)

\* The mails go to those who are ACTIVE administrators now.  Their deadline is not looked
\* at again, and an answer to the COMMIT that is lost changes nothing.
Escalate(w, i) ==
    /\ i \in worker[w].todo
    /\ IF StillUnheard(i)
       THEN /\ incident' = [incident EXCEPT ![i].level = 1, ![i].told = @ + 1]
            /\ \E active \in SUBSET Admins : mail' = Queued({i} \X active)
       ELSE UNCHANGED <<incident, mail>>
    /\ Done(w, i)
    /\ UNCHANGED sender

\* The transaction of one incident rolls back, and the pass goes on.
EscalateFails(w, i) ==
    /\ i \in worker[w].todo /\ Done(w, i)
    /\ UNCHANGED <<incident, outbox>>

\* Mutant: the lock stays.
PassEndLocked(w) ==
    /\ worker[w].on
    /\ worker' = [worker EXCEPT ![w].todo = {}]
    /\ UNCHANGED <<incident, outbox>>

\* The pass is over, or its connection is lost, which frees the lock and fails the rest.
PassEnd(w) ==
    /\ worker[w].on
    /\ worker' = [worker EXCEPT ![w] = Off]
    /\ UNCHANGED <<incident, outbox>>

-----------------------------------------------------------------------------
Administer(i) ==
    \/ Acknowledge(i) \/ Investigate(i) \/ Resolve(i) \/ Close(i) \/ Reopen(i)
    \/ \E severity \in Severities : Create(i, severity) \/ SetSeverity(i, severity)

Alert(i) == \E severity \in Severities : AlertFires(i, severity) \/ AlertResolves(i, severity)

Work(w) == PassStart(w) \/ PassEnd(w) \/ \E i \in Ids : Escalate(w, i) \/ EscalateFails(w, i)

Next ==
    \/ \E i \in Ids : Administer(i) \/ Alert(i) \/ Ages(i)
    \/ \E w \in Workers : Work(w)
    \/ OutboxNext /\ UNCHANGED <<incident, worker>>

Spec == Init /\ [][Next]_vars

\* Some worker starts a pass every interval, takes up what it has listed, and comes to its
\* end; no incident's transaction, and no worker's answer, fails for ever.
Fairness ==
    /\ WF_vars(\E w \in Workers : PassStart(w))
    /\ \A w \in Workers : WF_vars(PassEnd(w))
    /\ \A i \in Ids : SF_vars(\E w \in Workers : Escalate(w, i))
    /\ \A s \in Senders : WF_vars((Claim(s) \/ Send(s) \/ Save(s)) /\ UNCHANGED <<incident, worker>>)
    /\ \A m \in Mails : WF_vars(Retry(m) /\ UNCHANGED <<incident, worker>>)

FairSpec == Spec /\ Fairness

-----------------------------------------------------------------------------
(* What must hold *)

\* An incident is escalated, and mails are queued for it, at most once in its life, however
\* often passes fail, lose the lock or overlap, and never when an administrator has answered
\* it by the time of the transaction, though the pass had listed it before.
EscalatedOnce ==
    [][\A i \in Ids :
          (\/ incident'[i].told # incident[i].told
           \/ \E a \in Admins : mail[<<i, a>>].status = "NONE" /\ mail'[<<i, a>>].status # "NONE")
          => incident[i].told = 0 /\ Is(i, "OPEN") /\ ~incident[i].acked]_vars

Waiting == {i \in Ids : Is(i, "OPEN") /\ ~incident[i].acked}
Ripe    == {i \in Ids : incident[i].age >= Deadline("P1")}
Queue   == {m \in Mails : mail[m].status # "NONE"}

Alarm == INSTANCE IncidentAlarm WITH
    waiting <- Waiting, ripe <- Ripe, notices <- Queue,
    alarms <- [i \in Ids |-> incident[i].told], copies <- [m \in Mails |-> mail[m].taken]

\* From the incident to the mailbox: whatever passes, workers, answers and accounts are lost
\* on the way, an incident raises one alarm, while it waits and is old enough at that moment,
\* though it was listed earlier; its notices are decided in that step, and none is
\* delivered that was not, or twice (escalateIncident, deliverOneEmail).
KeepsAlarm == Alarm!Spec

\* An incident that is overdue is escalated, unless somebody answers it, or its severity
\* is lowered, first.
OverdueEscalates == \A i \in Ids : Overdue(i) ~> ~Overdue(i)

\* A mail is tried until it was sent or every attempt has been used, or until a worker
\* failed to save what came of it, which leaves it PROCESSING for ever.
MailIsTried ==
    \A m \in Mails :
       mail[m].status = "PENDING" ~>
          \/ mail[m].status = "SENT" \/ mail[m].attempts = MaxAttempts
          \/ mail[m].status = "PROCESSING" /\ \A s \in Senders : sender[s].mail # m
===============================================================================
