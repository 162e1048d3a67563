--------------------------- MODULE IncidentsProofs ---------------------------
(* Theorems about Incidents and its Outbox, for any incidents, administrators, *)
(* workers and bounds.                                                         *)
EXTENDS Incidents, TLAPS

USE MailsAssumption, AttemptsAssumption, AgeAssumption
  DEF MailsAssumption, AttemptsAssumption, AgeAssumption

-----------------------------------------------------------------------------
(* The outbox *)

Busy(s) == sender[s].pc # "idle"

\* A worker that has claimed a mail has one that exists.
ClaimedExists == \A s \in Senders : Busy(s) => /\ sender[s].mail \in Mails
                                               /\ mail[sender[s].mail].status # "NONE"

\* Of the workers that are at one mail, one at most has its recipient's address ...
OneReal ==
    \A s \in Senders, t \in Senders :
       /\ Busy(s) /\ Busy(t) /\ sender[s].real /\ sender[t].real
       /\ sender[s].mail = sender[t].mail
       => s = t

\* ... and as long as the address is not scrubbed the mail is PROCESSING.
AddressKnown ==
    \A s \in Senders : Busy(s) =>
       \/ mail[sender[s].mail].scrubbed
       \/ sender[s].real /\ mail[sender[s].mail].status = "PROCESSING"

\* What a worker knows of the mail server is what happened there.
AnswerTrue ==
    \A s \in Senders : Busy(s) /\ sender[s].real =>
       mail[sender[s].mail].taken = IF sender[s].pc = "sent" THEN 1 ELSE 0

\* A mail that was taken is out of the reach of every other claim.
TakenIsClaimed ==
    \A m \in Mails :
       /\ mail[m].taken <= 1
       /\ mail[m].taken = 1 => mail[m].scrubbed \/ mail[m].status \in {"PROCESSING", "SENT"}
       /\ mail[m].status = "SENT" => mail[m].taken = 1 \/ mail[m].scrubbed
       /\ mail[m].status = "NONE" => mail[m].taken = 0 /\ ~mail[m].scrubbed

OutboxInv ==
    OutboxTypeOK /\ ClaimedExists /\ OneReal /\ AddressKnown /\ AnswerTrue /\ TakenIsClaimed

LEMMA IdleType == Idle \in Sender /\ Idle.pc = "idle"
BY DEF Idle, Sender

LEMMA RowTypes ==
  /\ NoRow \in Row
  /\ \A row \in Row : [row EXCEPT !.status = "PENDING", !.due = TRUE] \in Row
  /\ \A row \in Row, n \in 0..MaxAttempts :
        [row EXCEPT !.status = "PROCESSING", !.attempts = n] \in Row
<1>1. NoRow \in Row
  BY DEF NoRow, Row
<1>2. \A row \in Row : [row EXCEPT !.status = "PENDING", !.due = TRUE] \in Row
  BY DEF Row
<1>3. \A row \in Row, n \in 0..MaxAttempts :
        [row EXCEPT !.status = "PROCESSING", !.attempts = n] \in Row
  BY DEF Row
<1> QED BY <1>1, <1>2, <1>3

LEMMA QueuedStep ==
  ASSUME OutboxInv, NEW ms \in SUBSET Mails, mail' = Queued(ms), sender' = sender
  PROVE  OutboxInv'
<1> USE DEF OutboxInv, Busy
<1>1. [NoRow EXCEPT !.status = "PENDING", !.due = TRUE] \in Row
  BY RowTypes
<1>2. mail' \in [Mails -> Row]
  BY <1>1 DEF Queued, OutboxTypeOK
<1>3. \A m \in Mails : mail[m].status # "NONE" => mail'[m] = mail[m]
  BY DEF Queued
<1>4. \A m \in Mails : mail'[m] # mail[m] =>
         mail'[m].taken = 0 /\ ~mail'[m].scrubbed /\ mail'[m].status = "PENDING"
  BY DEF Queued, NoRow
<1>5. OutboxTypeOK'
  BY <1>2 DEF OutboxTypeOK
<1>6. ClaimedExists' /\ OneReal' /\ AddressKnown' /\ AnswerTrue'
  BY <1>3 DEF ClaimedExists, OneReal, AddressKnown, AnswerTrue
<1>7. TakenIsClaimed'
  BY <1>4 DEF TakenIsClaimed
<1> QED BY <1>5, <1>6, <1>7

LEMMA ClaimStep == ASSUME OutboxInv, NEW s \in Senders, Claim(s) PROVE OutboxInv'
<1> USE DEF OutboxInv, Busy
<1>1. PICK m \in Mails :
         /\ Claimable(m)
         /\ mail' = [mail EXCEPT ![m].status = "PROCESSING", ![m].attempts = @ + 1]
         /\ \/ sender' = [sender EXCEPT ![s] = [pc |-> "send", mail |-> m,
                                                     real |-> ~mail[m].scrubbed]]
            \/ UNCHANGED sender
  BY DEF Claim
<1>2. /\ mail[m] \in Row /\ mail[m].attempts < MaxAttempts
      /\ mail[m].status \in {"PENDING", "FAILED"}
  BY <1>1 DEF Claimable, OutboxTypeOK
<1>3. \A n \in Mails : n # m => mail'[n] = mail[n]
  BY <1>1 DEF OutboxTypeOK
<1>4. mail' \in [Mails -> Row]
  <2>1. mail[m].attempts + 1 \in 0..MaxAttempts
    BY <1>2 DEF Row
  <2>2. [mail[m] EXCEPT !.status = "PROCESSING", !.attempts = mail[m].attempts + 1] \in Row
    BY <1>2, <2>1, RowTypes
  <2> QED BY <1>1, <2>2 DEF OutboxTypeOK
<1>5. /\ mail'[m].status = "PROCESSING" /\ mail'[m].taken = mail[m].taken
      /\ mail'[m].scrubbed = mail[m].scrubbed
  BY <1>1, <1>2 DEF Row, OutboxTypeOK
<1>6. \A n \in Mails : mail'[n].taken = mail[n].taken /\ mail'[n].scrubbed = mail[n].scrubbed
  BY <1>3, <1>5
<1>7. CASE UNCHANGED sender
  <2>1. OutboxTypeOK'
    BY <1>4, <1>7 DEF OutboxTypeOK
  <2>2. ClaimedExists' /\ OneReal' /\ AddressKnown' /\ AnswerTrue'
    BY <1>3, <1>5, <1>7 DEF ClaimedExists, OneReal, AddressKnown, AnswerTrue
  <2>3. TakenIsClaimed'
    BY <1>3, <1>5 DEF TakenIsClaimed
  <2> QED BY <2>1, <2>2, <2>3
<1>8. CASE sender' = [sender EXCEPT ![s] = [pc |-> "send", mail |-> m, real |-> ~mail[m].scrubbed]]
  <2>1. /\ sender'[s].pc = "send" /\ sender'[s].mail = m
        /\ \A t \in Senders : t # s => sender'[t] = sender[t]
    BY <1>8 DEF OutboxTypeOK
  <2>r. sender'[s].real <=> ~mail[m].scrubbed
    BY <1>8 DEF OutboxTypeOK
  <2>2. OutboxTypeOK'
    <3>1. mail[m].scrubbed \in BOOLEAN
      BY <1>2 DEF Row
    <3>2. [pc |-> "send", mail |-> m, real |-> ~mail[m].scrubbed] \in Sender
      BY <3>1 DEF Sender
    <3> QED BY <1>4, <1>8, <3>2 DEF OutboxTypeOK
  <2>3. ClaimedExists'
    BY <1>3, <1>5, <2>1 DEF ClaimedExists
  <2>4. \A t \in Senders : Busy(t) /\ sender[t].mail = m => mail[m].scrubbed
    BY <1>2 DEF AddressKnown
  <2>5. OneReal'
    BY <2>1, <2>r, <2>4 DEF OneReal
  <2>6. AddressKnown'
    BY <1>3, <1>5, <2>1, <2>r, <2>4 DEF AddressKnown, ClaimedExists
  <2>7. AnswerTrue'
    <3>1. ~mail[m].scrubbed => mail[m].taken = 0
      <4>1. mail[m].taken \in Nat /\ mail[m].taken <= 1
        BY <1>2 DEF Row, TakenIsClaimed
      <4> QED BY <1>2, <4>1 DEF TakenIsClaimed
    <3> QED BY <1>3, <1>5, <2>1, <2>r, <3>1 DEF AnswerTrue, ClaimedExists
  <2>8. TakenIsClaimed'
    BY <1>3, <1>5 DEF TakenIsClaimed
  <2> QED BY <2>2, <2>3, <2>5, <2>6, <2>7, <2>8
<1> QED BY <1>1, <1>7, <1>8

LEMMA SendStep == ASSUME OutboxInv, NEW s \in Senders, Send(s) PROVE OutboxInv'
<1> USE DEF OutboxInv, Busy
<1>1. PICK m \in Mails : sender[s].mail = m
  BY DEF Send, ClaimedExists
<1>2. sender[s].pc = "send" /\ mail[m] \in Row /\ sender[s] \in Sender
  BY <1>1 DEF Send, OutboxTypeOK
<1>3. PICK pc \in {"sent", "failed"} : sender' = [sender EXCEPT ![s].pc = pc]
  BY DEF Send
<1>4. /\ sender'[s].pc = pc /\ sender'[s].mail = m /\ sender'[s].real = sender[s].real
      /\ \A t \in Senders : t # s => sender'[t] = sender[t]
  BY <1>1, <1>2, <1>3 DEF OutboxTypeOK, Sender
<1>5. sender' \in [Senders -> Sender]
  BY <1>2, <1>3 DEF OutboxTypeOK, Sender
<1>6. OneReal'
  BY <1>1, <1>2, <1>4 DEF OneReal
<1>7. CASE UNCHANGED mail /\ (pc = "failed" \/ ~sender[s].real)
  <2>1. OutboxTypeOK' /\ TakenIsClaimed'
    BY <1>5, <1>7 DEF OutboxTypeOK, TakenIsClaimed
  <2>2. ClaimedExists' /\ AddressKnown'
    BY <1>1, <1>2, <1>4, <1>7 DEF ClaimedExists, AddressKnown
  <2>3. AnswerTrue'
    BY <1>1, <1>2, <1>4, <1>7 DEF AnswerTrue
  <2> QED BY <1>6, <2>1, <2>2, <2>3
<1>8. CASE mail' = [mail EXCEPT ![m].taken = @ + 1] /\ sender[s].real /\ pc = "sent"
  <2>1. mail[m].taken = 0
    BY <1>1, <1>2, <1>8 DEF AnswerTrue
  <2>2. /\ mail'[m].taken = 1 /\ mail'[m].status = mail[m].status
        /\ mail'[m].scrubbed = mail[m].scrubbed
    BY <1>2, <1>8, <2>1 DEF OutboxTypeOK, Row
  <2>3. \A n \in Mails : n # m => mail'[n] = mail[n]
    BY <1>8 DEF OutboxTypeOK
  <2>4. OutboxTypeOK'
    <3>1. [mail[m] EXCEPT !.taken = 1] \in Row
      BY <1>2 DEF Row
    <3>2. mail' = [mail EXCEPT ![m] = [mail[m] EXCEPT !.taken = 1]]
      BY <1>8, <2>1
    <3> QED BY <1>5, <3>1, <3>2 DEF OutboxTypeOK
  <2>5. ClaimedExists' /\ AddressKnown'
    BY <1>1, <1>2, <1>4, <2>2, <2>3 DEF ClaimedExists, AddressKnown
  <2>6. AnswerTrue'
    <3>1. \A t \in Senders : Busy(t) /\ sender[t].real /\ sender[t].mail = m => t = s
      BY <1>1, <1>2, <1>8 DEF OneReal
    <3> QED BY <1>1, <1>2, <1>4, <1>8, <2>2, <2>3, <3>1 DEF AnswerTrue, ClaimedExists
  <2>7. TakenIsClaimed'
    <3>1. mail[m].scrubbed \/ mail[m].status = "PROCESSING"
      BY <1>1, <1>2 DEF AddressKnown
    <3> QED BY <2>2, <2>3, <3>1 DEF TakenIsClaimed
  <2> QED BY <1>6, <2>4, <2>5, <2>6, <2>7
<1>9. (UNCHANGED mail /\ (pc = "failed" \/ ~sender[s].real))
      \/ (mail' = [mail EXCEPT ![m].taken = @ + 1] /\ sender[s].real /\ pc = "sent")
  <2>1. sender'[s].pc = pc
    BY <1>4
  <2>2. CASE sender' = [sender EXCEPT ![s].pc = "failed"] /\ UNCHANGED mail
    BY <2>1, <2>2 DEF OutboxTypeOK, Sender
  <2>3. CASE /\ mail' = IF sender[s].real THEN [mail EXCEPT ![m].taken = @ + 1] ELSE mail
             /\ sender' = [sender EXCEPT ![s].pc = "sent"]
    BY <2>1, <2>3 DEF OutboxTypeOK, Sender
  <2> QED BY <1>1, <2>2, <2>3 DEF Send
<1> QED BY <1>7, <1>8, <1>9

LEMMA SaveStep == ASSUME OutboxInv, NEW s \in Senders, Save(s) PROVE OutboxInv'
<1> USE DEF OutboxInv, Busy
<1>1. PICK m \in Mails : sender[s].mail = m
  BY DEF Save, ClaimedExists
<1>2. sender[s].pc \in {"sent", "failed"} /\ mail[m] \in Row
  BY <1>1 DEF Save, OutboxTypeOK
<1>3. /\ sender'[s].pc = "idle"
      /\ \A t \in Senders : t # s => sender'[t] = sender[t]
      /\ sender' \in [Senders -> Sender]
  BY IdleType DEF Save, OutboxTypeOK
<1>4. /\ mail'[m].status = (IF sender[s].pc = "sent" THEN "SENT" ELSE "FAILED")
      /\ mail'[m].taken = mail[m].taken /\ mail'[m].scrubbed = mail[m].scrubbed
      /\ \A n \in Mails : n # m => mail'[n] = mail[n]
  BY <1>1, <1>2 DEF Save, OutboxTypeOK, Row
<1>5. mail' \in [Mails -> Row]
  <2>1. /\ [mail[m] EXCEPT !.status = "SENT"] \in Row
        /\ [mail[m] EXCEPT !.status = "FAILED", !.due = FALSE] \in Row
    BY <1>2 DEF Row
  <2> QED BY <1>1, <2>1 DEF Save, OutboxTypeOK
<1>6. mail[m].scrubbed \/ sender[s].real
  BY <1>1, <1>2 DEF AddressKnown
<1>7. OutboxTypeOK'
  BY <1>3, <1>5 DEF OutboxTypeOK
<1>8. ClaimedExists' /\ OneReal' /\ AnswerTrue'
  BY <1>3, <1>4 DEF ClaimedExists, OneReal, AnswerTrue
<1>9. AddressKnown'
  <2>1. \A t \in Senders : t # s /\ Busy(t) /\ sender[t].mail = m => mail[m].scrubbed
    BY <1>1, <1>2, <1>6 DEF OneReal, AddressKnown
  <2> QED BY <1>3, <1>4, <2>1 DEF AddressKnown, ClaimedExists
<1>10. TakenIsClaimed'
  <2>1. sender[s].real => mail[m].taken = IF sender[s].pc = "sent" THEN 1 ELSE 0
    BY <1>1, <1>2 DEF AnswerTrue
  <2> QED BY <1>2, <1>4, <1>6, <2>1 DEF TakenIsClaimed
<1> QED BY <1>7, <1>8, <1>9, <1>10

LEMMA LoseStep == ASSUME OutboxInv, NEW s \in Senders, Lose(s) PROVE OutboxInv'
<1> USE DEF OutboxInv, Busy
<1>1. /\ sender'[s].pc = "idle" /\ mail' = mail
      /\ \A t \in Senders : t # s => sender'[t] = sender[t]
      /\ sender' \in [Senders -> Sender]
  BY IdleType DEF Lose, OutboxTypeOK
<1>2. OutboxTypeOK' /\ TakenIsClaimed'
  BY <1>1 DEF OutboxTypeOK, TakenIsClaimed
<1>3. ClaimedExists' /\ OneReal' /\ AddressKnown' /\ AnswerTrue'
  BY <1>1 DEF ClaimedExists, OneReal, AddressKnown, AnswerTrue
<1> QED BY <1>2, <1>3

LEMMA ClockStep ==
  ASSUME OutboxInv, NEW m \in Mails, Retry(m) \/ Scrub(m) PROVE OutboxInv'
<1> USE DEF OutboxInv, Busy
<1>1. sender' = sender /\ \A n \in Mails : n # m => mail'[n] = mail[n]
  BY DEF Retry, Scrub, OutboxTypeOK
<1>2. mail[m] \in Row
  BY DEF OutboxTypeOK
<1>3. CASE Retry(m)
  <2>1. /\ mail'[m].status = mail[m].status /\ mail'[m].taken = mail[m].taken
        /\ mail'[m].scrubbed = mail[m].scrubbed
    BY <1>2, <1>3 DEF Retry, OutboxTypeOK, Row
  <2>2. [mail[m] EXCEPT !.due = TRUE] \in Row
    BY <1>2 DEF Row
  <2>3. OutboxTypeOK'
    BY <1>1, <1>3, <2>2 DEF Retry, OutboxTypeOK
  <2>4. ClaimedExists' /\ OneReal' /\ AddressKnown' /\ AnswerTrue'
    BY <1>1, <2>1 DEF ClaimedExists, OneReal, AddressKnown, AnswerTrue
  <2>5. TakenIsClaimed'
    BY <1>1, <2>1 DEF TakenIsClaimed
  <2> QED BY <2>3, <2>4, <2>5
<1>4. CASE Scrub(m)
  <2> DEFINE status == IF mail[m].status \in {"PENDING", "PROCESSING"} THEN "FAILED"
                       ELSE mail[m].status
  <2>1. /\ mail' = [mail EXCEPT ![m].scrubbed = TRUE, ![m].status = status]
        /\ status # "NONE" /\ status \in {mail[m].status, "FAILED"}
    BY <1>2, <1>4 DEF Scrub, OutboxTypeOK, Row
  <2> HIDE DEF status
  <2>2. /\ mail'[m].status \in {mail[m].status, "FAILED"} /\ mail'[m].status # "NONE"
        /\ mail'[m].taken = mail[m].taken /\ mail'[m].scrubbed
    BY <1>2, <2>1 DEF OutboxTypeOK, Row
  <2>3. [mail[m] EXCEPT !.scrubbed = TRUE, !.status = status] \in Row
    <3>1. status \in {"NONE", "PENDING", "PROCESSING", "SENT", "FAILED"}
      BY <1>2, <2>1 DEF Row
    <3> QED BY <1>2, <3>1 DEF Row
  <2>4. OutboxTypeOK'
    BY <1>1, <2>1, <2>3 DEF OutboxTypeOK
  <2>5. ClaimedExists' /\ OneReal' /\ AddressKnown' /\ AnswerTrue'
    BY <1>1, <2>2 DEF ClaimedExists, OneReal, AddressKnown, AnswerTrue
  <2>6. TakenIsClaimed'
    BY <1>1, <2>2 DEF TakenIsClaimed
  <2> QED BY <2>4, <2>5, <2>6
<1> QED BY <1>3, <1>4

-----------------------------------------------------------------------------
(* The incidents *)

\* The level of an incident counts its escalations, and an incident that is not there
\* has none, and no age.
LevelCounts ==
    \A i \in Ids : /\ incident[i].told = incident[i].level
                   /\ Is(i, "NONE") => incident[i].level = 0 /\ incident[i].age = 0

\* What a pass has listed is old enough for some deadline, whatever its severity is by now.
ListedRipe == \A w \in Workers : worker[w].todo \subseteq Ripe

IInv == TypeOK /\ OutboxInv /\ LevelCounts /\ ListedRipe

LEMMA NoIncidentType == NoIncident \in Incident
BY DEF NoIncident, Incident, Severities, Statuses

\* A transaction of an administrator or an alert, or the clock: what it makes of a row.
Kept(old, new) ==
    /\ new \in Incident
    /\ new.level = old.level /\ new.told = old.told /\ new.age >= old.age
    /\ new.resolved <=> new.status \in {"RESOLVED", "CLOSED"}
    /\ new.status # "NONE"

LEMMA SetKept ==
  ASSUME IInv, NEW i \in Ids, NEW row, Set(i, row), Kept(incident[i], row)
  PROVE  /\ IInv'
         /\ \A j \in Ids : incident'[j].told = incident[j].told
         /\ \A j \in Ids \ {i} : incident'[j] = incident[j]
         /\ Ripe' \in {Ripe, Ripe \cup {i}}
<1> USE DEF IInv, Kept
<1>1. /\ incident'[i] = row /\ worker' = worker /\ mail' = mail /\ sender' = sender
      /\ \A j \in Ids : j # i => incident'[j] = incident[j]
      /\ incident' \in [Ids -> Incident]
  BY DEF Set, TypeOK, outbox
<1>2. OutboxInv'
  BY <1>1 DEF OutboxInv, OutboxTypeOK, ClaimedExists, OneReal, AddressKnown, AnswerTrue,
              TakenIsClaimed, Busy
<1>3. TypeOK'
  BY <1>1, <1>2 DEF TypeOK, OutboxInv
<1>4. LevelCounts'
  BY <1>1 DEF LevelCounts, Is
<1>5. Ripe' \in {Ripe, Ripe \cup {i}} /\ Ripe \subseteq Ripe'
  <2>1. incident[i].age \in Nat /\ incident'[i].age \in Nat /\ incident'[i].age >= incident[i].age
    BY <1>1 DEF TypeOK, Incident
  <2>2. \A j \in Ids \ {i} : j \in Ripe' <=> j \in Ripe
    BY <1>1 DEF Ripe
  <2>3. i \in Ripe => i \in Ripe'
    BY <2>1 DEF Ripe, Deadline
  <2>4. Ripe \subseteq Ids /\ Ripe' \subseteq Ids
    BY DEF Ripe
  <2> QED BY <2>2, <2>3, <2>4
<1>6. ListedRipe'
  BY <1>1, <1>5 DEF ListedRipe
<1> QED BY <1>1, <1>2, <1>3, <1>4, <1>5, <1>6

LEMMA KeptSeverity ==
  ASSUME NEW old, NEW row, NEW severity \in Severities, Kept(old, row)
  PROVE  Kept(old, [row EXCEPT !.severity = severity])
BY DEF Kept, Incident

LEMMA AdministerKept ==
  ASSUME IInv, NEW i \in Ids, Administer(i) \/ Alert(i) \/ Ages(i)
  PROVE  \E row : Set(i, row) /\ Kept(incident[i], row)
<1>0. /\ incident[i] \in Incident
      /\ incident[i].resolved <=> incident[i].status \in {"RESOLVED", "CLOSED"}
      /\ Is(i, "NONE") => incident[i].level = 0 /\ incident[i].told = 0 /\ incident[i].age = 0
      /\ incident[i].age >= incident[i].age
  <2>1. incident[i] \in Incident
    BY DEF IInv, TypeOK
  <2>2. incident[i].age \in Nat
    BY <2>1 DEF Incident
  <2> QED BY <2>1, <2>2 DEF IInv, TypeOK, LevelCounts
<1>n. /\ NoIncident.level = 0 /\ NoIncident.told = 0 /\ ~NoIncident.resolved
      /\ NoIncident.age = 0
      /\ NoIncident \in Incident
  BY NoIncidentType DEF NoIncident
<1>1. ASSUME NEW severity \in Severities, Create(i, severity)
      PROVE  \E row : Set(i, row) /\ Kept(incident[i], row)
  <2>1. Kept(incident[i], [NoIncident EXCEPT !.status = "OPEN", !.severity = severity])
    BY <1>0, <1>1, <1>n DEF Create, Kept, Incident, Statuses, Is
  <2> QED BY <1>1, <2>1 DEF Create
<1>2. ASSUME NEW severity \in Severities, SetSeverity(i, severity)
      PROVE  \E row : Set(i, row) /\ Kept(incident[i], row)
  <2>1. Kept(incident[i], [incident[i] EXCEPT !.severity = severity])
    BY <1>0, <1>2 DEF SetSeverity, Kept, Incident, Statuses, Is
  <2> QED BY <1>2, <2>1 DEF SetSeverity
<1>3. CASE Acknowledge(i)
  <2>1. Kept(incident[i], [incident[i] EXCEPT !.status = "ACKNOWLEDGED", !.acked = TRUE])
    BY <1>0, <1>3 DEF Acknowledge, Kept, Incident, Statuses, Is
  <2> QED BY <1>3, <2>1 DEF Acknowledge
<1>4. CASE Investigate(i)
  <2>1. Kept(incident[i], [incident[i] EXCEPT !.status = "INVESTIGATING"])
    BY <1>0, <1>4 DEF Investigate, Kept, Incident, Statuses, Is
  <2> QED BY <1>4, <2>1 DEF Investigate
<1>5. CASE Resolve(i)
  <2>1. Kept(incident[i], [incident[i] EXCEPT !.status = "RESOLVED", !.resolved = TRUE])
    BY <1>0, <1>5 DEF Resolve, Kept, Incident, Statuses, Is
  <2> QED BY <1>5, <2>1 DEF Resolve
<1>6. CASE Close(i)
  <2>1. Kept(incident[i], [incident[i] EXCEPT !.status = "CLOSED"])
    BY <1>0, <1>6 DEF Close, Kept, Incident, Statuses, Is
  <2> QED BY <1>6, <2>1 DEF Close
<1>7. CASE Reopen(i)
  <2>1. Kept(incident[i], [incident[i] EXCEPT !.status = "OPEN", !.resolved = FALSE])
    BY <1>0, <1>7 DEF Reopen, Kept, Incident, Statuses, Is
  <2> QED BY <1>7, <2>1 DEF Reopen
<1>8. ASSUME NEW severity \in Severities, AlertFires(i, severity)
      PROVE  \E row : Set(i, row) /\ Kept(incident[i], row)
  <2>1. Kept(incident[i], Firing(i))
    <3>1. CASE Is(i, "NONE")
      <4>1. Kept(incident[i], [NoIncident EXCEPT !.status = "OPEN"])
        BY <1>0, <1>n, <3>1 DEF Kept, Incident, Statuses, Is
      <4> QED BY <3>1, <4>1 DEF Firing, Is
    <3>2. CASE incident[i].status \in {"RESOLVED", "CLOSED"}
      <4>1. Kept(incident[i], [incident[i] EXCEPT !.status = "OPEN", !.resolved = FALSE])
        BY <1>0, <3>2 DEF Kept, Incident, Statuses
      <4> QED BY <3>2, <4>1 DEF Firing, Is
    <3>3. CASE ~Is(i, "NONE") /\ incident[i].status \notin {"RESOLVED", "CLOSED"}
      <4>1. Kept(incident[i], incident[i])
        BY <1>0, <3>3 DEF Kept, Is
      <4> QED BY <3>3, <4>1 DEF Firing
    <3> QED BY <3>1, <3>2, <3>3
  <2>2. Kept(incident[i], [Firing(i) EXCEPT !.severity = severity])
    BY <2>1, KeptSeverity
  <2> QED BY <1>8, <2>2 DEF AlertFires
<1>9. ASSUME NEW severity \in Severities, AlertResolves(i, severity)
      PROVE  \E row : Set(i, row) /\ Kept(incident[i], row)
  <2>1. Kept(incident[i], AlertResolved(i))
    <3>1. CASE Is(i, "NONE")
      <4>1. Kept(incident[i], [NoIncident EXCEPT !.status = "RESOLVED", !.resolved = TRUE])
        BY <1>0, <1>n, <3>1 DEF Kept, Incident, Statuses, Is
      <4> QED BY <3>1, <4>1 DEF AlertResolved, Is
    <3>2. CASE Is(i, "CLOSED")
      <4>1. Kept(incident[i], incident[i])
        BY <1>0, <3>2 DEF Kept, Is
      <4> QED BY <3>2, <4>1 DEF AlertResolved, Is
    <3>3. CASE ~Is(i, "NONE") /\ ~Is(i, "CLOSED")
      <4>1. Kept(incident[i], [incident[i] EXCEPT !.status = "RESOLVED", !.resolved = TRUE])
        BY <1>0, <3>3 DEF Kept, Incident, Statuses
      <4> QED BY <3>3, <4>1 DEF AlertResolved
    <3> QED BY <3>1, <3>2, <3>3
  <2>2. Kept(incident[i], [AlertResolved(i) EXCEPT !.severity = severity])
    BY <2>1, KeptSeverity
  <2> QED BY <1>9, <2>2 DEF AlertResolves
<1>10. CASE Ages(i)
  <2>1. Kept(incident[i], [incident[i] EXCEPT !.age = @ + 1])
    <3>1. incident[i].age + 1 \in 0..MaxAge
      BY <1>0, <1>10 DEF Ages, Incident
    <3>2. Kept(incident[i], [incident[i] EXCEPT !.age = incident[i].age + 1])
      BY <1>0, <1>10, <3>1 DEF Ages, Kept, Incident, Statuses, Is
    <3> QED BY <3>2
  <2> QED BY <1>10, <2>1 DEF Ages
<1> QED BY <1>1, <1>2, <1>3, <1>4, <1>5, <1>6, <1>7, <1>8, <1>9, <1>10 DEF Administer, Alert

\* What an escalation does.
LEMMA EscalateStep ==
  ASSUME IInv, NEW w \in Workers, NEW i \in Ids, Escalate(w, i)
  PROVE  /\ IInv'
         /\ (incident' # incident \/ mail' # mail) => StillUnheard(i)
         /\ Ripe' = Ripe
         /\ \A j \in Ids : j # i => incident'[j] = incident[j]
         /\ \A m \in Mails : m \notin {i} \X Admins => mail'[m] = mail[m]
<1> USE DEF IInv
<1>1. i \in worker[w].todo /\ sender' = sender
  BY DEF Escalate
<1>2. /\ worker' = [worker EXCEPT ![w].todo = @ \ {i}]
      /\ worker' \in [Workers -> Worker]
      /\ \A v \in Workers : worker'[v].on = worker[v].on /\ worker'[v].todo \subseteq worker[v].todo
  BY DEF Escalate, Done, TypeOK, Worker
<1>3. CASE StillUnheard(i)
  <2>1. incident' = [incident EXCEPT ![i].level = 1, ![i].told = @ + 1]
    BY <1>3 DEF Escalate
  <2>2. PICK active \in SUBSET Admins : mail' = Queued({i} \X active)
    BY <1>3 DEF Escalate
  <2>3. /\ incident[i] \in Incident /\ incident[i].level = 0 /\ incident[i].told = 0
        /\ Is(i, "OPEN")
    <3>1. incident[i].level = 0 /\ Is(i, "OPEN")
      BY <1>3 DEF StillUnheard, Unheard
    <3>2. incident[i] \in Incident
      BY DEF TypeOK
    <3>3. incident[i].told = incident[i].level
      BY DEF LevelCounts
    <3> QED BY <3>1, <3>2, <3>3
  <2>4. [incident[i] EXCEPT !.level = 1, !.told = 1] \in Incident
    <3>1. \A row \in Incident : [row EXCEPT !.level = 1] \in Incident
      BY DEF Incident
    <3>2. \A row \in Incident : [row EXCEPT !.told = 1] \in Incident
      BY DEF Incident
    <3>3. [incident[i] EXCEPT !.level = 1] \in Incident
      BY <2>3, <3>1
    <3> QED BY <3>2, <3>3
  <2>5. incident' = [incident EXCEPT ![i] = [incident[i] EXCEPT !.level = 1, !.told = 1]]
    <3>1. incident \in [Ids -> Incident]
      BY DEF TypeOK
    <3>2. \A j \in Ids : j # i => incident'[j] = incident[j]
      BY <2>1, <3>1
    <3>3. incident'[i] = [incident[i] EXCEPT !.level = 1, !.told = incident[i].told + 1]
      BY <2>1, <3>1 DEF Incident
    <3>4. incident[i].told + 1 = 1
      BY <2>3
    <3>5. incident'[i] = [incident[i] EXCEPT !.level = 1, !.told = 1]
      BY <3>3, <3>4
    <3>6. DOMAIN incident' = Ids /\ incident' = [j \in Ids |-> incident'[j]]
      BY <2>1, <3>1
    <3> QED BY <3>1, <3>2, <3>5, <3>6
  <2>6. /\ incident' \in [Ids -> Incident]
        /\ \A j \in Ids : j # i => incident'[j] = incident[j]
        /\ incident'[i] = [incident[i] EXCEPT !.level = 1, !.told = 1]
    BY <2>4, <2>5 DEF TypeOK
  <2>7. /\ incident'[i].level = 1 /\ incident'[i].told = 1
        /\ incident'[i].status = incident[i].status
        /\ incident'[i].resolved = incident[i].resolved
        /\ incident'[i].age = incident[i].age
    BY <2>3, <2>6 DEF Incident
  <2>8. {i} \X active \in SUBSET Mails
    BY MailsAreNotices DEF MailsAreNotices
  <2>9. OutboxInv'
    BY <1>1, <2>2, <2>8, QueuedStep
  <2>10. TypeOK'
    BY <1>2, <2>6, <2>7, <2>9 DEF TypeOK, OutboxInv
  <2>11. LevelCounts'
    BY <2>3, <2>6, <2>7 DEF LevelCounts, Is
  <2>12. \A m \in Mails : m \notin {i} \X Admins => mail'[m] = mail[m]
    <3>1. \A m \in Mails : m \notin {i} \X Admins => m \notin {i} \X active
      OBVIOUS
    <3> QED BY <2>2, <3>1 DEF Queued
  <2>13. Ripe' = Ripe
    BY <2>6, <2>7 DEF Ripe
  <2>14. ListedRipe'
    BY <1>2, <2>13 DEF ListedRipe
  <2> QED BY <1>3, <2>6, <2>9, <2>10, <2>11, <2>12, <2>13, <2>14
<1>4. CASE ~StillUnheard(i)
  <2>1. incident' = incident /\ mail' = mail
    BY <1>4 DEF Escalate
  <2>2. OutboxInv'
    BY <1>1, <2>1 DEF OutboxInv, OutboxTypeOK, ClaimedExists, OneReal, AddressKnown, AnswerTrue,
                      TakenIsClaimed, Busy
  <2>3. TypeOK' /\ LevelCounts'
    BY <1>2, <2>1, <2>2 DEF TypeOK, OutboxInv, LevelCounts, Is
  <2>4. Ripe' = Ripe /\ ListedRipe'
    BY <1>2, <2>1 DEF Ripe, ListedRipe
  <2> QED BY <2>1, <2>2, <2>3, <2>4
<1> QED BY <1>3, <1>4

\* A step of a worker that leaves the incidents and the mails alone.
LEMMA PassStep ==
  ASSUME IInv, NEW w \in Workers,
         PassStart(w) \/ PassEnd(w) \/ \E i \in Ids : EscalateFails(w, i)
  PROVE  IInv' /\ incident' = incident /\ mail' = mail
<1> USE DEF IInv
<1>1. incident' = incident /\ mail' = mail /\ sender' = sender
  BY DEF PassStart, PassEnd, EscalateFails, outbox
<1>2. OutboxInv' /\ LevelCounts'
  BY <1>1 DEF OutboxInv, OutboxTypeOK, ClaimedExists, OneReal, AddressKnown, AnswerTrue,
              TakenIsClaimed, Busy, LevelCounts, Is
<1>3. TypeOK'
  <2>1. CASE PassStart(w)
    <3>1. [on |-> TRUE, todo |-> {i \in Ids : Overdue(i)}] \in Worker
      BY DEF Worker
    <3> QED BY <1>1, <1>2, <2>1, <3>1 DEF PassStart, LockIsFree, TypeOK, OutboxInv, Worker
  <2>2. CASE PassEnd(w)
    BY <1>1, <1>2, <2>2 DEF PassEnd, Off, TypeOK, OutboxInv, Worker
  <2>3. ASSUME NEW i \in Ids, EscalateFails(w, i) PROVE TypeOK'
    <3>1. /\ worker' \in [Workers -> Worker]
          /\ \A v \in Workers : worker'[v].on = worker[v].on
                                /\ worker'[v].todo \subseteq worker[v].todo
      BY <2>3 DEF EscalateFails, Done, TypeOK, Worker
    <3> QED BY <1>1, <1>2, <3>1 DEF TypeOK, OutboxInv
  <2> QED BY <2>1, <2>2, <2>3
<1>4. ListedRipe'
  <2>1. Ripe' = Ripe
    BY <1>1 DEF Ripe
  <2>2. \A v \in Workers : \/ worker'[v].todo \subseteq worker[v].todo
                           \/ worker'[v].todo = {i \in Ids : Overdue(i)}
                           \/ worker'[v].todo = {}
    BY DEF PassStart, PassEnd, EscalateFails, Done, Off, TypeOK, Worker
  <2>3. {i \in Ids : Overdue(i)} \subseteq Ripe
    <3>1. \A i \in Ids : incident[i].age \in Nat
      BY DEF TypeOK, Incident
    <3> QED BY <3>1 DEF Overdue, Ripe, Deadline
  <2> QED BY <2>1, <2>2, <2>3 DEF ListedRipe
<1> QED BY <1>1, <1>2, <1>3, <1>4

LEMMA OutboxStep ==
  ASSUME IInv, OutboxNext, UNCHANGED <<incident, worker>>
  PROVE  IInv' /\ \A m \in Mails : mail[m].status = "NONE" => mail'[m].status = "NONE"
<1> USE DEF IInv
<1>1. OutboxInv'
  <2>1. ASSUME NEW s \in Senders, Claim(s) \/ Send(s) \/ Save(s) \/ Lose(s) PROVE OutboxInv'
    BY <2>1, ClaimStep, SendStep, SaveStep, LoseStep
  <2>2. ASSUME NEW m \in Mails, Retry(m) \/ Scrub(m) PROVE OutboxInv'
    BY <2>2, ClockStep
  <2> QED BY <2>1, <2>2 DEF OutboxNext
<1>2. TypeOK' /\ LevelCounts' /\ ListedRipe'
  BY <1>1 DEF TypeOK, OutboxInv, LevelCounts, Is, ListedRipe, Ripe
<1>3. ASSUME NEW n \in Mails, mail[n].status = "NONE" PROVE mail'[n].status = "NONE"
  <2>1. mail \in [Mails -> Row]
    BY DEF OutboxInv, OutboxTypeOK
  <2>2. ASSUME NEW s \in Senders, Claim(s) PROVE mail'[n].status = "NONE"
    BY <1>3, <2>1, <2>2 DEF Claim, Claimable
  <2>3. ASSUME NEW s \in Senders, Send(s) PROVE mail'[n].status = "NONE"
    BY <1>3, <2>1, <2>3 DEF Send, OutboxInv, ClaimedExists, Busy
  <2>4. ASSUME NEW s \in Senders, Save(s) PROVE mail'[n].status = "NONE"
    BY <1>3, <2>1, <2>4 DEF Save, OutboxInv, ClaimedExists, Busy
  <2>5. ASSUME NEW s \in Senders, Lose(s) PROVE mail'[n].status = "NONE"
    BY <1>3, <2>5 DEF Lose
  <2>6. ASSUME NEW m \in Mails, Retry(m) \/ Scrub(m) PROVE mail'[n].status = "NONE"
    BY <1>3, <2>1, <2>6 DEF Retry, Scrub
  <2> QED BY <2>2, <2>3, <2>4, <2>5, <2>6 DEF OutboxNext
<1> QED BY <1>1, <1>2, <1>3

-----------------------------------------------------------------------------
LEMMA InitInv == Init => IInv
<1> SUFFICES ASSUME Init PROVE IInv
  OBVIOUS
<1>1. /\ \A m \in Mails : mail[m] = NoRow
      /\ \A s \in Senders : sender[s] = Idle
      /\ mail \in [Mails -> Row] /\ sender \in [Senders -> Sender]
  BY RowTypes, IdleType DEF Init, OutboxInit
<1>2. NoRow.status = "NONE" /\ NoRow.taken = 0 /\ ~NoRow.scrubbed
  BY DEF NoRow
<1>3. OutboxInv
  BY <1>1, <1>2, IdleType DEF OutboxInv, OutboxTypeOK, ClaimedExists, OneReal, AddressKnown,
                              AnswerTrue, TakenIsClaimed, Busy
<1>4. Off \in Worker /\ Off.todo = {} /\ ~Off.on
  BY DEF Off, Worker
<1>5. /\ NoIncident.level = 0 /\ NoIncident.told = 0 /\ ~NoIncident.resolved
      /\ NoIncident.status = "NONE" /\ NoIncident.age = 0
  BY DEF NoIncident
<1>6. /\ \A i \in Ids : incident[i] = NoIncident
      /\ incident \in [Ids -> Incident]
      /\ \A w \in Workers : worker[w] = Off
      /\ worker \in [Workers -> Worker]
  BY <1>4, NoIncidentType DEF Init
<1>7. TypeOK /\ LevelCounts /\ ListedRipe
  BY <1>3, <1>4, <1>5, <1>6 DEF TypeOK, OutboxInv, LevelCounts, Is, ListedRipe
<1> QED BY <1>3, <1>7 DEF IInv

LEMMA StepInv == IInv /\ [Next]_vars => IInv'
<1> SUFFICES ASSUME IInv, [Next]_vars PROVE IInv'
  OBVIOUS
<1>1. CASE UNCHANGED vars
  BY <1>1 DEF vars, IInv, TypeOK, OutboxInv, OutboxTypeOK, ClaimedExists, OneReal, AddressKnown,
              AnswerTrue, TakenIsClaimed, Busy, LevelCounts, Is, ListedRipe, Ripe
<1>2. ASSUME NEW i \in Ids, Administer(i) \/ Alert(i) \/ Ages(i) PROVE IInv'
  <2>1. PICK row : Set(i, row) /\ Kept(incident[i], row)
    BY <1>2, AdministerKept
  <2> QED BY <2>1, SetKept
<1>3. ASSUME NEW w \in Workers, Work(w) PROVE IInv'
  <2>1. ASSUME NEW i \in Ids, Escalate(w, i) PROVE IInv'
    BY <2>1, EscalateStep
  <2>2. ASSUME PassStart(w) \/ PassEnd(w) \/ \E i \in Ids : EscalateFails(w, i) PROVE IInv'
    BY <2>2, PassStep
  <2> QED BY <1>3, <2>1, <2>2 DEF Work
<1>4. ASSUME OutboxNext, UNCHANGED <<incident, worker>> PROVE IInv'
  BY <1>4, OutboxStep
<1> QED BY <1>1, <1>2, <1>3, <1>4 DEF Next

\* The inductive invariant: what the workers know of the mail server is true, one of them at
\* most has an address that a mail may go to, and the level of an incident counts its
\* escalations (deliverOneEmail, escalateIncident).
THEOREM IncidentsInvariant == Spec => []IInv
BY InitInv, StepInv, PTL DEF Spec

\* Every variable of Incidents and of its Outbox keeps its type, one worker at most has the
\* lock, and a resolution has a time as long as it stands.
THEOREM IncidentsTypeCorrect == Spec => []TypeOK
<1>1. IInv => TypeOK
  BY DEF IInv
<1> QED BY <1>1, IncidentsInvariant, PTL

\* For any number of email workers, however many answers are lost and processes die, a mail
\* the server took and said so is not sent again (deliverOneEmail).
THEOREM NoCopyWithoutError == Spec => []NoNeedlessCopy
<1>1. IInv => NoNeedlessCopy
  BY DEF IInv, OutboxInv, TakenIsClaimed, NoNeedlessCopy
<1> QED BY <1>1, IncidentsInvariant, PTL

\* For any number of incidents, administrators and escalation workers, an incident is
\* escalated once at most, and not when somebody has answered it by then.
THEOREM EscalationIsUnique == Spec => EscalatedOnce
<1> DEFINE Step == \A i \in Ids :
          (\/ incident'[i].told # incident[i].told
           \/ \E a \in Admins : mail[<<i, a>>].status = "NONE" /\ mail'[<<i, a>>].status # "NONE")
          => incident[i].told = 0 /\ Is(i, "OPEN") /\ ~incident[i].acked
<1>1. IInv /\ [Next]_vars => [Step]_vars
  <2> SUFFICES ASSUME IInv, Next, NEW i \in Ids,
                      \/ incident'[i].told # incident[i].told
                      \/ \E a \in Admins : /\ mail[<<i, a>>].status = "NONE"
                                           /\ mail'[<<i, a>>].status # "NONE"
               PROVE  incident[i].told = 0 /\ Is(i, "OPEN") /\ ~incident[i].acked
    OBVIOUS
  <2>m. \A a \in Admins : <<i, a>> \in Mails /\ \A j \in Ids \ {i} : <<i, a>> \notin {j} \X Admins
    BY MailsAreNotices DEF MailsAreNotices
  <2>1. ASSUME NEW j \in Ids, Administer(j) \/ Alert(j) \/ Ages(j) PROVE FALSE
    <3>1. PICK row : Set(j, row) /\ Kept(incident[j], row)
      BY <2>1, AdministerKept
    <3>2. incident'[i].told = incident[i].told
      BY <3>1, SetKept
    <3>3. mail' = mail
      BY <3>1 DEF Set, outbox
    <3> QED BY <3>2, <3>3
  <2>2. ASSUME NEW w \in Workers, Work(w)
        PROVE  incident[i].told = 0 /\ Is(i, "OPEN") /\ ~incident[i].acked
    <3>1. ASSUME NEW j \in Ids, Escalate(w, j)
          PROVE  incident[i].told = 0 /\ Is(i, "OPEN") /\ ~incident[i].acked
      <4>1. /\ (incident' # incident \/ mail' # mail) => StillUnheard(j)
            /\ \A k \in Ids : k # j => incident'[k] = incident[k]
            /\ \A m \in Mails : m \notin {j} \X Admins => mail'[m] = mail[m]
        BY <3>1, EscalateStep
      <4>2. i = j
        BY <2>m, <4>1
      <4>3. StillUnheard(i)
        BY <4>1, <4>2
      <4> QED BY <4>3 DEF StillUnheard, Unheard, IInv, LevelCounts
    <3>2. ASSUME PassStart(w) \/ PassEnd(w) \/ \E k \in Ids : EscalateFails(w, k) PROVE FALSE
      BY <3>2, PassStep
    <3> QED BY <2>2, <3>1, <3>2 DEF Work
  <2>3. ASSUME OutboxNext, UNCHANGED <<incident, worker>> PROVE FALSE
    BY <2>m, <2>3, OutboxStep
  <2> QED BY <2>1, <2>2, <2>3 DEF Next
<1> QED BY <1>1, IncidentsInvariant, PTL DEF Spec, EscalatedOnce

-----------------------------------------------------------------------------
(* The refinement: from the incident to the mailbox. *)

Alarms == [i \in Ids |-> incident[i].told]
Copies == [m \in Mails |-> mail[m].taken]

\* A step that changes neither the incidents nor what is queued and taken is none of the
\* alarm's.
LEMMA AlarmUnchanged ==
  ASSUME incident' = incident, Queue' = Queue,
         \A m \in Mails : mail'[m].taken = mail[m].taken
  PROVE  UNCHANGED Alarm!alarm
<1>1. Waiting' = Waiting /\ Ripe' = Ripe
  BY DEF Waiting, Ripe, Is
<1> QED BY <1>1 DEF Alarm!alarm

\* What people, alerts and the clock do to one incident.
LEMMA SituationStep ==
  ASSUME IInv, NEW i \in Ids, Administer(i) \/ Alert(i) \/ Ages(i)
  PROVE  Alarm!Situation(i)
<1>1. PICK row : Set(i, row) /\ Kept(incident[i], row)
  BY AdministerKept
<1>2. /\ \A j \in Ids : incident'[j].told = incident[j].told
      /\ \A j \in Ids \ {i} : incident'[j] = incident[j]
      /\ Ripe' \in {Ripe, Ripe \cup {i}}
  BY <1>1, SetKept
<1>3. Waiting' \in {Waiting \cup {i}, Waiting \ {i}}
  <2>1. \A j \in Ids \ {i} : j \in Waiting' <=> j \in Waiting
    BY <1>2 DEF Waiting, Is
  <2>2. Waiting \subseteq Ids /\ Waiting' \subseteq Ids
    BY DEF Waiting
  <2>3. CASE i \in Waiting'
    <3>1. Waiting' = Waiting \cup {i}
      BY <2>1, <2>2, <2>3
    <3> QED BY <3>1
  <2>4. CASE i \notin Waiting'
    <3>1. Waiting' = Waiting \ {i}
      BY <2>1, <2>2, <2>4
    <3> QED BY <3>1
  <2> QED BY <2>3, <2>4
<1>4. mail' = mail
  BY <1>1 DEF Set, outbox
<1>5. Queue' = Queue
  BY <1>4 DEF Queue
<1> QED BY <1>2, <1>3, <1>4, <1>5 DEF Alarm!Situation

\* An escalation raises the alarm, or finds that it is not to be raised.
LEMMA RaiseStep ==
  ASSUME IInv, NEW w \in Workers, NEW i \in Ids, Escalate(w, i)
  PROVE  Alarm!Raise(i) \/ UNCHANGED Alarm!alarm
<1> USE DEF IInv
<1>1. CASE ~StillUnheard(i)
  <2>1. incident' = incident /\ mail' = mail
    BY <1>1 DEF Escalate
  <2>2. Queue' = Queue
    BY <2>1 DEF Queue
  <2> QED BY <2>1, <2>2, AlarmUnchanged
<1>2. CASE StillUnheard(i)
  <2>1. incident' = [incident EXCEPT ![i].level = 1, ![i].told = @ + 1]
    BY <1>2 DEF Escalate
  <2>2. PICK active \in SUBSET Admins : mail' = Queued({i} \X active)
    BY <1>2 DEF Escalate
  <2>3. i \in Waiting /\ i \in Ripe /\ incident[i].told = 0
    <3>1. i \in Waiting /\ incident[i].told = 0
      BY <1>2 DEF StillUnheard, Unheard, Waiting, LevelCounts
    <3>2. i \in Ripe
      BY DEF Escalate, ListedRipe
    <3> QED BY <3>1, <3>2
  <2>4. /\ \A j \in Ids \ {i} : incident'[j] = incident[j]
        /\ incident'[i].told = 1 /\ incident'[i].status = incident[i].status
        /\ incident'[i].acked = incident[i].acked
    <3>1. incident[i] \in Incident /\ incident \in [Ids -> Incident]
      BY DEF TypeOK
    <3> QED BY <2>1, <2>3, <3>1 DEF Incident
  <2>5. Waiting' = Waiting
    BY <2>4 DEF Waiting, Is
  <2>6. Ripe' = Ripe
    BY EscalateStep
  <2>7. Alarms' = [Alarms EXCEPT ![i] = 1]
    BY <2>4 DEF Alarms
  <2>8. Queue' = Queue \cup ({i} \X active)
    <3>1. {i} \X active \subseteq Mails
      BY MailsAreNotices DEF MailsAreNotices
    <3>2. \A m \in Mails : mail'[m].status # "NONE" <=>
                              mail[m].status # "NONE" \/ m \in {i} \X active
      BY <2>2 DEF Queued, NoRow
    <3> QED BY <3>1, <3>2 DEF Queue
  <2>9. Copies' = Copies
    <3>1. \A m \in Mails : mail'[m].taken = mail[m].taken
      BY <2>2 DEF Queued, NoRow, OutboxInv, TakenIsClaimed
    <3> QED BY <3>1 DEF Copies
  <2>10. Alarms[i] = 0
    BY <2>3 DEF Alarms
  <2> QED
    BY <2>3, <2>5, <2>6, <2>7, <2>8, <2>9, <2>10 DEF Alarm!Raise, Alarms, Copies
<1> QED BY <1>1, <1>2

\* The mail server takes a mail for its recipient once; nothing else delivers.
LEMMA DeliverStep ==
  ASSUME IInv, OutboxNext, UNCHANGED <<incident, worker>>
  PROVE  (\E n \in Mails : Alarm!Deliver(n)) \/ UNCHANGED Alarm!alarm
<1> USE DEF IInv, OutboxInv, OutboxTypeOK
<1>q. Queue' = Queue
  <2>1. \A m \in Mails : mail[m].status # "NONE" => mail'[m].status # "NONE"
    <3> SUFFICES ASSUME NEW n \in Mails, mail[n].status # "NONE" PROVE mail'[n].status # "NONE"
      OBVIOUS
    <3>t. mail[n] \in Row
      OBVIOUS
    <3>1. ASSUME NEW s \in Senders, Claim(s) PROVE mail'[n].status # "NONE"
      BY <3>1, <3>t DEF Claim, Row
    <3>2. ASSUME NEW s \in Senders, Send(s) \/ Lose(s) PROVE mail'[n].status # "NONE"
      BY <3>2, <3>t DEF Send, Lose, Row
    <3>3. ASSUME NEW s \in Senders, Save(s) PROVE mail'[n].status # "NONE"
      BY <3>3, <3>t DEF Save, Row
    <3>4. ASSUME NEW m \in Mails, Retry(m) \/ Scrub(m) PROVE mail'[n].status # "NONE"
      BY <3>4, <3>t DEF Retry, Scrub, Row
    <3> QED BY <3>1, <3>2, <3>3, <3>4 DEF OutboxNext
  <2>2. \A m \in Mails : mail[m].status = "NONE" => mail'[m].status = "NONE"
    BY OutboxStep
  <2> QED BY <2>1, <2>2 DEF Queue
<1>1. ASSUME NEW s \in Senders, Send(s), mail' # mail
      PROVE  \E n \in Mails : Alarm!Deliver(n)
  <2>1. PICK m \in Mails : sender[s].mail = m
    BY <1>1 DEF Send, ClaimedExists, Busy
  <2>2. sender[s].real /\ sender[s].pc = "send" /\ mail' = [mail EXCEPT ![m].taken = @ + 1]
    BY <1>1, <2>1 DEF Send
  <2>3. mail[m].taken = 0
    BY <2>1, <2>2 DEF AnswerTrue, Busy
  <2>4. m \in Queue
    BY <2>1, <2>2 DEF Queue, ClaimedExists, Busy
  <2>5. mail'[m].taken = 1 /\ \A n \in Mails : n # m => mail'[n] = mail[n]
    <3>1. mail[m] \in Row
      OBVIOUS
    <3> QED BY <2>2, <2>3, <3>1 DEF Row
  <2>6. Copies' = [Copies EXCEPT ![m] = 1] /\ Copies[m] = 0
    BY <2>3, <2>5 DEF Copies
  <2>7. Waiting' = Waiting /\ Ripe' = Ripe
    BY DEF Waiting, Ripe, Is
  <2> QED BY <1>q, <2>4, <2>6, <2>7 DEF Alarm!Deliver, Copies
<1>2. ASSUME \A m \in Mails : mail'[m].taken = mail[m].taken PROVE UNCHANGED Alarm!alarm
  BY <1>q, <1>2, AlarmUnchanged
<1>3. ASSUME NEW s \in Senders, Claim(s) PROVE \A m \in Mails : mail'[m].taken = mail[m].taken
  BY <1>3 DEF Claim, Row
<1>4. ASSUME NEW s \in Senders, Save(s) PROVE \A m \in Mails : mail'[m].taken = mail[m].taken
  BY <1>4 DEF Save, Row
<1>5. ASSUME NEW m \in Mails, Retry(m) \/ Scrub(m)
      PROVE  \A n \in Mails : mail'[n].taken = mail[n].taken
  BY <1>5 DEF Retry, Scrub, Row
<1>6. ASSUME NEW s \in Senders, Lose(s) PROVE mail' = mail
  BY <1>6 DEF Lose
<1> QED BY <1>1, <1>2, <1>3, <1>4, <1>5, <1>6 DEF OutboxNext

LEMMA AlarmNext == IInv /\ [Next]_vars => [Alarm!Next]_(Alarm!alarm)
<1> SUFFICES ASSUME IInv, [Next]_vars PROVE Alarm!Next \/ UNCHANGED Alarm!alarm
  OBVIOUS
<1>1. CASE UNCHANGED vars
  <2>1. incident' = incident /\ mail' = mail
    BY <1>1 DEF vars
  <2>2. Queue' = Queue
    BY <2>1 DEF Queue
  <2> QED BY <2>1, <2>2, AlarmUnchanged
<1>2. ASSUME NEW i \in Ids, Administer(i) \/ Alert(i) \/ Ages(i) PROVE Alarm!Next
  BY <1>2, SituationStep DEF Alarm!Next
<1>3. ASSUME NEW w \in Workers, NEW i \in Ids, Escalate(w, i)
      PROVE  Alarm!Next \/ UNCHANGED Alarm!alarm
  BY <1>3, RaiseStep DEF Alarm!Next
<1>4. ASSUME NEW w \in Workers, PassStart(w) \/ PassEnd(w) \/ \E i \in Ids : EscalateFails(w, i)
      PROVE  UNCHANGED Alarm!alarm
  <2>1. incident' = incident /\ mail' = mail
    BY <1>4, PassStep
  <2>2. Queue' = Queue
    BY <2>1 DEF Queue
  <2> QED BY <2>1, <2>2, AlarmUnchanged
<1>5. ASSUME OutboxNext, UNCHANGED <<incident, worker>>
      PROVE  Alarm!Next \/ UNCHANGED Alarm!alarm
  <2>1. CASE \E n \in Mails : Alarm!Deliver(n)
    BY <2>1, MailsAreNotices DEF MailsAreNotices, Alarm!Next
  <2> QED BY <1>5, <2>1, DeliverStep
<1> QED BY <1>1, <1>2, <1>3, <1>4, <1>5 DEF Next, Work

LEMMA AlarmInit == Init => Alarm!Init
<1> SUFFICES ASSUME Init PROVE Alarm!Init
  OBVIOUS
<1>1. /\ \A i \in Ids : incident[i] = NoIncident
      /\ \A m \in Mails : mail[m] = NoRow
  BY DEF Init, OutboxInit
<1>2. /\ NoIncident.status = "NONE" /\ NoIncident.age = 0 /\ NoIncident.told = 0
      /\ NoRow.status = "NONE" /\ NoRow.taken = 0
  BY DEF NoIncident, NoRow
<1>3. Waiting = {} /\ Ripe = {} /\ Queue = {}
  BY <1>1, <1>2 DEF Waiting, Ripe, Queue, Is, Deadline
<1>4. Alarms = [i \in Ids |-> 0] /\ Copies = [n \in Ids \X Admins |-> 0]
  BY <1>1, <1>2, MailsAreNotices DEF MailsAreNotices, Alarms, Copies
<1> QED BY <1>3, <1>4 DEF Alarm!Init, Alarms, Copies

\* For any incidents, administrators and workers, an incident that nobody answers raises one
\* alarm, which decides whom to tell, and each of those has it in the mailbox once.
THEOREM AlarmReachesOnce == Spec => KeepsAlarm
BY AlarmInit, AlarmNext, IncidentsInvariant, PTL DEF Spec, KeepsAlarm, Alarm!Spec
===============================================================================
