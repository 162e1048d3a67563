-------------------------------- MODULE Outbox --------------------------------
(***************************************************************************)
(* The transactional emails: rows of email_outbox, and the workers of the  *)
(* API processes that claim one, hand it to the mail server, and save what *)
(* came of it.  Each action is one statement or one call to the server.    *)
(***************************************************************************)
EXTENDS Integers, FiniteSets

CONSTANTS
    Mails,        \* the dedupe keys: a mail has one row
    Senders,      \* the email workers of the API processes
    NoMail,       \* a worker that has claimed none
    MaxAttempts   \* deliverOneEmail gives up after so many

ASSUME MailsAssumption == NoMail \notin Mails
ASSUME AttemptsAssumption == MaxAttempts \in Nat \ {0}

VARIABLES
    mail,     \* the rows
    sender    \* the workers

outbox == <<mail, sender>>

\* due: available_at has passed; scrubbed: its address is that of a deleted account.
\* taken is not stored: how often the mail server took the mail for its recipient and
\* said so.
Row == [status: {"NONE", "PENDING", "PROCESSING", "SENT", "FAILED"}, due: BOOLEAN,
        scrubbed: BOOLEAN, attempts: 0..MaxAttempts, taken: 0..MaxAttempts]

\* real: it has read the address of the recipient.
Sender == [pc: {"idle", "send", "sent", "failed"}, mail: Mails \cup {NoMail}, real: BOOLEAN]

OutboxTypeOK ==
    /\ mail \in [Mails -> Row]
    /\ sender \in [Senders -> Sender]

-----------------------------------------------------------------------------
NoRow == [status |-> "NONE", due |-> FALSE, scrubbed |-> FALSE, attempts |-> 0, taken |-> 0]

Idle == [pc |-> "idle", mail |-> NoMail, real |-> FALSE]

OutboxInit ==
    /\ mail = [m \in Mails |-> NoRow]
    /\ sender = [s \in Senders |-> Idle]

\* queueTransactionalEmail, queueWorkspaceAdminNotice: a key that has a row gets no other.
Queued(ms) ==
    [m \in Mails |-> IF m \in ms /\ mail[m].status = "NONE"
                     THEN [NoRow EXCEPT !.status = "PENDING", !.due = TRUE] ELSE mail[m]]

\* Mutant: takes up what a worker may have left behind.
ClaimableAgain(m) ==
    mail[m].status \in {"PENDING", "FAILED", "PROCESSING"} /\ mail[m].attempts < MaxAttempts

\* Mutant: never a second time.
ClaimableOnce(m) == mail[m].status = "PENDING"

Claimable(m) ==
    mail[m].status \in {"PENDING", "FAILED"} /\ mail[m].attempts < MaxAttempts /\ mail[m].due

\* One UPDATE, which takes any of the mails that are due: created_at does not tell the
\* mails of one notice apart.  Its answer may be lost.
Claim(s) ==
    /\ sender[s].pc = "idle"
    /\ \E m \in Mails :
          /\ Claimable(m)
          /\ mail' = [mail EXCEPT ![m].status = "PROCESSING", ![m].attempts = @ + 1]
          /\ \/ sender' = [sender EXCEPT ![s] = [pc |-> "send", mail |-> m,
                                                      real |-> ~mail[m].scrubbed]]
             \/ UNCHANGED sender

\* An error does not tell whether the server took the mail.
Send(s) ==
    /\ sender[s].pc = "send"
    /\ \/ /\ mail' = IF sender[s].real
                     THEN [mail EXCEPT ![sender[s].mail].taken = @ + 1] ELSE mail
          /\ sender' = [sender EXCEPT ![s].pc = "sent"]
       \/ /\ sender' = [sender EXCEPT ![s].pc = "failed"]
          /\ UNCHANGED mail

\* The UPDATE names the row only; its error is ignored.
Save(s) ==
    /\ sender[s].pc \in {"sent", "failed"}
    /\ mail' = IF sender[s].pc = "sent"
               THEN [mail EXCEPT ![sender[s].mail].status = "SENT"]
               ELSE [mail EXCEPT ![sender[s].mail].status = "FAILED",
                                 ![sender[s].mail].due = FALSE]
    /\ sender' = [sender EXCEPT ![s] = Idle]

\* The result is not saved, or the process dies.
Lose(s) ==
    /\ sender[s].pc # "idle"
    /\ sender' = [sender EXCEPT ![s] = Idle]
    /\ UNCHANGED mail

\* Five minutes pass.
Retry(m) ==
    /\ mail[m].status = "FAILED" /\ ~mail[m].due
    /\ mail' = [mail EXCEPT ![m].due = TRUE]
    /\ UNCHANGED sender

\* deleteAdminUser: what was not sent is FAILED, and may be taken up again.
Scrub(m) ==
    /\ mail[m].status # "NONE" /\ ~mail[m].scrubbed
    /\ mail' = [mail EXCEPT ![m].scrubbed = TRUE,
                            ![m].status = IF @ \in {"PENDING", "PROCESSING"} THEN "FAILED" ELSE @]
    /\ UNCHANGED sender

OutboxNext ==
    \/ \E s \in Senders : Claim(s) \/ Send(s) \/ Save(s) \/ Lose(s)
    \/ \E m \in Mails : Retry(m) \/ Scrub(m)

-----------------------------------------------------------------------------
(* What must hold *)

\* Whatever answers are lost, processes die and accounts are deleted, a mail that the
\* server took and said so is not sent to its recipient again, and one that is SENT was
\* taken: a recipient has it twice only when the server answered with an error to a copy
\* it had taken (deliverOneEmail).
NoNeedlessCopy ==
    \A m \in Mails :
       /\ mail[m].taken <= 1
       /\ mail[m].status = "SENT" => mail[m].taken = 1 \/ mail[m].scrubbed
===============================================================================
