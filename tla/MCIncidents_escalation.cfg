SPECIFICATION FairSpec
CONSTANTS
    Ids = {i1}
    Admins = {a1}
    Mails <- MCMails
    Workers = {w1, w2}
    Senders = {s1, s2}
    NoMail = none
    MaxAttempts = 3
    MaxAge = 2
INVARIANTS TypeOK NoNeedlessCopy
PROPERTIES KeepsAlarm OverdueEscalates MailIsTried
