----------------------------- MODULE IncidentAlarm -----------------------------
(***************************************************************************)
(* What the administrators may rely on: an incident that nobody answers    *)
(* raises one alarm, in a single step that decides whom to tell, and each  *)
(* of them has the alarm in the mailbox once.                              *)
(***************************************************************************)
EXTENDS Integers

CONSTANTS Ids, Admins

VARIABLES
    waiting,   \* the incidents that are open and that nobody has acknowledged
    ripe,      \* those that have waited for the shortest deadline
    alarms,    \* alarms[i]: how often incident i was escalated
    notices,   \* who was to be told of which
    copies     \* copies[n]: how often the mail server took notice n for its recipient

alarm == <<waiting, ripe, alarms, notices, copies>>

Init ==
    /\ waiting = {} /\ ripe = {}
    /\ alarms = [i \in Ids |-> 0]
    /\ notices = {}
    /\ copies = [n \in Ids \X Admins |-> 0]

\* People and alerts open, answer and reopen incidents, and time passes.
Situation(i) ==
    /\ waiting' \in {waiting \cup {i}, waiting \ {i}}
    /\ ripe' \in {ripe, ripe \cup {i}}
    /\ UNCHANGED <<alarms, notices, copies>>

Raise(i) ==
    /\ i \in waiting \cap ripe /\ alarms[i] = 0
    /\ alarms' = [alarms EXCEPT ![i] = 1]
    /\ \E active \in SUBSET Admins : notices' = notices \cup ({i} \X active)
    /\ UNCHANGED <<waiting, ripe, copies>>

Deliver(n) ==
    /\ n \in notices /\ copies[n] = 0
    /\ copies' = [copies EXCEPT ![n] = 1]
    /\ UNCHANGED <<waiting, ripe, alarms, notices>>

Next ==
    \/ \E i \in Ids : Situation(i) \/ Raise(i)
    \/ \E n \in Ids \X Admins : Deliver(n)

Spec == Init /\ [][Next]_alarm
===============================================================================
