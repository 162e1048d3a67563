--------------------------- MODULE MCMeetingRoom ---------------------------
(* Instances of MeetingRoom for TLC. *)
EXTENDS MeetingRoom, TLC

ProcSymmetry == Permutations(Procs)

\* The two-handler run takes a gated meeting for what happens among the people in
\* it, and an open one for how it ends.
MCInit == Init /\ (meeting.waitingRoom => meeting.status = "WAITING")

\* Bound of the gated meeting: nobody ends, locks or deletes it, and the host's own
\* client does not connect.
Membership ==
    /\ ~overdue /\ Host \notin live
    /\ \A p \in Procs : req[p].pc \notin {"control", "delete"}

\* Bound of the open meeting: nobody lists, moderates or connects.
Closing ==
    /\ tokens = {}
    /\ \A p \in Procs : req[p].pc \notin {"snapshot", "update"}

Bound == IF meeting.waitingRoom THEN Membership ELSE Closing
=============================================================================
