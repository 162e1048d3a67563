---------------------------- MODULE MeetingSeats ----------------------------
(***************************************************************************)
(* What a meeting promises the people in it, whatever the handlers, the    *)
(* LiveKit room and the workers do behind it: a phase that only advances,  *)
(* a door that closes with the meeting, and a seat each that a gated       *)
(* meeting hands out by admission only.                                    *)
(***************************************************************************)
CONSTANTS Users, Host

VARIABLES
    phase,    \* "pending", "live", "over"
    gated,    \* the meeting has a waiting room
    hosted,   \* the host has been in
    invited,  \* users whose request to join was accepted and is being served
    seat      \* seat[u]: "out", "waiting", "in"

seats == <<phase, gated, hosted, invited, seat>>

Init ==
    /\ phase = "pending" /\ gated \in BOOLEAN /\ hosted = FALSE
    /\ invited = {} /\ seat = [u \in Users |-> "out"]

\* The door is open until the meeting is over.
Invite(u) ==
    /\ phase # "over" /\ invited' = invited \cup {u}
    /\ UNCHANGED <<phase, gated, hosted, seat>>

Decline(u) ==
    /\ invited' = invited \ {u} /\ UNCHANGED <<phase, gated, hosted, seat>>

\* Being served once need not be the last time: a user may have asked twice.
Take(u) ==
    /\ u \in invited /\ invited' \in {invited, invited \ {u}}
    /\ seat' = [seat EXCEPT ![u] = IF @ # "out" THEN @
                                   ELSE IF gated /\ u # Host THEN "waiting" ELSE "in"]
    /\ hosted' = (hosted \/ u = Host)
    /\ UNCHANGED <<phase, gated>>

Admit(u) ==
    /\ seat[u] = "waiting" /\ seat' = [seat EXCEPT ![u] = "in"]
    /\ UNCHANGED <<phase, gated, hosted, invited>>

Vacate(u) ==
    /\ seat[u] # "out" /\ seat' = [seat EXCEPT ![u] = "out"]
    /\ UNCHANGED <<phase, gated, hosted, invited>>

Start ==
    /\ phase = "pending" /\ hosted /\ phase' = "live"
    /\ UNCHANGED <<gated, hosted, invited, seat>>

\* The plan limit empties the seats in the same step; the host's button does not.
Finish ==
    /\ phase' = "over"
    /\ seat' \in {seat, [u \in Users |-> "out"]}
    /\ UNCHANGED <<gated, hosted, invited>>

Next ==
    \/ \E u \in Users : Invite(u) \/ Decline(u) \/ Take(u) \/ Admit(u) \/ Vacate(u)
    \/ Start \/ Finish

Spec == Init /\ [][Next]_seats
=============================================================================
