------------------------------ MODULE ExportDesk ------------------------------
(***************************************************************************)
(* What the data exports promise, as if no worker, lock or process were    *)
(* there to fail: who may have an archive, when it is in the store, and    *)
(* that it is there when it is called READY and not when it is EXPIRED.    *)
(***************************************************************************)
CONSTANTS Exports, Admins, NoAdmin

VARIABLES
    status,    \* what is said of each export
    by, judge, \* who asked for it, and who decided
    stored,    \* the archives that exist
    late,      \* those that are to go
    doubted,   \* READY ones whose maker was not told so
    handed     \* those that were handed out

desk == <<status, by, judge, stored, late, doubted, handed>>

Waiting == {"PENDING", "APPROVED", "PROCESSING"}

Is(e, s) == status[e] = s
Becomes(e, s) == status' = [status EXCEPT ![e] = s]

Init ==
    /\ status = [e \in Exports |-> "NONE"]
    /\ by \in [Exports -> Admins] /\ judge = [e \in Exports |-> NoAdmin]
    /\ stored = {} /\ late = {} /\ doubted = {} /\ handed = {}

Ask(e, a) ==
    /\ Is(e, "NONE") /\ \A f \in Exports : by[f] = a => status[f] \notin Waiting
    /\ Becomes(e, "PENDING") /\ by' = [by EXCEPT ![e] = a]
    /\ UNCHANGED <<judge, stored, late, doubted, handed>>

Decide(e, a, verdict) ==
    /\ Is(e, "PENDING") /\ by[e] # a
    /\ Becomes(e, verdict) /\ judge' = [judge EXCEPT ![e] = a]
    /\ UNCHANGED <<by, stored, late, doubted, handed>>

Make(e) ==
    /\ Is(e, "APPROVED") /\ Becomes(e, "PROCESSING")
    /\ UNCHANGED <<by, judge, stored, late, doubted, handed>>

Put(e) ==
    /\ Is(e, "PROCESSING") /\ stored' = stored \cup {e}
    /\ UNCHANGED <<status, by, judge, late, doubted, handed>>

Finish(e) ==
    /\ Is(e, "PROCESSING") /\ e \in stored /\ Becomes(e, "READY")
    /\ doubted' \in {doubted, doubted \cup {e}}
    /\ UNCHANGED <<by, judge, stored, late, handed>>

GiveUp(e) ==
    /\ Is(e, "PROCESSING") /\ Becomes(e, "FAILED")
    /\ UNCHANGED <<by, judge, stored, late, doubted, handed>>

\* An archive is taken away before it is said to be there, when it is late, and by a maker
\* in doubt.
Remove(e) ==
    /\ Is(e, "PROCESSING") \/ e \in late \cup doubted
    /\ stored' = stored \ {e} /\ doubted' \in {doubted, doubted \ {e}}
    /\ UNCHANGED <<status, by, judge, late, handed>>

Expire(e) ==
    /\ Is(e, "READY") /\ e \in late \ stored /\ Becomes(e, "EXPIRED")
    /\ doubted' = doubted \ {e}
    /\ UNCHANGED <<by, judge, stored, late, handed>>

HandOut(e) ==
    /\ Is(e, "READY") /\ e \notin late /\ handed' = handed \cup {e}
    /\ UNCHANGED <<status, by, judge, stored, late, doubted>>

\* Time passes, or a doubt is forgotten.
Passes(e) ==
    /\ \/ Is(e, "READY") /\ late' = late \cup {e} /\ UNCHANGED doubted
       \/ doubted' = doubted \ {e} /\ UNCHANGED late
    /\ UNCHANGED <<status, by, judge, stored, handed>>

Next == \E e \in Exports :
    \/ \E a \in Admins :
          Ask(e, a) \/ \E verdict \in {"APPROVED", "REJECTED"} : Decide(e, a, verdict)
    \/ Make(e) \/ Put(e) \/ Finish(e) \/ GiveUp(e) \/ Remove(e) \/ Expire(e)
    \/ HandOut(e) \/ Passes(e)

Spec == Init /\ [][Next]_desk
===============================================================================
