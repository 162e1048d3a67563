----------------------------- MODULE MCBilling -----------------------------
(* Instances of Billing for TLC. *)
EXTENDS Billing, TLC

ProcSymmetry == Permutations(Procs)

\* Bound of the second plan, which is bought over the first one: it is only activated,
\* and of the first no payment fails and no period ends beside it.
Upgrade ==
    /\ checkout[2].status # "NONE" =>
           /\ xendit[1] \in {"active", "inactive"}
           /\ Ev("cycle.failed", 1) \notin sent /\ sub.current
    /\ \A type \in CycleEvents \cup {"session.expired", "plan.inactivated"} :
           Ev(type, 2) \notin sent
=============================================================================
