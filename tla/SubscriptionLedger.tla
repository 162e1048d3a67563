------------------------- MODULE SubscriptionLedger -------------------------
(***************************************************************************)
(* What the books promise a workspace that pays: whatever Xendit reports,  *)
(* in whatever order and however often it delivers it, each event changes  *)
(* the subscription once, as a whole, by what the books say at that time.  *)
(***************************************************************************)
CONSTANTS Plans, NoPlan, Event, SessionEvents

VARIABLES
    reported,  \* the events Xendit has reported
    booked,    \* those that have changed the books
    account,   \* the subscription: status, plan, cancel, current
    history,   \* the last change of its status: from, to
    invoice    \* invoice[s]: status, paid

ledger == <<reported, booked, account, history, invoice>>

Init ==
    /\ reported = {} /\ booked = {}
    /\ account \in [status: {"TRIALING", "ACTIVE"}, plan: {NoPlan}, cancel: {FALSE}, current: BOOLEAN]
    /\ history = [from |-> account.status, to |-> account.status]
    /\ invoice = [s \in Plans |-> [status |-> "NONE", paid |-> FALSE]]

Report ==
    /\ reported \subseteq reported' /\ reported' \subseteq Event
    /\ UNCHANGED <<booked, account, history, invoice>>

Bill(s, status) ==
    invoice' = [invoice EXCEPT ![s] = [status |-> status, paid |-> @.paid \/ status = "PAID"]]

\* A plan that ends takes a cancelled subscription away only with its period, which may
\* end while the event is being booked.
StatusAfter(type) ==
    CASE type = "plan.inactivated" -> {s \in {"ACTIVE", "CANCELED"} :
                                          /\ s = "ACTIVE" => account.cancel
                                          /\ s = "CANCELED" => ~(account.cancel /\ account.current)}
      [] type = "cycle.failed"     -> {"PAST_DUE"}
      [] OTHER                     -> {"ACTIVE"}

Enter(e) ==
    /\ e.type # "plan.activated" => account.plan = e.plan
    /\ \E to \in StatusAfter(e.type) :
          /\ history' = [from |-> account.status, to |-> to]
          /\ account' = [status  |-> to,
                         plan    |-> e.plan,
                         cancel  |-> account.cancel /\ e.type # "plan.activated" /\ to # "CANCELED",
                         current |-> account.current \/ e.type \in {"plan.activated", "cycle.succeeded"}]
    /\ CASE e.type = "cycle.succeeded" -> Bill(e.plan, "PAID")
         [] e.type = "cycle.failed"    -> Bill(e.plan, "FAILED")
         [] OTHER                      -> UNCHANGED invoice

Book(e) ==
    /\ e \in reported \ booked /\ booked' = booked \cup {e}
    /\ CASE e.type \in SessionEvents   -> UNCHANGED <<account, history, invoice>>
         [] e.type = "cycle.created"   -> /\ account.plan = e.plan /\ Bill(e.plan, "PENDING")
                                          /\ UNCHANGED <<account, history>>
         [] OTHER                      -> Enter(e)
    /\ UNCHANGED reported

Cancel(cancel) ==
    /\ account.status # "CANCELED"
    /\ account' = [account EXCEPT !.cancel = cancel]
    /\ UNCHANGED <<reported, booked, history, invoice>>

PeriodEnds ==
    /\ account.current /\ account' = [account EXCEPT !.current = FALSE]
    /\ UNCHANGED <<reported, booked, history, invoice>>

Next ==
    \/ Report \/ PeriodEnds
    \/ \E e \in Event : Book(e)
    \/ \E cancel \in BOOLEAN : Cancel(cancel)

Spec == Init /\ [][Next]_ledger
=============================================================================
