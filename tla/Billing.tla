------------------------------ MODULE Billing ------------------------------
(***************************************************************************)
(* The subscription of one workspace, its checkouts and invoices, and      *)
(* Xendit, which sells the plans and reports what happens to them in       *)
(* events: each is delivered until it is accepted, perhaps more than once, *)
(* perhaps after others that happened later.                               *)
(*                                                                         *)
(* A webhook is one transaction: it registers its event, whose unique key  *)
(* makes a second delivery wait, locks the subscription, and commits.  The *)
(* checkout and the cancellation stop at every statement that writes and   *)
(* at every call to Xendit.  Abort(p) ends a handler half way; a           *)
(* transaction in flight is then rolled back.                              *)
(***************************************************************************)
EXTENDS Integers

CONSTANTS
    Procs,     \* handlers that may be in flight at once
    MaxPlans   \* bound: checkouts ever begun

ASSUME MaxPlansAssumption == MaxPlans \in Nat \ {0}

VARIABLES
    sub,       \* the row of tenant_subscriptions
    checkout,  \* the rows of billing_checkout_sessions, in the order of created_at
    invoice,   \* the rows of billing_invoices: the first cycle of each plan
    trail,     \* the last row of billing_subscription_events
    applied,   \* how often an event was committed to billing_webhook_events
    xendit,    \* Xendit: the session and then the plan of each checkout
    sent,      \* the events Xendit delivers until they are accepted
    req        \* the handlers in flight

vars == <<sub, checkout, invoice, trail, applied, xendit, sent, req>>

\* A plan has the number of the checkout that sold it; 0 is a plan not sold by Xendit.
Plans  == 1..MaxPlans
NoPlan == 0

Status    == {"TRIALING", "ACTIVE", "PAST_DUE", "CANCELED"}
EventType == {"session.completed", "session.expired", "plan.activated", "plan.inactivated",
              "cycle.created", "cycle.failed", "cycle.succeeded"}

SessionEvents == {"session.completed", "session.expired"}
CycleEvents   == {"cycle.created", "cycle.failed", "cycle.succeeded"}

Event == [type: EventType, plan: Plans]

\* cancel: cancel_at_period_end; current: current_period_ends_at is set and to come.
Subscription == [status: Status, plan: Plans \cup {NoPlan}, cancel: BOOLEAN, current: BOOLEAN]

\* known: provider_session_id is stored.
Checkout == [status: {"NONE", "PENDING", "OPEN", "COMPLETED", "EXPIRED", "CANCELED"}, known: BOOLEAN]
Invoice  == [status: {"NONE", "PENDING", "PAID", "FAILED"}, paid: BOOLEAN]
AtXendit == {"none", "open", "expired", "active", "inactive"}

Steps == {"idle", "session", "store", "abandon",
          "deactivate", "schedule", "lock", "commit"}

\* The steps of a checkout.
Opening == {"session", "store", "abandon"}

Request == [pc: Steps, plan: Plans \cup {NoPlan}, cancel: BOOLEAN, event: Event,
            from: Status, to: Status]

TypeOK ==
    /\ sub \in Subscription
    /\ checkout \in [Plans -> Checkout]
    /\ invoice \in [Plans -> Invoice]
    /\ trail \in [from: Status, to: Status]
    /\ applied \in [Event -> Nat]
    /\ xendit \in [Plans -> AtXendit]
    /\ sent \in SUBSET Event
    /\ req \in [Procs -> Request]

-----------------------------------------------------------------------------
Ev(type, s) == [type |-> type, plan |-> s]

Idle == [pc |-> "idle", plan |-> NoPlan, cancel |-> FALSE, event |-> Ev("plan.activated", 1),
         from |-> "ACTIVE", to |-> "ACTIVE"]

\* signup starts a trial, bootstrap a subscription; neither is Xendit's.
Init ==
    /\ sub \in {[status |-> "TRIALING", plan |-> NoPlan, cancel |-> FALSE, current |-> FALSE],
                [status |-> "ACTIVE", plan |-> NoPlan, cancel |-> FALSE, current |-> TRUE]}
    /\ checkout = [s \in Plans |-> [status |-> "NONE", known |-> FALSE]]
    /\ invoice = [s \in Plans |-> [status |-> "NONE", paid |-> FALSE]]
    /\ trail = [from |-> sub.status, to |-> sub.status]
    /\ applied = [e \in Event |-> 0]
    /\ xendit = [s \in Plans |-> "none"]
    /\ sent = {}
    /\ req = [p \in Procs |-> Idle]

At(p, step) == req[p].pc = step
Goto(p, step) == req' = [req EXCEPT ![p].pc = step]
Done(p) == req' = [req EXCEPT ![p] = Idle]

\* Mutant: SELECT without FOR UPDATE.
LockedNever == FALSE

\* The row lock of the subscription, held from SELECT ... FOR UPDATE to the commit.
Locked == \E q \in Procs : At(q, "commit")

World == <<xendit, sent>>

-----------------------------------------------------------------------------
(* adminBillingCheckout *)

\* An open checkout is offered again for the plan it sells; for another plan a new
\* one may always begin.
CheckoutInsert(p) ==
    /\ At(p, "idle")
    /\ \E s \in Plans :
          /\ checkout[s].status = "NONE" /\ \A t \in Plans : t < s => checkout[t].status # "NONE"
          /\ checkout' = [checkout EXCEPT ![s].status = "PENDING"]
          /\ req' = [req EXCEPT ![p] = [Idle EXCEPT !.pc = "session", !.plan = s]]
    /\ UNCHANGED <<sub, invoice, trail, applied, World>>

\* createXenditSession may fail before it opens a session, or after.
CheckoutSession(p) ==
    LET s == req[p].plan IN
    /\ At(p, "session")
    /\ \/ xendit' = [xendit EXCEPT ![s] = "open"] /\ (Goto(p, "store") \/ Goto(p, "abandon"))
       \/ Goto(p, "abandon") /\ UNCHANGED xendit
    /\ UNCHANGED <<sub, checkout, invoice, trail, applied, sent>>

CheckoutStore(p) ==
    /\ At(p, "store")
    /\ checkout' = [checkout EXCEPT ![req[p].plan] = [status |-> "OPEN", known |-> TRUE]]
    /\ Done(p)
    /\ UNCHANGED <<sub, invoice, trail, applied, World>>

CheckoutAbandon(p) ==
    /\ At(p, "abandon")
    /\ checkout' = [checkout EXCEPT ![req[p].plan].status = "CANCELED"]
    /\ Done(p)
    /\ UNCHANGED <<sub, invoice, trail, applied, World>>

-----------------------------------------------------------------------------
(* adminBillingCancellation *)

\* A plan of Xendit is deactivated there first, and cannot be resumed here.
Cancellation(p, cancel) ==
    /\ At(p, "idle")
    /\ sub.plan # NoPlan => cancel
    /\ req' = [req EXCEPT ![p] = [Idle EXCEPT !.plan = sub.plan, !.cancel = cancel,
                  !.pc = IF sub.plan = NoPlan THEN "schedule" ELSE "deactivate"]]
    /\ UNCHANGED <<sub, checkout, invoice, trail, applied, World>>

\* Xendit reports a plan that becomes inactive, whoever ended it.
Inactivate(s) ==
    /\ xendit[s] = "active"
    /\ xendit' = [xendit EXCEPT ![s] = "inactive"]
    /\ sent' = sent \cup {Ev("plan.inactivated", s)}

\* The call may fail, also after Xendit has deactivated the plan, and may be repeated.
CancelDeactivate(p) ==
    /\ At(p, "deactivate")
    /\ \/ Inactivate(req[p].plan)
       \/ xendit[req[p].plan] = "inactive" /\ UNCHANGED World
    /\ Goto(p, "schedule") \/ Done(p)
    /\ UNCHANGED <<sub, checkout, invoice, trail, applied>>

\* The UPDATE waits for a webhook that has locked the subscription.
CancelSchedule(p) ==
    /\ At(p, "schedule") /\ ~Locked
    /\ sub' = IF sub.status # "CANCELED" THEN [sub EXCEPT !.cancel = req[p].cancel] ELSE sub
    /\ Done(p)
    /\ UNCHANGED <<checkout, invoice, trail, applied, World>>

-----------------------------------------------------------------------------
(* xenditWebhook *)

\* Mutant: the event is looked up before it is registered, and no unique key waits
\* for a delivery of the same event that has not committed.
NewEventUnlocked(e) == e \in sent /\ applied[e] = 0

\* INSERT ... ON CONFLICT DO NOTHING: a second delivery waits for the first; one that
\* was committed is answered as a duplicate, which changes nothing.
NewEvent(e) ==
    /\ e \in sent /\ applied[e] = 0
    /\ \A q \in Procs : req[q].pc \in {"lock", "commit"} => req[q].event # e

Applied(e) == applied' = [applied EXCEPT ![e] = @ + 1]

\* A payment session event is one statement, matched by the session the checkout has
\* stored; it is rejected, and sent again, until there is one.
ApplySession(e) ==
    /\ NewEvent(e) /\ e.type \in SessionEvents /\ checkout[e.plan].known
    /\ checkout' = [checkout EXCEPT ![e.plan].status =
                       IF e.type = "session.completed" THEN "COMPLETED" ELSE "EXPIRED"]
    /\ Applied(e)
    /\ UNCHANGED <<sub, invoice, trail, World, req>>

UpsertCycle(s, status) ==
    invoice' = [invoice EXCEPT ![s] = [status |-> status, paid |-> @.paid \/ status = "PAID"]]

\* upsertXenditCycle alone, for a cycle of the plan the subscription is on.
ApplyCycle(e) ==
    /\ NewEvent(e) /\ e.type = "cycle.created" /\ sub.plan = e.plan
    /\ UpsertCycle(e.plan, "PENDING")
    /\ Applied(e)
    /\ UNCHANGED <<sub, checkout, trail, World, req>>

\* The other events go on to lock the subscription.
Register(p, e) ==
    /\ At(p, "idle") /\ NewEvent(e) /\ e.type \notin SessionEvents \cup {"cycle.created"}
    /\ req' = [req EXCEPT ![p] = [Idle EXCEPT !.pc = "lock", !.event = e]]
    /\ UNCHANGED <<sub, checkout, invoice, trail, applied, World>>

\* Mutant: a failed payment suspends, a status that nothing here leads out of.
OutcomeSuspends(type) ==
    CASE type = "plan.inactivated" -> IF sub.cancel /\ sub.current THEN "ACTIVE" ELSE "CANCELED"
      [] type = "cycle.failed"     -> "SUSPENDED"
      [] OTHER                     -> "ACTIVE"

\* The status an event leads to. A plan that was cancelled keeps its period.
Outcome(type) ==
    CASE type = "plan.inactivated" -> IF sub.cancel /\ sub.current THEN "ACTIVE" ELSE "CANCELED"
      [] type = "cycle.failed"     -> "PAST_DUE"
      [] OTHER                     -> "ACTIVE"

\* SELECT ... FOR UPDATE, by the plan or, for an activation, by the checkout's
\* reference, which every checkout has. An event of another plan is rejected.
Lock(p) ==
    LET e == req[p].event IN
    /\ At(p, "lock") /\ ~Locked
    /\ e.type # "plan.activated" => sub.plan = e.plan
    /\ req' = [req EXCEPT ![p].pc = "commit", ![p].from = sub.status, ![p].to = Outcome(e.type)]
    /\ UNCHANGED <<sub, checkout, invoice, trail, applied, World>>

\* The subscription, its history, the invoice and the event are committed at once.
Commit(p) ==
    LET e == req[p].event
        to == req[p].to
    IN
    /\ At(p, "commit")
    /\ sub' = [status  |-> to,
               plan    |-> IF e.type = "plan.activated" THEN e.plan ELSE sub.plan,
               cancel  |-> sub.cancel /\ e.type # "plan.activated" /\ to # "CANCELED",
               current |-> sub.current \/ e.type \in {"plan.activated", "cycle.succeeded"}]
    /\ CASE e.type = "cycle.succeeded" -> UpsertCycle(e.plan, "PAID")
         [] e.type = "cycle.failed"    -> UpsertCycle(e.plan, "FAILED")
         [] OTHER                      -> UNCHANGED invoice
    /\ trail' = [from |-> req[p].from, to |-> to]
    /\ Applied(e)
    /\ Done(p)
    /\ UNCHANGED <<checkout, World>>

\* The client goes away, a statement or Xendit fails, the process dies, or an event
\* matches nothing: the transaction rolls back, and Xendit sends the event again.
Abort(p) ==
    /\ ~At(p, "idle")
    /\ Done(p)
    /\ UNCHANGED <<sub, checkout, invoice, trail, applied, World>>

-----------------------------------------------------------------------------
(* Xendit, its customers, and time *)

Quiet == UNCHANGED <<sub, checkout, invoice, trail, applied, req>>

Pay(s) ==
    /\ xendit[s] = "open"
    /\ xendit' = [xendit EXCEPT ![s] = "active"]
    /\ sent' = sent \cup {Ev("session.completed", s), Ev("plan.activated", s)}
    /\ Quiet

SessionExpires(s) ==
    /\ xendit[s] = "open"
    /\ xendit' = [xendit EXCEPT ![s] = "expired"]
    /\ sent' = sent \cup {Ev("session.expired", s)}
    /\ Quiet

\* The cycle of an active plan is created, may fail and be tried again, and is paid.
Cycle(type, s) ==
    /\ xendit[s] = "active"
    /\ type # "cycle.created" => Ev("cycle.created", s) \in sent
    /\ Ev("cycle.succeeded", s) \notin sent
    /\ Ev(type, s) \notin sent /\ sent' = sent \cup {Ev(type, s)}
    /\ Quiet /\ UNCHANGED xendit

PlanEnds(s) == Inactivate(s) /\ Quiet

PeriodEnds ==
    /\ sub.current
    /\ sub' = [sub EXCEPT !.current = FALSE]
    /\ UNCHANGED <<checkout, invoice, trail, applied, World, req>>

-----------------------------------------------------------------------------
Handler(p) ==
    \/ CheckoutInsert(p) \/ CheckoutSession(p) \/ CheckoutStore(p) \/ CheckoutAbandon(p)
    \/ \E cancel \in BOOLEAN : Cancellation(p, cancel)
    \/ CancelDeactivate(p) \/ CancelSchedule(p)
    \/ \E e \in Event : Register(p, e)
    \/ Lock(p) \/ Commit(p) \/ Abort(p)

Environment ==
    \/ \E s \in Plans : Pay(s) \/ SessionExpires(s) \/ PlanEnds(s)
    \/ \E s \in Plans, type \in CycleEvents : Cycle(type, s)
    \/ PeriodEnds

Next ==
    \/ \E p \in Procs : Handler(p)
    \/ \E e \in Event : ApplySession(e) \/ ApplyCycle(e)
    \/ Environment

Spec == Init /\ [][Next]_vars

-----------------------------------------------------------------------------
(* Properties *)

\* An event changes the books once, however often and however closely together it is
\* delivered.
AppliedOnce == \A e \in Event : applied[e] <= 1

\* billing_subscription_events is a history: each row starts where the one before it
\* ended, and the last ends where the subscription is, though a webhook writes the
\* status it read when it locked the row.
HistoryIsAChain ==
    [][/\ trail' # trail => trail'.from = trail.to
       /\ sub'.status = trail'.to]_vars

\* No cancellation is scheduled for a subscription that is CANCELED.
ScheduledIsCurrent == sub.cancel => sub.status # "CANCELED"

\* Once a cancellation is scheduled, only a payment of its plan that failed ends access in
\* the paid period, also when that is delivered late, after the payment; and no event,
\* not even one that was looking at the subscription when it was scheduled, cancels it.
ScheduledLostToFailedOnly ==
    [][sub.cancel /\ sub.current =>
         \/ sub'.status \in {sub.status, "ACTIVE"}
         \/ /\ sub'.status = "PAST_DUE"
            /\ applied'[Ev("cycle.failed", sub.plan)] > applied[Ev("cycle.failed", sub.plan)]]_vars

\* A checkout that was completed or expired is not offered again, though the handler
\* that opened it may store its session after the customer has paid.
SettledCheckoutStays ==
    [][\A s \in Plans :
          checkout[s].status \in {"COMPLETED", "EXPIRED"} => checkout'[s] = checkout[s]]_vars

\* An invoice that was paid keeps its date whatever of its cycle arrives late.
PaidStaysPaid == [][\A s \in Plans : invoice[s].paid => invoice'[s].paid]_vars

\* What makes these inductive. A handler that names a plan has one; a checkout has one
\* handler, which finds it as it left it.
CheckoutsOwned ==
    \A p \in Procs :
        /\ req[p].pc \in Opening \cup {"deactivate"} => req[p].plan \in Plans
        /\ req[p].pc \in Opening =>
               /\ checkout[req[p].plan] = [status |-> "PENDING", known |-> FALSE]
               /\ req[p].pc = "session" => xendit[req[p].plan] = "none"
               /\ \A q \in Procs : req[q].pc \in Opening /\ req[q].plan = req[p].plan => q = p

\* A session is paid or expires, never both, and the books follow what Xendit sent.
SessionsAgree ==
    \A s \in Plans :
        /\ checkout[s].status = "NONE" => xendit[s] = "none" /\ ~checkout[s].known
        /\ Ev("session.completed", s) \in sent => xendit[s] \in {"active", "inactive"}
        /\ Ev("session.expired", s) \in sent => xendit[s] = "expired"
        /\ checkout[s].status = "COMPLETED" => Ev("session.completed", s) \in sent
        /\ checkout[s].status = "EXPIRED" => Ev("session.expired", s) \in sent

\* An event in flight is not committed, and is in one transaction.
EventsClaimed ==
    \A p \in Procs : req[p].pc \in {"lock", "commit"} =>
        /\ applied[req[p].event] = 0
        /\ \A q \in Procs : req[q].pc \in {"lock", "commit"} /\ req[q].event = req[p].event => q = p

\* What a transaction read when it locked the subscription is still so.
LockedRead ==
    \A p \in Procs : At(p, "commit") =>
        /\ req[p].from = sub.status
        /\ req[p].to = "CANCELED" => ~(sub.cancel /\ sub.current)
        /\ \A q \in Procs : At(q, "commit") => q = p

\* An event in flight was reported; once it has locked the subscription it is about the
\* plan the subscription is on, or puts it on one, and the status it read is to become
\* what the event asks for still.
LockedEvent ==
    \A p \in Procs :
        LET e == req[p].event
            to == req[p].to
        IN  /\ req[p].pc \in {"lock", "commit"} =>
                   e \in sent /\ e.type \notin SessionEvents \cup {"cycle.created"}
            /\ At(p, "commit") =>
                   /\ e.type # "plan.activated" => sub.plan = e.plan
                   /\ CASE e.type = "plan.inactivated" -> to = "CANCELED" \/ (to = "ACTIVE" /\ sub.cancel)
                        [] e.type = "cycle.failed"     -> to = "PAST_DUE"
                        [] OTHER                       -> to = "ACTIVE"

IInv ==
    /\ TypeOK /\ CheckoutsOwned /\ SessionsAgree /\ EventsClaimed /\ LockedRead /\ LockedEvent
    /\ AppliedOnce /\ ScheduledIsCurrent /\ trail.to = sub.status

Booked == {e \in Event : applied[e] # 0}

Ledger == INSTANCE SubscriptionLedger WITH
    reported <- sent, booked <- Booked, account <- sub, history <- trail, invoice <- invoice

\* Webhooks, checkouts and cancellations that overlap, fail and are repeated change the
\* books like a ledger into which one event is entered at a time.
KeepsLedger == Ledger!Spec
=============================================================================
