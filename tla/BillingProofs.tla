--------------------------- MODULE BillingProofs ---------------------------
(* Theorems about Billing for any handlers and any number of checkouts. *)
EXTENDS Billing, TLAPS

USE MaxPlansAssumption

LEMMA EvType == \A type \in EventType, s \in Plans : Ev(type, s) \in Event
BY DEF Ev, Event

LEMMA IdleType == Idle \in Request /\ Idle.pc = "idle"
<1>1. 1 \in Plans /\ "plan.activated" \in EventType
  BY DEF Plans, EventType
<1> QED BY <1>1, EvType DEF Idle, Request, Steps, Status, NoPlan

LEMMA OutcomeType == ASSUME NEW type PROVE Outcome(type) \in Status
BY DEF Outcome, Status

\* Every step keeps the variables in their types.
LEMMA TypeStep == TypeOK /\ CheckoutsOwned /\ [Next]_vars => TypeOK'
<1> SUFFICES ASSUME TypeOK, CheckoutsOwned, [Next]_vars PROVE TypeOK'
  OBVIOUS
<1> USE DEF TypeOK, At, Goto, Done, World
<1> USE IdleType, EvType
<1>r. /\ \A r \in Request, step \in Steps : [r EXCEPT !.pc = step] \in Request
      /\ \A p \in Procs : req[p] \in Request /\ req[p].event \in Event
      /\ \A e \in Event : e.type \in EventType /\ e.plan \in Plans
  BY DEF Request, Event
<1>c. \A c \in Checkout, status \in {"PENDING", "COMPLETED", "EXPIRED", "CANCELED"} :
        [c EXCEPT !.status = status] \in Checkout
  BY DEF Checkout
<1>p. \A p \in Procs : req[p].pc \in Opening \cup {"deactivate"} => req[p].plan \in Plans
  BY DEF CheckoutsOwned
<1>u. \A s \in Plans, status \in {"PENDING", "PAID", "FAILED"} :
        UpsertCycle(s, status) => invoice' \in [Plans -> Invoice]
  BY DEF UpsertCycle, Invoice
<1>a. \A e \in Event : Applied(e) => applied' \in [Event -> Nat]
  BY DEF Applied
<1>0. CASE UNCHANGED vars
  BY <1>0 DEF vars
<1>1. ASSUME NEW p \in Procs, CheckoutInsert(p) PROVE TypeOK'
  <2>1. PICK s \in Plans :
          /\ checkout' = [checkout EXCEPT ![s].status = "PENDING"]
          /\ req' = [req EXCEPT ![p] = [Idle EXCEPT !.pc = "session", !.plan = s]]
    BY <1>1 DEF CheckoutInsert
  <2>2. [Idle EXCEPT !.pc = "session", !.plan = s] \in Request
    BY DEF Request, Steps
  <2> QED BY <1>1, <2>1, <2>2, <1>c DEF CheckoutInsert
<1>2. ASSUME NEW p \in Procs, CheckoutSession(p) PROVE TypeOK'
  <2>1. req' \in [Procs -> Request]
    <3>1. "store" \in Steps /\ "abandon" \in Steps
      BY DEF Steps
    <3> QED BY <1>2, <3>1, <1>r DEF CheckoutSession
  <2>2. xendit' \in [Plans -> AtXendit]
    BY <1>2 DEF CheckoutSession, AtXendit
  <2> QED BY <1>2, <2>1, <2>2 DEF CheckoutSession
<1>3. ASSUME NEW p \in Procs, CheckoutStore(p) \/ CheckoutAbandon(p) PROVE TypeOK'
  <2>1. [status |-> "OPEN", known |-> TRUE] \in Checkout /\ req[p].plan \in Plans
    BY <1>3, <1>p DEF CheckoutStore, CheckoutAbandon, Checkout, Opening
  <2>2. checkout[req[p].plan] \in Checkout
    BY <2>1
  <2>3. [checkout[req[p].plan] EXCEPT !.status = "CANCELED"] \in Checkout
    BY <2>2, <1>c
  <2>4. checkout' \in [Plans -> Checkout]
    BY <1>3, <2>1, <2>3 DEF CheckoutStore, CheckoutAbandon
  <2> QED BY <1>3, <2>4 DEF CheckoutStore, CheckoutAbandon
<1>4. ASSUME NEW p \in Procs, NEW cancel \in BOOLEAN, Cancellation(p, cancel) PROVE TypeOK'
  <2>1. \A step \in {"schedule", "deactivate"} :
          [Idle EXCEPT !.plan = sub.plan, !.cancel = cancel, !.pc = step] \in Request
    BY DEF Request, Subscription, Steps
  <2>2. req' \in [Procs -> Request]
    BY <1>4, <2>1 DEF Cancellation
  <2> QED BY <1>4, <2>2 DEF Cancellation
<1>5. ASSUME NEW p \in Procs, CancelDeactivate(p) PROVE TypeOK'
  <2>1. req' \in [Procs -> Request]
    <3>1. "schedule" \in Steps
      BY DEF Steps
    <3> QED BY <1>5, <3>1, <1>r DEF CancelDeactivate
  <2>2. xendit' \in [Plans -> AtXendit] /\ sent' \in SUBSET Event
    BY <1>5, <1>p DEF CancelDeactivate, Inactivate, AtXendit, EventType
  <2> QED BY <1>5, <2>1, <2>2 DEF CancelDeactivate
<1>6. ASSUME NEW p \in Procs, CancelSchedule(p) PROVE TypeOK'
  <2>1. sub' \in Subscription
    BY <1>6, <1>r DEF CancelSchedule, Subscription, Request
  <2> QED BY <1>6, <2>1 DEF CancelSchedule
<1>7. ASSUME NEW p \in Procs, NEW e \in Event, Register(p, e) PROVE TypeOK'
  <2>1. [Idle EXCEPT !.pc = "lock", !.event = e] \in Request
    BY DEF Request, Steps
  <2> QED BY <1>7, <2>1 DEF Register
<1>8. ASSUME NEW p \in Procs, Lock(p) PROVE TypeOK'
  <2>1. /\ sub.status \in Status /\ "commit" \in Steps
        /\ Outcome(req[p].event.type) \in Status
    BY OutcomeType DEF Subscription, Steps
  <2>2. [req[p] EXCEPT !.pc = "commit", !.from = sub.status,
                       !.to = Outcome(req[p].event.type)] \in Request
    BY <2>1, <1>r DEF Request
  <2>3. req' = [req EXCEPT ![p] = [@ EXCEPT !.pc = "commit", !.from = sub.status,
                                            !.to = Outcome(req[p].event.type)]]
    BY <1>8 DEF Lock
  <2> QED BY <1>8, <2>2, <2>3 DEF Lock
<1>9. ASSUME NEW p \in Procs, Commit(p) PROVE TypeOK'
  <2>1. req[p].to \in Status /\ req[p].from \in Status /\ req[p].event \in Event
    BY <1>r DEF Request
  <2>2. sub' \in Subscription
    BY <1>9, <2>1, <1>r DEF Commit, Subscription
  <2>3. invoice' \in [Plans -> Invoice]
    BY <1>9, <2>1, <1>r, <1>u DEF Commit
  <2> QED BY <1>9, <2>1, <2>2, <2>3, <1>a DEF Commit
<1>10. ASSUME NEW p \in Procs, Abort(p) PROVE TypeOK'
  BY <1>10 DEF Abort
<1>11. ASSUME NEW e \in Event, ApplySession(e) PROVE TypeOK'
  BY <1>11, <1>a, <1>c, <1>r DEF ApplySession
<1>12. ASSUME NEW e \in Event, ApplyCycle(e) PROVE TypeOK'
  BY <1>12, <1>a, <1>u, <1>r DEF ApplyCycle
<1>13. ASSUME NEW s \in Plans, Pay(s) \/ SessionExpires(s) \/ PlanEnds(s) PROVE TypeOK'
  BY <1>13 DEF Pay, SessionExpires, PlanEnds, Inactivate, Quiet, AtXendit, EventType
<1>14. ASSUME NEW s \in Plans, NEW type \in CycleEvents, Cycle(type, s) PROVE TypeOK'
  BY <1>14 DEF Cycle, Quiet, CycleEvents, EventType
<1>15. CASE PeriodEnds
  BY <1>15 DEF PeriodEnds, Subscription
<1> QED
  BY <1>0, <1>1, <1>2, <1>3, <1>4, <1>5, <1>6, <1>7, <1>8, <1>9, <1>10, <1>11, <1>12, <1>13,
     <1>14, <1>15 DEF Next, Handler, Environment

LEMMA TypeInit == Init => TypeOK
<1> SUFFICES ASSUME Init PROVE TypeOK
  OBVIOUS
<1>1. sub \in Subscription
  <2>1. /\ [status |-> "TRIALING", plan |-> NoPlan, cancel |-> FALSE, current |-> FALSE] \in Subscription
        /\ [status |-> "ACTIVE", plan |-> NoPlan, cancel |-> FALSE, current |-> TRUE] \in Subscription
    BY DEF Subscription, Status
  <2> QED BY <2>1 DEF Init
<1>2. trail \in [from: Status, to: Status]
  BY <1>1 DEF Init, Subscription
<1>3. checkout \in [Plans -> Checkout] /\ invoice \in [Plans -> Invoice]
  BY DEF Init, Checkout, Invoice
<1> QED BY <1>1, <1>2, <1>3, IdleType DEF Init, TypeOK, AtXendit

-----------------------------------------------------------------------------
\* What the books of Xendit and of the checkouts say of each other stays so.
LEMMA CheckoutsStep ==
    TypeOK /\ CheckoutsOwned /\ SessionsAgree /\ [Next]_vars => CheckoutsOwned' /\ SessionsAgree'
<1> SUFFICES ASSUME TypeOK, CheckoutsOwned, SessionsAgree, [Next]_vars
             PROVE  CheckoutsOwned' /\ SessionsAgree'
  OBVIOUS
<1> USE DEF At, Goto, Done, World, Opening
<1>t. /\ checkout \in [Plans -> Checkout] /\ xendit \in [Plans -> AtXendit]
      /\ req \in [Procs -> Request] /\ sub.plan \in Plans \cup {NoPlan}
      /\ \A e \in Event : e.type \in EventType /\ e.plan \in Plans /\ Ev(e.type, e.plan) = e
      /\ \A s \in Plans : checkout[s] \in Checkout
  BY DEF TypeOK, Subscription, Event, Ev
<1>e. \A a, b, s, t : Ev(a, s) = Ev(b, t) => a = b /\ s = t
  BY DEF Ev
<1>i. Idle.pc = "idle"
  BY IdleType
<1>0. CASE UNCHANGED <<checkout, xendit, sent, req>>
  BY <1>0 DEF CheckoutsOwned, SessionsAgree
<1>1. ASSUME NEW p \in Procs, CheckoutInsert(p) PROVE CheckoutsOwned' /\ SessionsAgree'
  <2>1. PICK s \in Plans :
          /\ checkout[s].status = "NONE"
          /\ checkout' = [checkout EXCEPT ![s].status = "PENDING"]
          /\ req' = [req EXCEPT ![p] = [Idle EXCEPT !.pc = "session", !.plan = s]]
    BY <1>1 DEF CheckoutInsert
  <2>2. xendit[s] = "none" /\ ~checkout[s].known
    BY <2>1 DEF SessionsAgree
  <2>3. /\ checkout'[s] = [status |-> "PENDING", known |-> FALSE]
        /\ \A t \in Plans \ {s} : checkout'[t] = checkout[t]
    BY <2>1, <2>2, <1>t DEF Checkout
  <2>4. /\ req'[p].pc = "session" /\ req'[p].plan = s
        /\ \A q \in Procs \ {p} : req'[q] = req[q]
    BY <2>1, <1>t DEF Idle
  <2>5. UNCHANGED <<xendit, sent>>
    BY <1>1 DEF CheckoutInsert
  <2>6. \A q \in Procs : req[q].pc \in Opening => req[q].plan # s
    BY <2>1 DEF CheckoutsOwned
  <2>7. CheckoutsOwned'
    BY <2>2, <2>3, <2>4, <2>5, <2>6 DEF CheckoutsOwned
  <2>8. SessionsAgree'
    BY <2>2, <2>3, <2>5 DEF SessionsAgree
  <2> QED BY <2>7, <2>8
<1>2. ASSUME NEW p \in Procs, CheckoutSession(p) PROVE CheckoutsOwned' /\ SessionsAgree'
  <2> DEFINE s == req[p].plan
  <2>1. /\ s \in Plans /\ xendit[s] = "none"
        /\ checkout[s] = [status |-> "PENDING", known |-> FALSE]
        /\ \A q \in Procs : req[q].pc \in Opening /\ req[q].plan = s => q = p
    BY <1>2 DEF CheckoutSession, CheckoutsOwned
  <2>2. /\ req'[p].pc \in {"store", "abandon"} /\ req'[p].plan = s
        /\ \A q \in Procs \ {p} : req'[q] = req[q]
    BY <1>2, <1>t DEF CheckoutSession, Request
  <2>3. /\ UNCHANGED <<checkout, sent>>
        /\ \A t \in Plans \ {s} : xendit'[t] = xendit[t]
    BY <1>2, <1>t DEF CheckoutSession
  <2>4. CheckoutsOwned'
    BY <2>1, <2>2, <2>3 DEF CheckoutsOwned
  <2>5. SessionsAgree'
    BY <2>1, <2>3 DEF SessionsAgree
  <2> QED BY <2>4, <2>5
<1>3. ASSUME NEW p \in Procs, CheckoutStore(p) \/ CheckoutAbandon(p)
      PROVE  CheckoutsOwned' /\ SessionsAgree'
  <2> DEFINE s == req[p].plan
  <2>1. /\ s \in Plans
        /\ \A q \in Procs : req[q].pc \in Opening /\ req[q].plan = s => q = p
    BY <1>3 DEF CheckoutStore, CheckoutAbandon, CheckoutsOwned
  <2>2. req'[p].pc = "idle" /\ \A q \in Procs \ {p} : req'[q] = req[q]
    BY <1>3, <1>t, <1>i DEF CheckoutStore, CheckoutAbandon
  <2>3. /\ UNCHANGED <<xendit, sent>> /\ checkout'[s].status \in {"OPEN", "CANCELED"}
        /\ \A t \in Plans \ {s} : checkout'[t] = checkout[t]
    BY <1>3, <1>t, <2>1 DEF CheckoutStore, CheckoutAbandon, Checkout
  <2>4. CheckoutsOwned'
    BY <2>1, <2>2, <2>3 DEF CheckoutsOwned
  <2>5. SessionsAgree'
    BY <2>3 DEF SessionsAgree
  <2> QED BY <2>4, <2>5
<1>4. ASSUME NEW p \in Procs, NEW cancel \in BOOLEAN, Cancellation(p, cancel)
      PROVE  CheckoutsOwned' /\ SessionsAgree'
  <2>1. /\ req'[p].pc \in {"schedule", "deactivate"}
        /\ req'[p].pc = "deactivate" => req'[p].plan \in Plans
        /\ \A q \in Procs \ {p} : req'[q] = req[q]
    BY <1>4, <1>t DEF Cancellation, Idle
  <2>2. UNCHANGED <<checkout, xendit, sent>>
    BY <1>4 DEF Cancellation
  <2> QED BY <2>1, <2>2 DEF CheckoutsOwned, SessionsAgree
<1>5. ASSUME NEW p \in Procs, CancelDeactivate(p) PROVE CheckoutsOwned' /\ SessionsAgree'
  <2> DEFINE s == req[p].plan
  <2>1. s \in Plans
    BY <1>5 DEF CancelDeactivate, CheckoutsOwned
  <2>2. /\ req'[p].pc \in {"schedule", "idle"} /\ \A q \in Procs \ {p} : req'[q] = req[q]
        /\ UNCHANGED checkout
    BY <1>5, <1>t, <1>i DEF CancelDeactivate, Request
  <2>3. /\ xendit[s] \in {"active", "inactive"} /\ xendit'[s] = "inactive"
        /\ \A t \in Plans \ {s} : xendit'[t] = xendit[t]
        /\ sent' \subseteq sent \cup {Ev("plan.inactivated", s)} /\ sent \subseteq sent'
    BY <1>5, <1>t, <2>1 DEF CancelDeactivate, Inactivate
  <2>4. CheckoutsOwned'
    BY <2>1, <2>2, <2>3 DEF CheckoutsOwned
  <2>5. SessionsAgree'
    BY <2>1, <2>2, <2>3, <1>e DEF SessionsAgree
  <2> QED BY <2>4, <2>5
<1>6. ASSUME NEW p \in Procs,
             \/ CancelSchedule(p) \/ Lock(p) \/ Commit(p) \/ Abort(p)
             \/ \E e \in Event : Register(p, e)
      PROVE  CheckoutsOwned' /\ SessionsAgree'
  <2>1. UNCHANGED <<checkout, xendit, sent>>
    BY <1>6 DEF CancelSchedule, Lock, Commit, Abort, Register
  <2>2. CASE CancelSchedule(p) \/ Commit(p) \/ Abort(p)
    <3>1. req' = [req EXCEPT ![p] = Idle]
      BY <2>2 DEF CancelSchedule, Commit, Abort
    <3>2. req'[p].pc = "idle" /\ \A q \in Procs \ {p} : req'[q] = req[q]
      BY <3>1, <1>t, <1>i
    <3> QED BY <2>1, <3>2 DEF CheckoutsOwned, SessionsAgree
  <2>3. CASE Lock(p) \/ \E e \in Event : Register(p, e)
    <3>1. req'[p].pc \in {"lock", "commit"}
      <4>1. CASE Lock(p)
        BY <4>1, <1>t DEF Lock, Request
      <4>2. ASSUME NEW e \in Event, Register(p, e) PROVE req'[p].pc = "lock"
        BY <4>2, <1>t DEF Register, Idle
      <4> QED BY <2>3, <4>1, <4>2
    <3>2. \A q \in Procs \ {p} : req'[q] = req[q]
      BY <2>3, <1>t DEF Lock, Register
    <3> QED BY <2>1, <3>1, <3>2 DEF CheckoutsOwned, SessionsAgree
  <2> QED BY <1>6, <2>2, <2>3
<1>7. ASSUME NEW e \in Event, ApplySession(e) PROVE CheckoutsOwned' /\ SessionsAgree'
  <2> DEFINE s == e.plan
  <2>1. /\ s \in Plans /\ checkout[s].known /\ e \in sent /\ e = Ev(e.type, s)
        /\ e.type \in SessionEvents
    BY <1>7, <1>t DEF ApplySession, NewEvent
  <2>2. /\ UNCHANGED <<xendit, sent, req>>
        /\ \A t \in Plans \ {s} : checkout'[t] = checkout[t]
        /\ \/ checkout'[s].status = "COMPLETED" /\ e.type = "session.completed"
           \/ checkout'[s].status = "EXPIRED" /\ e.type = "session.expired"
    BY <1>7, <1>t, <2>1 DEF ApplySession, SessionEvents, Checkout
  <2>3. \A q \in Procs : req[q].pc \in Opening => req[q].plan # s
    BY <2>1 DEF CheckoutsOwned
  <2>4. CheckoutsOwned'
    BY <2>2, <2>3 DEF CheckoutsOwned
  <2>5. SessionsAgree'
    BY <2>1, <2>2 DEF SessionsAgree
  <2> QED BY <2>4, <2>5
<1>8. ASSUME NEW e \in Event, ApplyCycle(e) PROVE CheckoutsOwned' /\ SessionsAgree'
  BY <1>8, <1>0 DEF ApplyCycle
<1>9. ASSUME NEW s \in Plans, Pay(s) \/ SessionExpires(s) \/ PlanEnds(s)
      PROVE  CheckoutsOwned' /\ SessionsAgree'
  <2>1. /\ UNCHANGED <<checkout, req>> /\ xendit[s] \in {"open", "active"}
        /\ \A t \in Plans \ {s} : xendit'[t] = xendit[t]
        /\ xendit'[s] \in {"active", "inactive", "expired"}
    BY <1>9, <1>t DEF Pay, SessionExpires, PlanEnds, Inactivate, Quiet
  <2>2. CheckoutsOwned'
    BY <2>1 DEF CheckoutsOwned
  <2>3. /\ sent \subseteq sent'
        /\ \A type : \A t \in Plans \ {s} : Ev(type, t) \in sent' => Ev(type, t) \in sent
    BY <1>9, <1>e DEF Pay, SessionExpires, PlanEnds, Inactivate
  <2>4. /\ Ev("session.completed", s) \in sent' => xendit'[s] \in {"active", "inactive"}
        /\ Ev("session.expired", s) \in sent' => xendit'[s] = "expired"
    BY <1>9, <1>e, <1>t DEF Pay, SessionExpires, PlanEnds, Inactivate, SessionsAgree
  <2>5. SessionsAgree'
    BY <2>1, <2>3, <2>4 DEF SessionsAgree
  <2> QED BY <2>2, <2>5
<1>10. ASSUME NEW s \in Plans, NEW type \in CycleEvents, Cycle(type, s)
       PROVE  CheckoutsOwned' /\ SessionsAgree'
  <2>1. /\ UNCHANGED <<checkout, xendit, req>> /\ sent \subseteq sent'
        /\ \A t, kind : Ev(kind, t) \in sent' => Ev(kind, t) \in sent \/ kind = type
    BY <1>10, <1>e DEF Cycle, Quiet
  <2>2. type \notin SessionEvents
    BY DEF CycleEvents, SessionEvents
  <2> QED BY <2>1, <2>2 DEF CheckoutsOwned, SessionsAgree, SessionEvents
<1>11. CASE PeriodEnds
  BY <1>11, <1>0 DEF PeriodEnds
<1> QED
  BY <1>0, <1>1, <1>2, <1>3, <1>4, <1>5, <1>6, <1>7, <1>8, <1>9, <1>10, <1>11
  DEF Next, Handler, Environment, vars

-----------------------------------------------------------------------------
\* Who is in a transaction after a step, and with what event.
InFlight(p) == req[p].pc \in {"lock", "commit"}

\* How a step changes the handlers and the events: nobody takes up an event but by
\* Register, and none is committed but by whoever holds it, or at once.
EventMoves ==
    \/ /\ applied' = applied
       /\ \A p \in Procs : InFlight(p)' => InFlight(p) /\ req'[p].event = req[p].event
    \/ \E p \in Procs, e \in Event :
          /\ applied' = applied /\ NewEvent(e) /\ req'[p].event = e
          /\ \A q \in Procs \ {p} : req'[q] = req[q]
    \/ \E p \in Procs :
          /\ InFlight(p) /\ ~InFlight(p)' /\ Applied(req[p].event)
          /\ \A q \in Procs \ {p} : req'[q] = req[q]
    \/ \E e \in Event : NewEvent(e) /\ Applied(e) /\ req' = req

LEMMA EventStep == TypeOK /\ [Next]_vars => EventMoves
<1> SUFFICES ASSUME TypeOK, [Next]_vars PROVE EventMoves
  OBVIOUS
<1> USE DEF At, Goto, Done, World, InFlight
<1>t. req \in [Procs -> Request]
  BY DEF TypeOK
<1>i. Idle.pc = "idle"
  BY IdleType
<1>0. CASE UNCHANGED <<applied, req>>
  BY <1>0 DEF EventMoves
<1>1. ASSUME NEW p \in Procs, applied' = applied, req'[p].pc \notin {"lock", "commit"},
             \A q \in Procs \ {p} : req'[q] = req[q]
      PROVE  EventMoves
  BY <1>1 DEF EventMoves
<1>2. ASSUME NEW p \in Procs, CheckoutInsert(p) PROVE EventMoves
  <2>1. req'[p].pc = "session" /\ \A q \in Procs \ {p} : req'[q] = req[q]
    BY <1>2, <1>t DEF CheckoutInsert, Idle
  <2> QED BY <1>1, <1>2, <2>1 DEF CheckoutInsert
<1>3. ASSUME NEW p \in Procs, CheckoutSession(p) PROVE EventMoves
  <2>1. req'[p].pc \in {"store", "abandon"} /\ \A q \in Procs \ {p} : req'[q] = req[q]
    BY <1>3, <1>t DEF CheckoutSession, Request
  <2> QED BY <1>1, <1>3, <2>1 DEF CheckoutSession
<1>4. ASSUME NEW p \in Procs,
             CheckoutStore(p) \/ CheckoutAbandon(p) \/ CancelSchedule(p) \/ Abort(p)
      PROVE  EventMoves
  <2>1. req' = [req EXCEPT ![p] = Idle] /\ applied' = applied
    BY <1>4 DEF CheckoutStore, CheckoutAbandon, CancelSchedule, Abort
  <2> QED BY <1>1, <2>1, <1>t, <1>i
<1>5. ASSUME NEW p \in Procs, NEW cancel \in BOOLEAN, Cancellation(p, cancel) PROVE EventMoves
  <2>1. req'[p].pc \in {"schedule", "deactivate"} /\ \A q \in Procs \ {p} : req'[q] = req[q]
    BY <1>5, <1>t DEF Cancellation, Idle
  <2> QED BY <1>1, <1>5, <2>1 DEF Cancellation
<1>6. ASSUME NEW p \in Procs, CancelDeactivate(p) PROVE EventMoves
  <2>1. req'[p].pc \in {"schedule", "idle"} /\ \A q \in Procs \ {p} : req'[q] = req[q]
    BY <1>6, <1>t, <1>i DEF CancelDeactivate, Request
  <2> QED BY <1>1, <1>6, <2>1 DEF CancelDeactivate
<1>7. ASSUME NEW p \in Procs, NEW e \in Event, Register(p, e) PROVE EventMoves
  <2>1. req'[p].event = e /\ \A q \in Procs \ {p} : req'[q] = req[q]
    BY <1>7, <1>t DEF Register, Idle
  <2> QED BY <1>7, <2>1 DEF EventMoves, Register
<1>8. ASSUME NEW p \in Procs, Lock(p) PROVE EventMoves
  <2>1. /\ InFlight(p) /\ req'[p].event = req[p].event
        /\ \A q \in Procs \ {p} : req'[q] = req[q]
    BY <1>8, <1>t DEF Lock, Request
  <2> QED BY <1>8, <2>1 DEF EventMoves, Lock
<1>9. ASSUME NEW p \in Procs, Commit(p) PROVE EventMoves
  <2>1. req'[p].pc = "idle" /\ \A q \in Procs \ {p} : req'[q] = req[q]
    BY <1>9, <1>t, <1>i DEF Commit
  <2> QED BY <1>9, <2>1 DEF EventMoves, Commit
<1>10. ASSUME NEW e \in Event, ApplySession(e) \/ ApplyCycle(e) PROVE EventMoves
  BY <1>10 DEF EventMoves, ApplySession, ApplyCycle
<1>11. CASE Environment
  BY <1>11, <1>0 DEF Environment, Pay, SessionExpires, PlanEnds, Cycle, PeriodEnds, Quiet
<1> QED
  BY <1>0, <1>2, <1>3, <1>4, <1>5, <1>6, <1>7, <1>8, <1>9, <1>10, <1>11
  DEF Next, Handler, vars

LEMMA EventsStep ==
    TypeOK /\ EventsClaimed /\ AppliedOnce /\ [Next]_vars => EventsClaimed' /\ AppliedOnce'
<1> SUFFICES ASSUME TypeOK, EventsClaimed, AppliedOnce, EventMoves
             PROVE  EventsClaimed' /\ AppliedOnce'
  BY EventStep
<1> USE DEF InFlight
<1>t. /\ req \in [Procs -> Request] /\ applied \in [Event -> Nat]
      /\ \A p \in Procs : req[p].event \in Event
  BY DEF TypeOK, Request
<1>1. CASE /\ applied' = applied
           /\ \A p \in Procs : InFlight(p)' => InFlight(p) /\ req'[p].event = req[p].event
  BY <1>1 DEF EventsClaimed, AppliedOnce
<1>2. ASSUME NEW p \in Procs, NEW e \in Event,
             applied' = applied, NewEvent(e), req'[p].event = e,
             \A q \in Procs \ {p} : req'[q] = req[q]
      PROVE  EventsClaimed' /\ AppliedOnce'
  BY <1>2 DEF EventsClaimed, AppliedOnce, NewEvent
<1>3. ASSUME NEW p \in Procs, InFlight(p), ~InFlight(p)', Applied(req[p].event),
             \A q \in Procs \ {p} : req'[q] = req[q]
      PROVE  EventsClaimed' /\ AppliedOnce'
  <2>1. applied[req[p].event] = 0 /\ req[p].event \in Event
    BY <1>3, <1>t DEF EventsClaimed
  <2>2. /\ applied'[req[p].event] = 1
        /\ \A e \in Event \ {req[p].event} : applied'[e] = applied[e]
    BY <1>3, <2>1, <1>t DEF Applied
  <2>3. AppliedOnce'
    BY <2>2 DEF AppliedOnce
  <2>4. EventsClaimed'
    BY <1>3, <1>t, <2>2 DEF EventsClaimed
  <2> QED BY <2>3, <2>4
<1>4. ASSUME NEW e \in Event, NewEvent(e), Applied(e), req' = req
      PROVE  EventsClaimed' /\ AppliedOnce'
  <2>1. applied'[e] = 1 /\ \A f \in Event \ {e} : applied'[f] = applied[f]
    BY <1>4, <1>t DEF Applied, NewEvent
  <2>2. \A p \in Procs : InFlight(p) => req[p].event # e
    BY <1>4 DEF NewEvent
  <2> QED BY <1>4, <1>t, <2>1, <2>2 DEF EventsClaimed, AppliedOnce
<1> QED BY <1>1, <1>2, <1>3, <1>4 DEF EventMoves

-----------------------------------------------------------------------------
\* What a step does to the books: the history, the schedule and what transactions read.
BooksKept ==
    /\ LockedRead' /\ ScheduledIsCurrent'
    /\ trail'.to = sub'.status /\ (trail' # trail => trail'.from = trail.to)

LEMMA BooksStep ==
    TypeOK /\ LockedRead /\ ScheduledIsCurrent /\ trail.to = sub.status /\ [Next]_vars => BooksKept
<1> SUFFICES ASSUME TypeOK, LockedRead, ScheduledIsCurrent, trail.to = sub.status, [Next]_vars
             PROVE  BooksKept
  OBVIOUS
<1> USE DEF At, Goto, Done, World, Locked
<1>t. /\ req \in [Procs -> Request] /\ sub \in Subscription
      /\ \A p \in Procs : req[p].event.type \in EventType
  BY DEF TypeOK, Request, Event
<1>i. Idle.pc = "idle"
  BY IdleType
<1>c. sub.cancel => sub.status # "CANCELED"
  BY DEF ScheduledIsCurrent
\* Steps that touch neither the subscription nor a transaction.
<1>0. ASSUME UNCHANGED <<sub, trail>>,
             \A q \in Procs : req'[q].pc = "commit" => req'[q] = req[q]
      PROVE  BooksKept
  BY <1>0, <1>c DEF BooksKept, LockedRead, ScheduledIsCurrent
<1>1. ASSUME NEW p \in Procs, UNCHANGED <<sub, trail>>, req'[p].pc # "commit",
             \A q \in Procs \ {p} : req'[q] = req[q]
      PROVE  BooksKept
  BY <1>1, <1>0
<1>2. ASSUME NEW p \in Procs, CheckoutInsert(p) PROVE BooksKept
  <2>1. req'[p].pc = "session" /\ \A q \in Procs \ {p} : req'[q] = req[q]
    BY <1>2, <1>t DEF CheckoutInsert, Idle
  <2> QED BY <1>1, <1>2, <2>1 DEF CheckoutInsert
<1>3. ASSUME NEW p \in Procs, CheckoutSession(p) PROVE BooksKept
  <2>1. req'[p].pc \in {"store", "abandon"} /\ \A q \in Procs \ {p} : req'[q] = req[q]
    BY <1>3, <1>t DEF CheckoutSession, Request
  <2> QED BY <1>1, <1>3, <2>1 DEF CheckoutSession
<1>4. ASSUME NEW p \in Procs, CheckoutStore(p) \/ CheckoutAbandon(p) \/ Abort(p)
      PROVE  BooksKept
  <2>1. req' = [req EXCEPT ![p] = Idle] /\ UNCHANGED <<sub, trail>>
    BY <1>4 DEF CheckoutStore, CheckoutAbandon, Abort
  <2> QED BY <1>1, <2>1, <1>t, <1>i
<1>5. ASSUME NEW p \in Procs, NEW cancel \in BOOLEAN, Cancellation(p, cancel) PROVE BooksKept
  <2>1. req'[p].pc \in {"schedule", "deactivate"} /\ \A q \in Procs \ {p} : req'[q] = req[q]
    BY <1>5, <1>t DEF Cancellation, Idle
  <2> QED BY <1>1, <1>5, <2>1 DEF Cancellation
<1>6. ASSUME NEW p \in Procs, CancelDeactivate(p) PROVE BooksKept
  <2>1. req'[p].pc \in {"schedule", "idle"} /\ \A q \in Procs \ {p} : req'[q] = req[q]
    BY <1>6, <1>t, <1>i DEF CancelDeactivate, Request
  <2> QED BY <1>1, <1>6, <2>1 DEF CancelDeactivate
<1>7. ASSUME NEW p \in Procs, CancelSchedule(p) PROVE BooksKept
  <2>1. \A q \in Procs : req'[q].pc # "commit"
    BY <1>7, <1>t, <1>i DEF CancelSchedule
  <2>2. /\ trail' = trail /\ sub'.status = sub.status
        /\ sub.status = "CANCELED" => sub' = sub
    BY <1>7, <1>t DEF CancelSchedule, Subscription
  <2> QED BY <2>1, <2>2, <1>c DEF BooksKept, LockedRead, ScheduledIsCurrent
<1>8. ASSUME NEW p \in Procs, NEW e \in Event, Register(p, e) PROVE BooksKept
  <2>1. req'[p].pc = "lock" /\ \A q \in Procs \ {p} : req'[q] = req[q]
    BY <1>8, <1>t DEF Register, Idle
  <2> QED BY <1>1, <1>8, <2>1 DEF Register
<1>9. ASSUME NEW p \in Procs, Lock(p) PROVE BooksKept
  <2>1. /\ req'[p].from = sub.status /\ req'[p].to = Outcome(req[p].event.type)
        /\ \A q \in Procs \ {p} : req'[q] = req[q] /\ req[q].pc # "commit"
        /\ UNCHANGED <<sub, trail>>
    BY <1>9, <1>t DEF Lock, Request
  <2>2. Outcome(req[p].event.type) = "CANCELED" => ~(sub.cancel /\ sub.current)
    BY DEF Outcome
  <2> QED BY <2>1, <2>2, <1>c DEF BooksKept, LockedRead, ScheduledIsCurrent
<1>10. ASSUME NEW p \in Procs, Commit(p) PROVE BooksKept
  <2>1. /\ req[p].from = sub.status
        /\ req[p].to = "CANCELED" => ~(sub.cancel /\ sub.current)
        /\ \A q \in Procs : req[q].pc = "commit" => q = p
    BY <1>10 DEF Commit, LockedRead
  <2>2. \A q \in Procs : req'[q].pc # "commit"
    BY <1>10, <1>t, <1>i, <2>1 DEF Commit
  <2>3. /\ trail'.from = req[p].from /\ trail'.to = req[p].to /\ sub'.status = req[p].to
        /\ sub'.cancel => req[p].to # "CANCELED"
    BY <1>10 DEF Commit
  <2> QED BY <2>1, <2>2, <2>3 DEF BooksKept, LockedRead, ScheduledIsCurrent
<1>11. ASSUME NEW e \in Event, ApplySession(e) \/ ApplyCycle(e) PROVE BooksKept
  BY <1>11, <1>0 DEF ApplySession, ApplyCycle
<1>12. CASE PeriodEnds
  <2>1. /\ sub'.status = sub.status /\ sub'.cancel = sub.cancel /\ sub'.current = FALSE
        /\ UNCHANGED <<trail, req>>
    BY <1>12, <1>t DEF PeriodEnds, Subscription
  <2> QED BY <2>1, <1>c DEF BooksKept, LockedRead, ScheduledIsCurrent
<1>13. CASE UNCHANGED vars \/ (Environment /\ ~PeriodEnds)
  BY <1>13, <1>0 DEF vars, Environment, Pay, SessionExpires, PlanEnds, Cycle, Quiet
<1> QED
  BY <1>2, <1>3, <1>4, <1>5, <1>6, <1>7, <1>8, <1>9, <1>10, <1>11, <1>12, <1>13
  DEF Next, Handler, Environment

-----------------------------------------------------------------------------
\* What a transaction knows of its event, and what it read, stay true until it ends.
LEMMA LockedEventStep ==
    TypeOK /\ LockedRead /\ LockedEvent /\ [Next]_vars => LockedEvent'
<1> SUFFICES ASSUME TypeOK, LockedRead, LockedEvent, [Next]_vars PROVE LockedEvent'
  OBVIOUS
<1> USE DEF At, Goto, Done, World
<1>t. req \in [Procs -> Request] /\ sub \in Subscription
  BY DEF TypeOK
<1>i. Idle.pc = "idle"
  BY IdleType
\* Transactions go on undisturbed, or have ended.
<1>0. ASSUME sent \subseteq sent',
             Locked => sub'.plan = sub.plan /\ sub'.cancel = sub.cancel,
             \A q \in Procs : req'[q].pc \in {"lock", "commit"} => req'[q] = req[q]
      PROVE  LockedEvent'
  BY <1>0 DEF LockedEvent, Locked
<1>1. ASSUME NEW p \in Procs, sent \subseteq sent', UNCHANGED sub,
             req'[p].pc \notin {"lock", "commit"}, \A q \in Procs \ {p} : req'[q] = req[q]
      PROVE  LockedEvent'
  BY <1>1, <1>0
<1>2. ASSUME NEW p \in Procs, CheckoutInsert(p) PROVE LockedEvent'
  <2>1. req'[p].pc = "session" /\ \A q \in Procs \ {p} : req'[q] = req[q]
    BY <1>2, <1>t DEF CheckoutInsert, Idle
  <2> QED BY <1>1, <1>2, <2>1 DEF CheckoutInsert
<1>3. ASSUME NEW p \in Procs, CheckoutSession(p) PROVE LockedEvent'
  <2>1. req'[p].pc \in {"store", "abandon"} /\ \A q \in Procs \ {p} : req'[q] = req[q]
    BY <1>3, <1>t DEF CheckoutSession, Request
  <2> QED BY <1>1, <1>3, <2>1 DEF CheckoutSession
<1>4. ASSUME NEW p \in Procs, CheckoutStore(p) \/ CheckoutAbandon(p) \/ Abort(p)
      PROVE  LockedEvent'
  <2>1. req' = [req EXCEPT ![p] = Idle] /\ UNCHANGED <<sub, sent>>
    BY <1>4 DEF CheckoutStore, CheckoutAbandon, Abort
  <2> QED BY <1>1, <2>1, <1>t, <1>i
<1>5. ASSUME NEW p \in Procs, NEW cancel \in BOOLEAN, Cancellation(p, cancel) PROVE LockedEvent'
  <2>1. req'[p].pc \in {"schedule", "deactivate"} /\ \A q \in Procs \ {p} : req'[q] = req[q]
    BY <1>5, <1>t DEF Cancellation, Idle
  <2> QED BY <1>1, <1>5, <2>1 DEF Cancellation
<1>6. ASSUME NEW p \in Procs, CancelDeactivate(p) PROVE LockedEvent'
  <2>1. req'[p].pc \in {"schedule", "idle"} /\ \A q \in Procs \ {p} : req'[q] = req[q]
    BY <1>6, <1>t, <1>i DEF CancelDeactivate, Request
  <2> QED BY <1>1, <1>6, <2>1 DEF CancelDeactivate, Inactivate
<1>7. ASSUME NEW p \in Procs, CancelSchedule(p) PROVE LockedEvent'
  <2>1. req' = [req EXCEPT ![p] = Idle] /\ ~Locked /\ sent' = sent
    BY <1>7 DEF CancelSchedule
  <2>2. req'[p].pc = "idle" /\ \A q \in Procs \ {p} : req'[q] = req[q]
    BY <2>1, <1>t, <1>i
  <2> QED BY <1>0, <2>1, <2>2
<1>8. ASSUME NEW p \in Procs, NEW e \in Event, Register(p, e) PROVE LockedEvent'
  <2>1. /\ req'[p].pc = "lock" /\ req'[p].event = e
        /\ \A q \in Procs \ {p} : req'[q] = req[q]
    BY <1>8, <1>t DEF Register, Idle
  <2>2. /\ e \in sent' /\ e.type \notin SessionEvents \cup {"cycle.created"}
        /\ UNCHANGED <<sent, sub>>
    BY <1>8 DEF Register, NewEvent
  <2> QED BY <2>1, <2>2 DEF LockedEvent
<1>9. ASSUME NEW p \in Procs, Lock(p) PROVE LockedEvent'
  <2> DEFINE e == req[p].event
  <2>1. /\ req'[p].event = e /\ req'[p].to = Outcome(e.type)
        /\ \A q \in Procs \ {p} : req'[q] = req[q]
        /\ UNCHANGED <<sub, sent>>
    BY <1>9, <1>t DEF Lock, Request
  <2>2. e \in sent /\ e.type \notin SessionEvents \cup {"cycle.created"}
    BY <1>9 DEF Lock, LockedEvent
  <2>3. e.type # "plan.activated" => sub.plan = e.plan
    BY <1>9 DEF Lock
  <2>4. CASE e.type = "plan.inactivated"
    BY <2>1, <2>2, <2>3, <2>4 DEF LockedEvent, Outcome
  <2>5. CASE e.type # "plan.inactivated"
    BY <2>1, <2>2, <2>3, <2>5 DEF LockedEvent, Outcome
  <2> QED BY <2>4, <2>5
<1>10. ASSUME NEW p \in Procs, Commit(p) PROVE LockedEvent'
  <2>1. \A q \in Procs : req'[q].pc # "commit"
    BY <1>10, <1>t, <1>i DEF Commit, LockedRead
  <2>2. \A q \in Procs : req'[q].pc = "lock" => req'[q] = req[q]
    BY <1>10, <1>t, <1>i DEF Commit
  <2>3. sent' = sent
    BY <1>10 DEF Commit
  <2> QED BY <2>1, <2>2, <2>3 DEF LockedEvent
<1>11. ASSUME NEW e \in Event, ApplySession(e) \/ ApplyCycle(e) PROVE LockedEvent'
  BY <1>11, <1>0 DEF ApplySession, ApplyCycle
<1>12. CASE PeriodEnds
  <2>1. sub'.plan = sub.plan /\ sub'.cancel = sub.cancel /\ UNCHANGED <<req, sent>>
    BY <1>12, <1>t DEF PeriodEnds, Subscription
  <2> QED BY <2>1, <1>0
<1>13. CASE UNCHANGED vars \/ (Environment /\ ~PeriodEnds)
  BY <1>13, <1>0 DEF vars, Environment, Pay, SessionExpires, PlanEnds, Inactivate, Cycle, Quiet
<1> QED
  BY <1>2, <1>3, <1>4, <1>5, <1>6, <1>7, <1>8, <1>9, <1>10, <1>11, <1>12, <1>13
  DEF Next, Handler, Environment

-----------------------------------------------------------------------------
LEMMA InvInit == Init => IInv
<1> SUFFICES ASSUME Init PROVE IInv
  OBVIOUS
<1>1. \A p \in Procs : req[p].pc = "idle"
  BY IdleType DEF Init
<1>2. CheckoutsOwned /\ EventsClaimed /\ LockedRead /\ LockedEvent
  BY <1>1 DEF CheckoutsOwned, EventsClaimed, LockedRead, LockedEvent, At, Opening
<1>3. SessionsAgree /\ AppliedOnce /\ ScheduledIsCurrent /\ trail.to = sub.status
  BY DEF Init, SessionsAgree, AppliedOnce, ScheduledIsCurrent
<1> QED BY <1>2, <1>3, TypeInit DEF IInv

LEMMA InvStep == IInv /\ [Next]_vars => IInv'
BY TypeStep, CheckoutsStep, EventsStep, BooksStep, LockedEventStep DEF IInv, BooksKept

\* Every reachable state has the types, the ownership of checkouts and events, and the
\* agreement with Xendit on which the results below rest.
THEOREM BillingInvariant == Spec => []IInv
<1>1. IInv /\ [Next]_vars => IInv'
  BY InvStep
<1> QED BY InvInit, <1>1, PTL DEF Spec

\* Every reachable state has the types of its variables.
THEOREM BillingTypeCorrect == Spec => []TypeOK
<1>1. IInv => TypeOK
  BY DEF IInv
<1> QED BY BillingInvariant, <1>1, PTL

\* However many handlers deliver it, an event changes the books once.
THEOREM EventsApplyOnce == Spec => []AppliedOnce
<1>1. IInv => AppliedOnce
  BY DEF IInv
<1> QED BY BillingInvariant, <1>1, PTL

\* No cancellation is scheduled for a subscription that is CANCELED.
THEOREM SchedulesAreCurrent == Spec => []ScheduledIsCurrent
<1>1. IInv => ScheduledIsCurrent
  BY DEF IInv
<1> QED BY BillingInvariant, <1>1, PTL

\* The rows of billing_subscription_events make a chain that ends at the subscription.
THEOREM HistoryChains == Spec => HistoryIsAChain
<1>1. IInv /\ [Next]_vars => [(trail' # trail => trail'.from = trail.to)
                              /\ sub'.status = trail'.to]_vars
  BY BooksStep DEF IInv, BooksKept
<1> QED BY BillingInvariant, <1>1, PTL DEF Spec, HistoryIsAChain

\* In the paid period of a scheduled cancellation only a failed payment ends access.
THEOREM OnlyFailuresEndAccess == Spec => ScheduledLostToFailedOnly
<1> DEFINE Kept ==
      sub.cancel /\ sub.current =>
         \/ sub'.status \in {sub.status, "ACTIVE"}
         \/ /\ sub'.status = "PAST_DUE"
            /\ applied'[Ev("cycle.failed", sub.plan)] > applied[Ev("cycle.failed", sub.plan)]
<1>1. IInv /\ [Next]_vars => [Kept]_vars
  <2> SUFFICES ASSUME IInv, Next PROVE Kept
    OBVIOUS
  <2>t. sub \in Subscription
    BY DEF IInv, TypeOK
  <2>0. CASE sub'.status = sub.status
    BY <2>0
  <2>1. ASSUME NEW p \in Procs, CancelSchedule(p) PROVE Kept
    BY <2>0, <2>1, <2>t DEF CancelSchedule, Subscription
  <2>2. CASE PeriodEnds
    BY <2>0, <2>2, <2>t DEF PeriodEnds, Subscription
  <2>3. ASSUME NEW p \in Procs, Commit(p) PROVE Kept
    <3> DEFINE e == req[p].event
    <3>1. /\ e \in Event /\ applied[e] = 0 /\ sub'.status = req[p].to
          /\ req[p].to = "CANCELED" => ~(sub.cancel /\ sub.current)
      BY <2>3 DEF Commit, At, IInv, TypeOK, Request, EventsClaimed, LockedRead
    <3>2. applied'[e] = 1
      BY <2>3, <3>1 DEF Commit, Applied, IInv, TypeOK
    <3>3. CASE e.type = "cycle.failed"
      <4>1. sub.plan = e.plan /\ req[p].to = "PAST_DUE"
        BY <2>3, <3>3 DEF Commit, At, IInv, LockedEvent
      <4>2. e = Ev("cycle.failed", sub.plan)
        BY <3>1, <3>3, <4>1 DEF Event, Ev
      <4> QED BY <3>1, <3>2, <4>1, <4>2
    <3>4. CASE e.type # "cycle.failed"
      <4>1. req[p].to \in {"ACTIVE", "CANCELED"}
        BY <2>3, <3>4 DEF Commit, At, IInv, LockedEvent
      <4> QED BY <3>1, <4>1
    <3> QED BY <3>3, <3>4
  <2> QED
    BY <2>0, <2>1, <2>2, <2>3
    DEF Next, Handler, Environment, CheckoutInsert, CheckoutSession, CheckoutStore,
        CheckoutAbandon, Cancellation, CancelDeactivate, Register, Lock, Abort,
        ApplySession, ApplyCycle, Pay, SessionExpires, PlanEnds, Cycle, Quiet
<1> QED BY BillingInvariant, <1>1, PTL DEF Spec, ScheduledLostToFailedOnly

\* A checkout that was paid or expired stays so.
THEOREM SettledCheckouts == Spec => SettledCheckoutStays
<1> DEFINE Settled ==
      \A s \in Plans :
         checkout[s].status \in {"COMPLETED", "EXPIRED"} => checkout'[s] = checkout[s]
<1>1. IInv /\ [Next]_vars => [Settled]_vars
  <2> SUFFICES ASSUME IInv, Next PROVE Settled
    OBVIOUS
  <2> USE DEF At, IInv, TypeOK
  <2>0. CASE checkout' = checkout
    BY <2>0
  <2>1. ASSUME NEW p \in Procs, CheckoutInsert(p) PROVE Settled
    BY <2>1 DEF CheckoutInsert
  <2>2. ASSUME NEW p \in Procs, CheckoutStore(p) \/ CheckoutAbandon(p) PROVE Settled
    <3>1. req[p].plan \in Plans /\ checkout[req[p].plan].status = "PENDING"
      BY <2>2 DEF CheckoutStore, CheckoutAbandon, CheckoutsOwned, Opening
    <3> QED BY <2>2, <3>1 DEF CheckoutStore, CheckoutAbandon
  <2>3. ASSUME NEW e \in Event, ApplySession(e) PROVE Settled
    <3>1. /\ e.plan \in Plans /\ e.type \in SessionEvents /\ Ev(e.type, e.plan) \in sent
      BY <2>3 DEF ApplySession, NewEvent, Event, Ev
    <3>2. checkout[e.plan] \in Checkout
      BY <3>1
    <3>3. checkout[e.plan].status \in {"COMPLETED", "EXPIRED"} =>
            checkout[e.plan].status =
                IF e.type = "session.completed" THEN "COMPLETED" ELSE "EXPIRED"
      BY <3>1 DEF SessionsAgree, SessionEvents
    <3>4. \A status : \A c \in Checkout : c.status = status => [c EXCEPT !.status = status] = c
      BY DEF Checkout
    <3>5. checkout' = [checkout EXCEPT ![e.plan].status =
                          IF e.type = "session.completed" THEN "COMPLETED" ELSE "EXPIRED"]
      BY <2>3 DEF ApplySession
    <3> QED BY <3>1, <3>2, <3>3, <3>4, <3>5
  <2> QED
    BY <2>0, <2>1, <2>2, <2>3
    DEF Next, Handler, Environment, CheckoutSession, Cancellation, CancelDeactivate,
        CancelSchedule, Register, Lock, Commit, Abort, ApplyCycle, Pay, SessionExpires,
        PlanEnds, Cycle, PeriodEnds, Quiet
<1> QED BY BillingInvariant, <1>1, PTL DEF Spec, SettledCheckoutStays

\* An invoice that was paid stays paid.
THEOREM PaidInvoices == Spec => PaidStaysPaid
<1> DEFINE Kept == \A s \in Plans : invoice[s].paid => invoice'[s].paid
<1>1. IInv /\ [Next]_vars => [Kept]_vars
  <2> SUFFICES ASSUME IInv, Next PROVE Kept
    OBVIOUS
  <2>0. CASE invoice' = invoice
    BY <2>0
  <2>1. ASSUME NEW t, NEW status, UpsertCycle(t, status) PROVE Kept
    BY <2>1 DEF UpsertCycle, IInv, TypeOK, Invoice
  <2>2. ASSUME NEW p \in Procs, Commit(p) PROVE Kept
    BY <2>0, <2>1, <2>2 DEF Commit
  <2>3. ASSUME NEW e \in Event, ApplyCycle(e) PROVE Kept
    BY <2>1, <2>3 DEF ApplyCycle
  <2> QED
    BY <2>0, <2>2, <2>3
    DEF Next, Handler, Environment, CheckoutInsert, CheckoutSession, CheckoutStore,
        CheckoutAbandon, Cancellation, CancelDeactivate, CancelSchedule, Register, Lock,
        Abort, ApplySession, Pay, SessionExpires, PlanEnds, Cycle, PeriodEnds, Quiet
<1> QED BY BillingInvariant, <1>1, PTL DEF Spec, PaidStaysPaid

-----------------------------------------------------------------------------
(* The refinement: the books are a ledger of one event at a time. *)

\* A step that leaves the books alone is none of the ledger's.
LEMMA LedgerUnchanged ==
    ASSUME UNCHANGED <<sent, applied, sub, trail, invoice>>
    PROVE  UNCHANGED Ledger!ledger
BY DEF Ledger!ledger, Booked

\* What is committed once was booked never before.
LEMMA BookedStep ==
    ASSUME TypeOK, NEW e \in Event, applied[e] = 0, Applied(e)
    PROVE  e \notin Booked /\ Booked' = Booked \cup {e}
<1>1. applied'[e] = 1 /\ \A f \in Event \ {e} : applied'[f] = applied[f]
  BY DEF Applied, TypeOK
<1> QED BY <1>1 DEF Booked

\* A commit enters its event as if it had looked at the books just then.
LEMMA CommitBooks ==
    ASSUME IInv, NEW p \in Procs, Commit(p)
    PROVE  Ledger!Book(req[p].event)
<1> DEFINE e == req[p].event
           to == req[p].to
<1> USE DEF IInv
<1>1. /\ e \in Event /\ e \in sent /\ applied[e] = 0 /\ Applied(e)
      /\ e.type \notin SessionEvents \cup {"cycle.created"}
      /\ e.type # "plan.activated" => sub.plan = e.plan
  BY DEF Commit, At, TypeOK, Request, EventsClaimed, LockedEvent
<1>2. e \notin Booked /\ Booked' = Booked \cup {e}
  BY <1>1, BookedStep
<1>3. to \in Ledger!StatusAfter(e.type)
  <2>1. to = "CANCELED" => ~(sub.cancel /\ sub.current)
    BY DEF Commit, At, LockedRead
  <2>2. CASE e.type = "plan.inactivated"
    BY <2>1, <2>2 DEF Commit, At, LockedEvent, Ledger!StatusAfter
  <2>3. CASE e.type # "plan.inactivated"
    BY <2>3 DEF Commit, At, LockedEvent, Ledger!StatusAfter
  <2> QED BY <2>2, <2>3
<1>4. /\ trail' = [from |-> sub.status, to |-> to]
      /\ sub' = [status  |-> to, plan |-> e.plan,
                 cancel  |-> sub.cancel /\ e.type # "plan.activated" /\ to # "CANCELED",
                 current |-> sub.current \/ e.type \in {"plan.activated", "cycle.succeeded"}]
  <2>1. req[p].from = sub.status
    BY DEF Commit, At, LockedRead
  <2> QED BY <1>1, <2>1 DEF Commit
<1>5. (CASE e.type = "cycle.succeeded" -> Ledger!Bill(e.plan, "PAID")
         [] e.type = "cycle.failed"    -> Ledger!Bill(e.plan, "FAILED")
         [] OTHER                      -> UNCHANGED invoice)
  BY DEF Commit, UpsertCycle, Ledger!Bill
<1>6. Ledger!Enter(e)
  BY <1>1, <1>3, <1>4, <1>5 DEF Ledger!Enter
<1>7. UNCHANGED sent
  BY DEF Commit, World
<1> QED BY <1>1, <1>2, <1>6, <1>7 DEF Ledger!Book

\* An event of one statement is entered by it.
LEMMA StatementBooks ==
    ASSUME IInv, NEW e \in Event, ApplySession(e) \/ ApplyCycle(e)
    PROVE  Ledger!Book(e)
<1> USE DEF IInv
<1>1. e \notin Booked /\ Booked' = Booked \cup {e}
  BY BookedStep DEF ApplySession, ApplyCycle, NewEvent
<1>2. e \in sent /\ UNCHANGED <<sent, sub, trail>>
  BY DEF ApplySession, ApplyCycle, NewEvent, World
<1>3. CASE ApplySession(e)
  <2>1. e.type \in SessionEvents /\ e.type # "cycle.created" /\ UNCHANGED invoice
    BY <1>3 DEF ApplySession, SessionEvents
  <2> QED BY <1>1, <1>2, <2>1 DEF Ledger!Book
<1>4. CASE ApplyCycle(e)
  <2>1. e.type = "cycle.created" /\ e.type \notin SessionEvents
    BY <1>4 DEF ApplyCycle, SessionEvents
  <2>2. sub.plan = e.plan /\ Ledger!Bill(e.plan, "PENDING")
    BY <1>4 DEF ApplyCycle, UpsertCycle, Ledger!Bill
  <2>3. (CASE e.type \in SessionEvents -> UNCHANGED <<sub, trail, invoice>>
          [] e.type = "cycle.created"  -> /\ sub.plan = e.plan /\ Ledger!Bill(e.plan, "PENDING")
                                          /\ UNCHANGED <<sub, trail>>
          [] OTHER                     -> Ledger!Enter(e))
    BY <1>2, <2>1, <2>2
  <2> QED BY <1>1, <1>2, <2>3 DEF Ledger!Book
<1> QED BY <1>3, <1>4

\* Every step is one of the ledger, or leaves it alone.
LEMMA LedgerNext ==
    ASSUME IInv, Next
    PROVE  Ledger!Next \/ UNCHANGED Ledger!ledger
<1> USE DEF IInv
<1>1. ASSUME NEW p \in Procs,
             \/ CheckoutInsert(p) \/ CheckoutSession(p) \/ CheckoutStore(p) \/ CheckoutAbandon(p)
             \/ \E cancel \in BOOLEAN : Cancellation(p, cancel)
             \/ \E e \in Event : Register(p, e)
             \/ Lock(p) \/ Abort(p)
      PROVE  UNCHANGED Ledger!ledger
  BY <1>1, LedgerUnchanged
  DEF CheckoutInsert, CheckoutSession, CheckoutStore, CheckoutAbandon, Cancellation,
      Register, Lock, Abort, World
<1>2. ASSUME UNCHANGED <<applied, sub, trail, invoice>>, sent \subseteq sent'
      PROVE  Ledger!Next
  <2>1. sent' \subseteq Event
    BY TypeStep DEF TypeOK
  <2>2. Booked' = Booked
    BY <1>2 DEF Booked
  <2> QED BY <1>2, <2>1, <2>2 DEF Ledger!Next, Ledger!Report
<1>3. ASSUME NEW p \in Procs, CancelDeactivate(p) PROVE Ledger!Next
  BY <1>2, <1>3 DEF CancelDeactivate, Inactivate, World
<1>4. ASSUME NEW p \in Procs, CancelSchedule(p)
      PROVE  Ledger!Next \/ UNCHANGED Ledger!ledger
  <2>1. UNCHANGED <<sent, applied, trail, invoice>> /\ Booked' = Booked
    BY <1>4 DEF CancelSchedule, World, Booked
  <2>2. CASE sub.status = "CANCELED"
    BY <1>4, <2>1, <2>2, LedgerUnchanged DEF CancelSchedule
  <2>3. CASE sub.status # "CANCELED"
    <3>1. req[p].cancel \in BOOLEAN
      BY DEF TypeOK, Request
    <3>2. Ledger!Cancel(req[p].cancel)
      BY <1>4, <2>1, <2>3 DEF CancelSchedule, Ledger!Cancel
    <3> QED BY <3>1, <3>2 DEF Ledger!Next
  <2> QED BY <2>2, <2>3
<1>5. ASSUME NEW p \in Procs, Commit(p) PROVE Ledger!Next
  <2>1. req[p].event \in Event
    BY DEF TypeOK, Request
  <2> QED BY <1>5, <2>1, CommitBooks DEF Ledger!Next
<1>6. ASSUME NEW e \in Event, ApplySession(e) \/ ApplyCycle(e) PROVE Ledger!Next
  BY <1>6, StatementBooks DEF Ledger!Next
<1>7. CASE PeriodEnds
  <2>1. Booked' = Booked
    BY <1>7 DEF PeriodEnds, Booked
  <2> QED BY <1>7, <2>1 DEF PeriodEnds, World, Ledger!Next, Ledger!PeriodEnds
<1>8. CASE Environment /\ ~PeriodEnds
  BY <1>2, <1>8 DEF Environment, Pay, SessionExpires, PlanEnds, Inactivate, Cycle, Quiet
<1> QED BY <1>1, <1>3, <1>4, <1>5, <1>6, <1>7, <1>8 DEF Next, Handler

\* The books of a new workspace are empty.
LEMMA LedgerInit == Init => Ledger!Init
<1> SUFFICES ASSUME Init PROVE Ledger!Init
  OBVIOUS
<1>1. Booked = {}
  BY DEF Init, Booked
<1>2. sub \in [status: {"TRIALING", "ACTIVE"}, plan: {NoPlan}, cancel: {FALSE}, current: BOOLEAN]
  <2>1. NoPlan \in {NoPlan} /\ FALSE \in {FALSE} /\ TRUE \in BOOLEAN /\ FALSE \in BOOLEAN
    OBVIOUS
  <2>2. CASE sub = [status |-> "TRIALING", plan |-> NoPlan, cancel |-> FALSE, current |-> FALSE]
    BY <2>1, <2>2
  <2>3. CASE sub = [status |-> "ACTIVE", plan |-> NoPlan, cancel |-> FALSE, current |-> TRUE]
    BY <2>1, <2>3
  <2> QED BY <2>2, <2>3 DEF Init
<1> QED BY <1>1, <1>2 DEF Init, Ledger!Init

\* Whatever overlaps, fails and is repeated, the books are those of a ledger into which
\* each event is entered once, as a whole, by what the books say at that time.
THEOREM BooksAreALedger == Spec => KeepsLedger
<1>1. IInv /\ [Next]_vars => [Ledger!Next]_Ledger!ledger
  <2>1. ASSUME UNCHANGED vars PROVE UNCHANGED Ledger!ledger
    BY <2>1, LedgerUnchanged DEF vars
  <2> QED BY <2>1, LedgerNext
<1> QED BY <1>1, LedgerInit, BillingInvariant, PTL DEF Spec, KeepsLedger, Ledger!Spec
=============================================================================
