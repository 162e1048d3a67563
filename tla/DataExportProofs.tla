-------------------------- MODULE DataExportProofs --------------------------
(* Theorems about DataExport for any administrators, workers and requests. *)
EXTENDS DataExport, TLAPS

USE AdminsAssumption, WorkersAssumption, BoundsAssumption

LEMMA NoRowType == NoRow \in Row /\ NoRow.status = "NONE"
BY DEF NoRow, Row

LEMMA IdleType == Idle \in Worker /\ Idle.pc = "idle" /\ Idle.todo = {}
BY DEF Idle, Worker, Steps, Exports

\* Every step keeps the variables in their types.
LEMMA TypeStep == TypeOK /\ [Next]_vars => TypeOK'
<1> SUFFICES ASSUME TypeOK, [Next]_vars PROVE TypeOK'
  OBVIOUS
<1> USE DEF TypeOK, At, Goto, Is
<1> USE IdleType
<1>t. \A w \in Workers : wk[w] \in Worker /\ wk[w].export \in Exports
  BY DEF Worker
<1>s. /\ \A row \in Row, s \in {"NONE", "REJECTED"} \cup Waiting \cup Finished :
            [row EXCEPT !.status = s] \in Row
      /\ \A row \in Row : [row EXCEPT !.overdue = TRUE] \in Row
  BY DEF Row
<1>0. CASE UNCHANGED vars
  BY <1>0 DEF vars
<1>1. ASSUME NEW a \in Admins, Request(a) PROVE TypeOK'
  <2>1. [NoRow EXCEPT !.status = "PENDING", !.by = a] \in Row
    BY NoRowType DEF Row, Waiting
  <2>2. PICK e \in Exports :
          exports' = [exports EXCEPT ![e] = [NoRow EXCEPT !.status = "PENDING", !.by = a]]
    BY <1>1 DEF Request
  <2>3. exports' \in [Exports -> Row]
    BY <2>1, <2>2
  <2> QED BY <1>1, <2>3 DEF Request
<1>2. ASSUME NEW a \in Admins, NEW e \in Exports, NEW verdict \in {"APPROVED", "REJECTED"},
             Review(a, e, verdict)
      PROVE  TypeOK'
  <2>1. PICK turn \in 1..MaxExports :
          exports' = [exports EXCEPT ![e].status = verdict, ![e].reviewer = a, ![e].turn = turn]
    BY <1>2 DEF Review
  <2>2. turn \in 0..MaxExports /\ verdict \in {"NONE", "REJECTED"} \cup Waiting \cup Finished
    BY DEF Waiting
  <2>3. \A row \in Row :
          [row EXCEPT !.status = verdict, !.reviewer = a, !.turn = turn] \in Row
    BY <2>2 DEF Row
  <2>4. exports' \in [Exports -> Row]
    BY <2>1, <2>3
  <2> QED BY <1>2, <2>4 DEF Review
<1>3. ASSUME NEW e \in Exports, Download(e) \/ Expires(e) PROVE TypeOK'
  BY <1>3, <1>s DEF Download, Expires
<1>4. ASSUME NEW w \in Workers, WorkerStart(w) PROVE TypeOK'
  <2>1. [Idle EXCEPT !.pc = "clean", !.todo = Overdue, !.left = PerRun] \in Worker
    <3>1. Overdue \in SUBSET Exports /\ PerRun \in 0..PerRun
      BY DEF Overdue
    <3> QED BY <3>1 DEF Worker, Steps
  <2> QED BY <1>4, <2>1 DEF WorkerStart
<1>5. ASSUME NEW w \in Workers, CleanRemove(w) PROVE TypeOK'
  <2>1. PICK e \in wk[w].todo :
          wk' = [wk EXCEPT ![w].pc = "erase", ![w].export = e, ![w].todo = @ \ {e}]
    BY <1>5 DEF CleanRemove
  <2>2. wk' \in [Workers -> Worker]
    BY <2>1, <1>t DEF Worker, Steps
  <2> QED BY <1>5, <2>2 DEF CleanRemove
<1>6. ASSUME NEW w \in Workers, CleanErase(w) PROVE TypeOK'
  <2>1. exports' \in [Exports -> Row]
    BY <1>6, <1>t, <1>s DEF CleanErase, Finished
  <2>2. wk' \in [Workers -> Worker]
    BY <1>6, <1>t DEF CleanErase, Worker, Steps
  <2> QED BY <1>6, <2>1, <2>2 DEF CleanErase
<1>7. ASSUME NEW w \in Workers, CleanSkip(w) \/ CleanDone(w) PROVE TypeOK'
  BY <1>7, <1>t DEF CleanSkip, CleanDone, Worker, Steps
<1>8. ASSUME NEW w \in Workers, Claim(w) PROVE TypeOK'
  <2>1. PICK e \in Exports :
          /\ exports' = [exports EXCEPT ![e].status = "PROCESSING"]
          /\ wk' = [wk EXCEPT ![w].pc = "put", ![w].export = e, ![w].left = @ - 1]
    BY <1>8 DEF Claim
  <2>2. exports' \in [Exports -> Row]
    BY <2>1, <1>s DEF Waiting
  <2>3. wk' \in [Workers -> Worker]
    <3>1. wk[w].left > 0
      BY <1>8 DEF Claim
    <3>2. wk[w].left - 1 \in 0..PerRun
      BY <3>1, <1>t DEF Worker
    <3> QED BY <2>1, <3>2, <1>t DEF Worker, Steps
  <2> QED BY <1>8, <2>2, <2>3 DEF Claim
<1>9. ASSUME NEW w \in Workers, Generate(w) PROVE TypeOK'
  <2>1. exports' \in [Exports -> Row]
    <3>1. exports' = exports \/ \E s \in {"READY", "FAILED"} :
            exports' = [exports EXCEPT ![wk[w].export].status = s]
      BY <1>9 DEF Generate, GeneratePut, GenerateSave, GenerateUndo, GenerateFail
    <3>2. ASSUME NEW s \in {"READY", "FAILED"},
                 exports' = [exports EXCEPT ![wk[w].export].status = s]
          PROVE  exports' \in [Exports -> Row]
      <4>1. [exports[wk[w].export] EXCEPT !.status = s] \in Row
        BY <1>t, <1>s DEF Finished
      <4> QED BY <3>2, <4>1
    <3> QED BY <3>1, <3>2
  <2>2. wk' \in [Workers -> Worker]
    <3>1. PICK step \in {"save", "fail", "claim", "undo"} : wk' = [wk EXCEPT ![w].pc = step]
      <4>1. \/ wk' = [wk EXCEPT ![w].pc = "save"] \/ wk' = [wk EXCEPT ![w].pc = "fail"]
            \/ wk' = [wk EXCEPT ![w].pc = "claim"] \/ wk' = [wk EXCEPT ![w].pc = "undo"]
        BY <1>9 DEF Generate, GeneratePut, GenerateSave, GenerateUndo, GenerateFail
      <4> QED BY <4>1
    <3>2. step \in Steps
      BY DEF Steps
    <3> QED BY <3>1, <3>2, <1>t DEF Worker
  <2>3. object' \in SUBSET Exports /\ downloaded' = downloaded /\ lock' = lock
    BY <1>9, <1>t DEF Generate, GeneratePut, GenerateSave, GenerateUndo, GenerateFail
  <2> QED BY <2>1, <2>2, <2>3
<1>10. ASSUME NEW w \in Workers, WorkerDone(w) \/ LoseLock(w) \/ Crash(w) PROVE TypeOK'
  BY <1>10 DEF WorkerDone, LoseLock, Crash, Unlocked
<1> QED
  BY <1>0, <1>1, <1>2, <1>3, <1>4, <1>5, <1>6, <1>7, <1>8, <1>9, <1>10 DEF Next, Work, Clean

LEMMA TypeInit == Init => TypeOK
BY NoRowType, IdleType DEF Init, TypeOK

-----------------------------------------------------------------------------
\* The rows a step may change, and how: the statuses an export goes through.
RowMoves(e) ==
    \/ exports'[e] = exports[e]
    \/ /\ Is(e, "NONE") /\ exports'[e].status = "PENDING"
       /\ ~exports'[e].overdue
    \/ /\ Is(e, "PENDING") /\ exports'[e].status \in {"APPROVED", "REJECTED"}
       /\ exports'[e].by = exports[e].by
       /\ exports'[e].reviewer \in Admins \ {exports[e].by}
       /\ exports'[e].overdue = exports[e].overdue
    \/ /\ \/ Is(e, "APPROVED") /\ exports'[e].status = "PROCESSING"
          \/ Is(e, "PROCESSING") /\ exports'[e].status \in {"READY", "FAILED"}
          \/ e \in Overdue /\ exports'[e].status = "EXPIRED"
       /\ exports'[e].by = exports[e].by /\ exports'[e].reviewer = exports[e].reviewer
       /\ exports'[e].overdue = exports[e].overdue
    \/ /\ Is(e, "READY") /\ exports'[e].status = "READY"
       /\ exports'[e].by = exports[e].by /\ exports'[e].reviewer = exports[e].reviewer
       /\ exports'[e].overdue

\* Every step moves every row along its life.
LEMMA RowStep == ASSUME TypeOK, [Next]_vars, NEW e \in Exports PROVE RowMoves(e)
<1> USE DEF Is, At, Goto
<1>t. /\ exports \in [Exports -> Row] /\ exports[e] \in Row
      /\ \A w \in Workers : wk[w].export \in Exports
  BY DEF TypeOK, Worker
<1>0. CASE exports' = exports
  BY <1>0 DEF RowMoves
<1>1. ASSUME NEW a \in Admins, Request(a) PROVE RowMoves(e)
  BY <1>1, <1>t, NoRowType DEF Request, RowMoves, NoRow
<1>2. ASSUME NEW a \in Admins, NEW f \in Exports, NEW verdict \in {"APPROVED", "REJECTED"},
             Review(a, f, verdict)
      PROVE  RowMoves(e)
  <2>1. PICK turn \in 1..MaxExports :
          exports' = [exports EXCEPT ![f].status = verdict, ![f].reviewer = a, ![f].turn = turn]
    BY <1>2 DEF Review
  <2>2. Is(f, "PENDING") /\ exports[f].by # a
    BY <1>2 DEF Review
  <2> QED BY <2>1, <2>2, <1>t DEF RowMoves, Row
<1>3. ASSUME NEW f \in Exports, Expires(f) PROVE RowMoves(e)
  BY <1>3, <1>t DEF Expires, RowMoves, Row
<1>4. ASSUME NEW w \in Workers, CleanErase(w) PROVE RowMoves(e)
  BY <1>4, <1>t DEF CleanErase, RowMoves, Row
<1>5. ASSUME NEW w \in Workers, Claim(w) PROVE RowMoves(e)
  <2>1. PICK f \in Exports :
          Is(f, "APPROVED") /\ exports' = [exports EXCEPT ![f].status = "PROCESSING"]
    BY <1>5 DEF Claim, First
  <2> QED BY <2>1, <1>t DEF RowMoves, Row
<1>6. ASSUME NEW w \in Workers, GenerateSave(w) \/ GenerateFail(w) PROVE RowMoves(e)
  BY <1>6, <1>t DEF GenerateSave, GenerateFail, RowMoves, Row
<1>7. CASE UNCHANGED vars
  BY <1>7, <1>0 DEF vars
<1>8. ASSUME NEW f \in Exports, Download(f) PROVE exports' = exports
  BY <1>8 DEF Download
<1>9. ASSUME NEW w \in Workers,
             \/ WorkerStart(w) \/ CleanRemove(w) \/ CleanSkip(w) \/ CleanDone(w)
             \/ GeneratePut(w) \/ GenerateUndo(w) \/ WorkerDone(w) \/ LoseLock(w) \/ Crash(w)
      PROVE  exports' = exports
  BY <1>9 DEF WorkerStart, CleanRemove, CleanSkip, CleanDone, GeneratePut, GenerateUndo,
     WorkerDone, LoseLock, Crash
<1> QED
  BY <1>0, <1>1, <1>2, <1>3, <1>4, <1>5, <1>6, <1>7, <1>8, <1>9
  DEF Next, Work, Clean, Generate

\* The type invariant holds.
THEOREM DataExportTypeCorrect == Spec => []TypeOK
BY TypeInit, TypeStep, PTL DEF Spec

-----------------------------------------------------------------------------
\* What the steps of a worker do to the workers' states.
LEMMA InWorkStep == TypeOK /\ OneBuilder /\ InWork /\ [Next]_vars => OneBuilder' /\ InWork'
<1> SUFFICES ASSUME TypeOK, OneBuilder, InWork, [Next]_vars PROVE OneBuilder' /\ InWork'
  OBVIOUS
<1> USE DEF Is, At, Goto
<1>t. /\ wk \in [Workers -> Worker] /\ exports \in [Exports -> Row]
      /\ \A w \in Workers : wk[w].export \in Exports /\ wk[w] \in Worker
  BY DEF TypeOK, Worker
<1>r. \A e \in Exports : RowMoves(e)
  BY RowStep
<1>1. \A e \in Exports :
        /\ exports'[e].status \in {"APPROVED", "PROCESSING"} \cup Finished =>
              exports'[e].reviewer \in Admins \ {exports'[e].by}
        /\ exports'[e].overdue => exports'[e].status \in {"READY", "EXPIRED"}
        /\ exports'[e].status = "NONE" => exports'[e].reviewer = NoAdmin
  BY <1>r DEF InWork, RowMoves, Overdue, Finished
\* The rest of the invariant, when a step changes no worker or sends one home.
<1>2. ASSUME \A w \in Workers : wk'[w] = wk[w] \/ wk'[w] = Idle,
             \A e \in Exports : exports[e].status = "PROCESSING" => exports'[e].status = "PROCESSING"
      PROVE  OneBuilder' /\ InWork'
  <2>1. OneBuilder'
    BY <1>2, IdleType DEF OneBuilder, Building
  <2>2. InWork'
    BY <1>1, <1>2, <1>r, IdleType DEF InWork, Building, RowMoves, Overdue, Finished
  <2> QED BY <2>1, <2>2
\* The rest of the invariant, when a step changes no row: what it asks of a worker
\* that moves.
<1>3. ASSUME exports' = exports, NEW w \in Workers,
             \A v \in Workers \ {w} : wk'[v] = wk[v],
             \A e \in Exports :
                /\ Building(w, e)' => Building(w, e)
                /\ Building(w, e)' /\ wk'[w].pc \in {"put", "save"} => Is(e, "PROCESSING")
                /\ e \in wk'[w].todo => e \in wk[w].todo \/ e \in Overdue
                /\ wk'[w].pc = "erase" /\ wk'[w].export = e => e \in wk[w].todo
      PROVE  OneBuilder' /\ InWork'
  <2>1. \A e \in Exports, v \in Workers : Building(v, e)' => Building(v, e)
    BY <1>3 DEF Building
  <2>2. OneBuilder'
    BY <2>1 DEF OneBuilder
  <2>3. InWork'
    BY <1>3, <2>1 DEF InWork, Overdue, Building
  <2> QED BY <2>2, <2>3
<1>4. CASE UNCHANGED vars
  BY <1>4, <1>2 DEF vars
<1>5. ASSUME NEW a \in Admins,
             Request(a) \/ \E e \in Exports, v \in {"APPROVED", "REJECTED"} : Review(a, e, v)
      PROVE  OneBuilder' /\ InWork'
  <2>1. wk' = wk
    BY <1>5 DEF Request, Review
  <2>2. \A e \in Exports : exports[e].status = "PROCESSING" => exports'[e].status = "PROCESSING"
    BY <1>5, <1>t DEF Request, Review
  <2> QED BY <2>1, <2>2, <1>2
<1>6. ASSUME NEW e \in Exports, Download(e) \/ Expires(e) PROVE OneBuilder' /\ InWork'
  <2>1. wk' = wk
    BY <1>6 DEF Download, Expires
  <2>2. \A f \in Exports : exports[f].status = "PROCESSING" => exports'[f].status = "PROCESSING"
    BY <1>6, <1>t DEF Download, Expires
  <2> QED BY <2>1, <2>2, <1>2
<1>7. ASSUME NEW w \in Workers, WorkerDone(w) \/ LoseLock(w) \/ Crash(w)
      PROVE  OneBuilder' /\ InWork'
  BY <1>7, <1>2, <1>t DEF WorkerDone, LoseLock, Crash
<1>8. ASSUME NEW w \in Workers, WorkerStart(w) PROVE OneBuilder' /\ InWork'
  <2>1. exports' = exports /\ wk'[w].pc = "clean" /\ wk'[w].todo = Overdue
    BY <1>8, <1>t, IdleType DEF WorkerStart, Worker
  <2>2. \A v \in Workers \ {w} : wk'[v] = wk[v]
    BY <1>8, <1>t DEF WorkerStart
  <2>3. \A e \in Exports : ~Building(w, e)'
    BY <2>1 DEF Building
  <2> QED BY <2>1, <2>2, <2>3, <1>3
<1>9. ASSUME NEW w \in Workers, CleanRemove(w) PROVE OneBuilder' /\ InWork'
  <2>1. PICK e \in wk[w].todo :
          wk' = [wk EXCEPT ![w].pc = "erase", ![w].export = e, ![w].todo = @ \ {e}]
    BY <1>9 DEF CleanRemove
  <2>2. /\ exports' = exports /\ wk'[w].pc = "erase" /\ wk'[w].export = e
        /\ wk'[w].todo \subseteq wk[w].todo /\ \A v \in Workers \ {w} : wk'[v] = wk[v]
    BY <1>9, <1>t, <2>1 DEF CleanRemove, Worker
  <2>3. \A f \in Exports : ~Building(w, f)'
    BY <2>2 DEF Building
  <2> QED BY <2>2, <2>3, <1>3
<1>10. ASSUME NEW w \in Workers, CleanSkip(w) \/ CleanDone(w) PROVE OneBuilder' /\ InWork'
  <2>1. /\ exports' = exports /\ wk'[w].pc \in {"clean", "claim"}
        /\ wk'[w].todo \subseteq wk[w].todo /\ \A v \in Workers \ {w} : wk'[v] = wk[v]
    BY <1>10, <1>t DEF CleanSkip, CleanDone, Worker
  <2>2. \A e \in Exports : ~Building(w, e)'
    BY <2>1 DEF Building
  <2> QED BY <2>1, <2>2, <1>3
<1>11. ASSUME NEW w \in Workers, GeneratePut(w) \/ GenerateUndo(w)
       PROVE  OneBuilder' /\ InWork'
  <2>1. /\ exports' = exports /\ \A v \in Workers \ {w} : wk'[v] = wk[v]
        /\ wk'[w].todo = wk[w].todo /\ wk'[w].export = wk[w].export
        /\ wk[w].pc \in {"put", "undo"}
        /\ wk'[w].pc = "fail" \/ (wk'[w].pc = "save" /\ wk[w].pc = "put")
    BY <1>11, <1>t DEF GeneratePut, GenerateUndo, Worker
  <2>2. \A e \in Exports :
          /\ Building(w, e)' => Building(w, e)
          /\ Building(w, e)' /\ wk'[w].pc \in {"put", "save"} => Is(e, "PROCESSING")
    BY <2>1 DEF Building, InWork
  <2> QED BY <2>1, <2>2, <1>3
<1>12. ASSUME NEW w \in Workers, CleanErase(w) PROVE OneBuilder' /\ InWork'
  <2>1. /\ wk'[w].pc = "clean" /\ wk'[w].todo = wk[w].todo
        /\ \A v \in Workers \ {w} : wk'[v] = wk[v]
    BY <1>12, <1>t DEF CleanErase, Worker
  <2>2. \A e \in Exports, v \in Workers : Building(v, e)' => v # w /\ Building(v, e)
    BY <2>1 DEF Building
  <2>3. \A e \in Exports : exports[e].status = "PROCESSING" => exports'[e].status = "PROCESSING"
    BY <1>12, <1>t DEF CleanErase, Overdue
  <2>4. OneBuilder'
    BY <2>2 DEF OneBuilder
  <2>5. InWork'
    BY <1>1, <1>r, <2>1, <2>2, <2>3 DEF InWork, RowMoves, Overdue, Finished, Building
  <2> QED BY <2>4, <2>5
<1>13. ASSUME NEW w \in Workers, Claim(w) PROVE OneBuilder' /\ InWork'
  <2>1. PICK e \in Exports :
          /\ Is(e, "APPROVED")
          /\ exports' = [exports EXCEPT ![e].status = "PROCESSING"]
          /\ wk' = [wk EXCEPT ![w].pc = "put", ![w].export = e, ![w].left = @ - 1]
    BY <1>13 DEF Claim, First
  <2>2. /\ wk'[w].pc = "put" /\ wk'[w].export = e /\ wk'[w].todo = wk[w].todo
        /\ \A v \in Workers \ {w} : wk'[v] = wk[v]
        /\ exports'[e].status = "PROCESSING"
        /\ \A f \in Exports \ {e} : exports'[f] = exports[f]
    BY <2>1, <1>t DEF Worker, Row
  <2>3. \A v \in Workers : ~Building(v, e)
    BY <2>1 DEF InWork, Finished
  <2>4. \A f \in Exports, v \in Workers :
          Building(v, f)' => (v = w /\ f = e) \/ (v # w /\ f # e /\ Building(v, f))
    BY <2>2, <2>3 DEF Building
  <2>5. OneBuilder'
    BY <2>4 DEF OneBuilder
  <2>6. InWork'
    <3>1. ASSUME NEW v \in Workers, NEW f \in Exports, Building(v, f)'
          PROVE  /\ exports'[f].status \in {"PROCESSING"} \cup Finished
                 /\ wk'[v].pc \in {"put", "save"} => exports'[f].status = "PROCESSING"
      BY <3>1, <2>2, <2>4 DEF InWork
    <3>2. ASSUME NEW v \in Workers, NEW f \in Exports,
                 f \in wk'[v].todo \/ (wk'[v].pc = "erase" /\ wk'[v].export = f)
          PROVE  exports'[f].status \in {"READY", "EXPIRED"} /\ exports'[f].overdue
      <4>1. exports[f].status \in {"READY", "EXPIRED"} /\ exports[f].overdue
        BY <3>2, <2>2 DEF InWork
      <4>2. f # e
        BY <4>1, <2>1
      <4> QED BY <4>1, <4>2, <2>2
    <3> QED BY <1>1, <3>1, <3>2 DEF InWork
  <2> QED BY <2>5, <2>6
<1>14. ASSUME NEW w \in Workers, GenerateSave(w) \/ GenerateFail(w)
       PROVE  OneBuilder' /\ InWork'
  <2> DEFINE e == wk[w].export
  <2>1. /\ wk'[w].todo = wk[w].todo /\ \A v \in Workers \ {w} : wk'[v] = wk[v]
        /\ wk'[w].export = e /\ Building(w, e) /\ wk'[w].pc \in {"claim", "undo"}
        /\ \A f \in Exports \ {e} : exports'[f] = exports[f]
    BY <1>14, <1>t DEF GenerateSave, GenerateFail, Worker, Building
  <2>2. \A f \in Exports, v \in Workers :
          Building(v, f)' => Building(v, f) /\ (v # w => f # e)
    BY <2>1 DEF Building, OneBuilder
  <2>3. OneBuilder'
    BY <2>2 DEF OneBuilder
  <2>4. InWork'
    BY <1>1, <1>r, <1>t, <2>1, <2>2 DEF InWork, RowMoves, Overdue, Finished
  <2> QED BY <2>3, <2>4
<1> QED
  BY <1>4, <1>5, <1>6, <1>7, <1>8, <1>9, <1>10, <1>11, <1>12, <1>13, <1>14
  DEF Next, Work, Clean, Generate

\* Every step keeps the archives approved.
LEMMA FourEyesStep == TypeOK /\ InWork /\ FourEyes /\ [Next]_vars => FourEyes'
<1> SUFFICES ASSUME TypeOK, InWork, FourEyes, [Next]_vars, NEW e \in (object \cup downloaded)'
             PROVE  /\ exports'[e].status \in {"PROCESSING"} \cup Finished
                    /\ exports'[e].reviewer \in Admins \ {exports'[e].by}
  BY DEF FourEyes
<1> USE DEF At, Is
<1>t. e \in Exports
  BY TypeStep DEF TypeOK
<1>1. /\ exports[e].status \in {"PROCESSING"} \cup Finished
      /\ exports[e].reviewer \in Admins \ {exports[e].by}
  <2>1. CASE e \in object \cup downloaded
    BY <2>1 DEF FourEyes
  <2>2. ASSUME NEW f \in Exports, Download(f), e \notin object \cup downloaded PROVE <1>1
    <3>1. Is(e, "READY")
      BY <2>2 DEF Download
    <3> QED BY <3>1, <1>t DEF InWork, Finished
  <2>3. ASSUME NEW w \in Workers, GeneratePut(w), e \notin object \cup downloaded PROVE <1>1
    <3>1. Building(w, e)
      BY <2>3 DEF GeneratePut, Building
    <3> QED BY <3>1, <1>t DEF InWork, Finished
  <2>4. CASE object' \subseteq object /\ downloaded' = downloaded
    BY <2>1, <2>4
  <2>5. ASSUME NEW a \in Admins,
               Request(a) \/ \E f \in Exports, v \in {"APPROVED", "REJECTED"} : Review(a, f, v)
        PROVE  object' = object /\ downloaded' = downloaded
    BY <2>5 DEF Request, Review
  <2>6. ASSUME NEW f \in Exports, Expires(f)
        PROVE  object' = object /\ downloaded' = downloaded
    BY <2>6 DEF Expires
  <2>7. ASSUME NEW w \in Workers,
               \/ WorkerStart(w) \/ Clean(w) \/ Claim(w) \/ GenerateSave(w) \/ GenerateUndo(w)
               \/ GenerateFail(w) \/ WorkerDone(w) \/ LoseLock(w) \/ Crash(w)
        PROVE  object' \subseteq object /\ downloaded' = downloaded
    BY <2>7 DEF WorkerStart, Clean, CleanRemove, CleanErase, CleanSkip, CleanDone, Claim,
       GenerateSave, GenerateUndo, GenerateFail, WorkerDone, LoseLock, Crash
  <2>8. CASE UNCHANGED vars
    BY <2>4, <2>8 DEF vars
  <2> QED
    BY <2>1, <2>2, <2>3, <2>4, <2>5, <2>6, <2>7, <2>8 DEF Next, Work, Generate
<1>2. RowMoves(e)
  BY RowStep, <1>t
<1> QED BY <1>1, <1>2 DEF RowMoves, Overdue, Finished

\* What the steps do to the store and to the workers that use it.
LEMMA InStoreStep ==
  TypeOK /\ OneBuilder /\ InWork /\ InStore /\ [Next]_vars => InStore'
<1> SUFFICES ASSUME TypeOK, OneBuilder, InWork, InStore, [Next]_vars PROVE InStore'
  OBVIOUS
<1> USE DEF Is, At, Goto
<1>t. /\ wk \in [Workers -> Worker] /\ exports \in [Exports -> Row]
      /\ \A w \in Workers : wk[w].export \in Exports /\ wk[w] \in Worker
  BY DEF TypeOK, Worker
\* Most steps leave the store, what is said of it and who uses it alone.
<1>1. ASSUME object' = object,
             \A e \in Exports : exports'[e].status \in {"EXPIRED", "FAILED"} =>
                exports'[e].status = exports[e].status,
             \A w \in Workers : wk'[w].pc \in {"save", "erase", "undo", "fail"} =>
                wk'[w].pc = wk[w].pc /\ wk'[w].export = wk[w].export
      PROVE  InStore'
  BY <1>1, <1>t DEF InStore
<1>2. CASE UNCHANGED vars
  BY <1>1, <1>2 DEF vars
<1>3. ASSUME NEW a \in Admins,
             Request(a) \/ \E e \in Exports, v \in {"APPROVED", "REJECTED"} : Review(a, e, v)
      PROVE  InStore'
  <2>1. object' = object /\ wk' = wk
    BY <1>3 DEF Request, Review
  <2>2. \A e \in Exports : exports'[e].status \in {"EXPIRED", "FAILED"} =>
          exports'[e].status = exports[e].status
    <3>1. CASE Request(a)
      BY <3>1, <1>t, NoRowType DEF Request, Row
    <3>2. ASSUME NEW f \in Exports, NEW v \in {"APPROVED", "REJECTED"}, Review(a, f, v)
          PROVE  \A e \in Exports \ {f} : exports'[e] = exports[e]
      BY <3>2, <1>t DEF Review
    <3>3. ASSUME NEW f \in Exports, NEW v \in {"APPROVED", "REJECTED"}, Review(a, f, v)
          PROVE  exports'[f].status = v
      BY <3>3, <1>t DEF Review, Row
    <3> QED BY <1>3, <3>1, <3>2, <3>3
  <2> QED BY <1>1, <2>1, <2>2
<1>4. ASSUME NEW e \in Exports, Download(e) \/ Expires(e) PROVE InStore'
  <2>1. object' = object /\ wk' = wk
    BY <1>4 DEF Download, Expires
  <2>2. \A f \in Exports : exports'[f].status = exports[f].status
    BY <1>4, <1>t DEF Download, Expires, Row
  <2> QED BY <1>1, <2>1, <2>2
<1>5. ASSUME NEW w \in Workers,
             \/ WorkerStart(w) \/ CleanSkip(w) \/ CleanDone(w) \/ WorkerDone(w)
             \/ LoseLock(w) \/ Crash(w)
      PROVE  InStore'
  <2>1. object' = object /\ exports' = exports
    BY <1>5 DEF WorkerStart, CleanSkip, CleanDone, WorkerDone, LoseLock, Crash
  <2>2. \A v \in Workers : wk'[v].pc \in {"save", "erase", "undo", "fail"} =>
          wk'[v].pc = wk[v].pc /\ wk'[v].export = wk[v].export
    <3>1. CASE WorkerStart(w)
      BY <3>1, <1>t, IdleType DEF WorkerStart, Worker
    <3>2. CASE CleanSkip(w)
      BY <3>2, <1>t DEF CleanSkip, Worker
    <3>3. CASE CleanDone(w) \/ LoseLock(w)
      BY <3>3, <1>t DEF CleanDone, LoseLock, Worker
    <3>4. CASE WorkerDone(w) \/ Crash(w)
      BY <3>4, <1>t, IdleType DEF WorkerDone, Crash
    <3> QED BY <1>5, <3>1, <3>2, <3>3, <3>4
  <2> QED BY <1>1, <2>1, <2>2
<1>6. ASSUME NEW w \in Workers, Claim(w) PROVE InStore'
  BY <1>1, <1>6, <1>t DEF Claim, Worker, Row
<1>7. ASSUME NEW w \in Workers, CleanRemove(w) PROVE InStore'
  <2>1. PICK e \in wk[w].todo :
          /\ object' = object \ {e}
          /\ wk' = [wk EXCEPT ![w].pc = "erase", ![w].export = e, ![w].todo = @ \ {e}]
    BY <1>7 DEF CleanRemove
  <2>2. /\ exports' = exports /\ wk'[w].pc = "erase" /\ wk'[w].export = e
        /\ \A v \in Workers \ {w} : wk'[v] = wk[v]
    BY <1>7, <1>t, <2>1 DEF CleanRemove, Worker
  <2>3. e \in Exports /\ exports[e].status \in {"READY", "EXPIRED"}
    BY <1>t DEF InWork, Worker
  <2>4. \A v \in Workers : wk[v].pc = "save" => wk[v].export # e
    BY <2>3, <1>t DEF InWork, Building
  <2> QED BY <2>1, <2>2, <2>4, <1>t DEF InStore
<1>8. ASSUME NEW w \in Workers, CleanErase(w) PROVE InStore'
  <2>1. /\ object' = object /\ wk'[w].pc = "clean"
        /\ \A v \in Workers \ {w} : wk'[v] = wk[v]
        /\ wk[w].export \notin object
        /\ \A e \in Exports : exports'[e].status \in {"EXPIRED", "FAILED"} =>
              \/ exports'[e].status = exports[e].status
              \/ e = wk[w].export /\ exports'[e].status = "EXPIRED"
    BY <1>8, <1>t DEF CleanErase, InStore, Worker
  <2> QED BY <2>1, <1>t DEF InStore
<1>9. ASSUME NEW w \in Workers, GeneratePut(w) PROVE InStore'
  <2> DEFINE e == wk[w].export
  <2>1. /\ exports' = exports /\ wk'[w].export = e
        /\ object' = object \/ object' = object \cup {e}
        /\ wk'[w].pc = "fail" \/ (wk'[w].pc = "save" /\ e \in object')
        /\ \A v \in Workers \ {w} : wk'[v] = wk[v]
    BY <1>9, <1>t DEF GeneratePut, Worker
  <2>2. exports[e].status = "PROCESSING"
    BY <1>9, <1>t DEF GeneratePut, InWork, Building
  <2>3. \A v \in Workers : wk[v].pc = "erase" => wk[v].export # e
    BY <2>2, <1>t DEF InWork
  <2> QED BY <2>1, <2>2, <2>3, <1>t DEF InStore
<1>10. ASSUME NEW w \in Workers, GenerateUndo(w) PROVE InStore'
  <2> DEFINE e == wk[w].export
  <2>1. /\ exports' = exports /\ wk'[w].pc = "fail" /\ wk'[w].export = e
        /\ object' = object \/ object' = object \ {e}
        /\ wk[w].pc = "undo"
        /\ \A v \in Workers \ {w} : wk'[v] = wk[v]
    BY <1>10, <1>t DEF GenerateUndo, Worker
  <2>2. \A v \in Workers \ {w} : wk[v].pc = "save" => wk[v].export # e
    BY <2>1, <1>t DEF OneBuilder, Building
  <2> QED BY <2>1, <2>2, <1>t DEF InStore
<1>11. ASSUME NEW w \in Workers, GenerateSave(w) \/ GenerateFail(w) PROVE InStore'
  <2> DEFINE e == wk[w].export
  <2>1. /\ object' = object /\ wk'[w].export = e /\ Building(w, e)
        /\ \A v \in Workers \ {w} : wk'[v] = wk[v]
        /\ \A f \in Exports \ {e} : exports'[f] = exports[f]
        /\ exports'[e] = exports[e] \/ exports'[e].status \in {"READY", "FAILED"}
        /\ \/ wk'[w].pc = "claim"
           \/ wk'[w].pc = "undo" /\ wk[w].pc = "save" /\ exports'[e].status # "FAILED"
    <3>1. exports[e] \in Row /\ Building(w, e) /\ e \in Exports
      BY <1>11, <1>t DEF GenerateSave, GenerateFail, Building
    <3>2. GenerateSave(w) => exports[e].status = "PROCESSING"
      BY <3>1 DEF InWork, GenerateSave
    <3> QED BY <1>11, <1>t, <3>1, <3>2 DEF GenerateSave, GenerateFail, Worker, Row
  <2>2. \A v \in Workers \ {w} : wk[v].pc \in {"save", "undo", "fail"} => wk[v].export # e
    BY <2>1, <1>t DEF OneBuilder, Building
  <2> QED BY <2>1, <2>2, <1>t DEF InStore
<1> QED
  BY <1>2, <1>3, <1>4, <1>5, <1>6, <1>7, <1>8, <1>9, <1>10, <1>11
  DEF Next, Work, Clean, Generate

LEMMA InvariantInit == Init => IInv
<1> SUFFICES ASSUME Init PROVE IInv
  OBVIOUS
<1>1. FourEyes /\ OneBuilder /\ InWork
  BY NoRowType, IdleType
  DEF Init, FourEyes, OneBuilder, InWork, Building, At, NoRow, Finished, Is
<1>2. InStore
  BY NoRowType, IdleType DEF Init, InStore, At, Is
<1> QED BY <1>1, <1>2, TypeInit DEF IInv

LEMMA Inductive == Spec => []IInv
<1>1. Init => IInv
  BY InvariantInit
<1>2. IInv /\ [Next]_vars => IInv'
  BY TypeStep, InWorkStep, FourEyesStep, InStoreStep DEF IInv
<1> QED BY <1>1, <1>2, PTL DEF Spec

\* An archive exists or was handed out only for an export that somebody other than
\* its requester approved.
THEOREM FourEyesHold == Spec => []FourEyes
<1>1. IInv => FourEyes
  BY DEF IInv
<1> QED BY <1>1, Inductive, PTL

\* No two workers build one export, with or without their lock.
THEOREM OneBuilderEach == Spec => []OneBuilder
<1>1. IInv => OneBuilder
  BY DEF IInv
<1> QED BY <1>1, Inductive, PTL

\* Rejected, failed and expired exports are final, and a ready one only expires.
THEOREM SettledStaysSettled == Spec => SettledIsFinal
<1>1. IInv /\ [Next]_vars =>
        [\A e \in Exports :
           /\ exports[e].status \in {"REJECTED", "FAILED", "EXPIRED"} =>
                exports'[e].status = exports[e].status
           /\ Is(e, "READY") => exports'[e].status \in {"READY", "EXPIRED"}
           /\ exports[e].overdue => exports'[e].overdue]_vars
  <2> SUFFICES ASSUME IInv, [Next]_vars, NEW e \in Exports
               PROVE  /\ exports[e].status \in {"REJECTED", "FAILED", "EXPIRED"} =>
                           exports'[e].status = exports[e].status
                      /\ Is(e, "READY") => exports'[e].status \in {"READY", "EXPIRED"}
                      /\ exports[e].overdue => exports'[e].overdue
    OBVIOUS
  <2>1. RowMoves(e)
    BY RowStep DEF IInv
  <2>2. exports[e].overdue => exports[e].status \in {"READY", "EXPIRED"}
    BY DEF IInv, InWork
  <2> QED BY <2>1, <2>2 DEF RowMoves, Is, Overdue
<1> QED BY <1>1, Inductive, PTL DEF Spec, SettledIsFinal

\* A ready archive that is not overdue is removed only by the worker that built it.
THEOREM ReadyArchivesSurvive == Spec => ReadyLostOnlyToItsBuilder
<1>1. IInv /\ [Next]_vars =>
        [\A e \in object : Is(e, "READY") /\ ~exports[e].overdue /\ e \notin object' =>
           \E w \in Workers : At(w, "undo") /\ wk[w].export = e]_vars
  <2> SUFFICES ASSUME IInv, [Next]_vars, NEW e \in object,
                      ~exports[e].overdue, e \notin object'
               PROVE  \E w \in Workers : At(w, "undo") /\ wk[w].export = e
    OBVIOUS
  <2>t. e \in Exports
    BY DEF IInv, TypeOK
  <2>1. ASSUME NEW w \in Workers, CleanRemove(w) PROVE FALSE
    BY <2>1, <2>t DEF CleanRemove, IInv, InWork
  <2>2. ASSUME NEW w \in Workers, GenerateUndo(w) PROVE At(w, "undo") /\ wk[w].export = e
    BY <2>2 DEF GenerateUndo
  <2>3. ASSUME NEW w \in Workers,
               \/ WorkerStart(w) \/ CleanErase(w) \/ CleanSkip(w) \/ CleanDone(w) \/ Claim(w)
               \/ GeneratePut(w) \/ GenerateSave(w) \/ GenerateFail(w) \/ WorkerDone(w)
               \/ LoseLock(w) \/ Crash(w)
        PROVE  object \subseteq object'
    BY <2>3 DEF WorkerStart, CleanErase, CleanSkip, CleanDone, Claim, GeneratePut,
       GenerateSave, GenerateFail, WorkerDone, LoseLock, Crash
  <2>4. ASSUME NEW a \in Admins,
               Request(a) \/ \E f \in Exports, v \in {"APPROVED", "REJECTED"} : Review(a, f, v)
        PROVE  object' = object
    BY <2>4 DEF Request, Review
  <2>5. ASSUME NEW f \in Exports, Download(f) \/ Expires(f) PROVE object' = object
    BY <2>5 DEF Download, Expires
  <2>6. CASE UNCHANGED vars
    BY <2>6 DEF vars
  <2> QED
    BY <2>1, <2>2, <2>3, <2>4, <2>5, <2>6 DEF Next, Work, Clean, Generate
<1> QED BY <1>1, Inductive, PTL DEF Spec, ReadyLostOnlyToItsBuilder

-----------------------------------------------------------------------------
(* The exports as a desk without workers would keep them. *)

\* A step that sets the status of one row.
LEMMA StatusSet ==
  ASSUME exports \in [Exports -> Row], NEW e \in Exports, NEW s,
         exports' = [exports EXCEPT ![e].status = s]
  PROVE  /\ Status' = [Status EXCEPT ![e] = s]
         /\ Asker' = Asker /\ Judge' = Judge /\ Late' = Late
<1>1. \A f \in Exports :
        /\ exports'[f].status = IF f = e THEN s ELSE exports[f].status
        /\ exports'[f].by = exports[f].by /\ exports'[f].reviewer = exports[f].reviewer
        /\ exports'[f].overdue = exports[f].overdue
  BY DEF Row
<1> QED BY <1>1 DEF Status, Asker, Judge, Late

\* Doubt is about READY rows and the worker in doubt.
LEMMA DoubtsKept ==
  ASSUME TypeOK,
         \A w \in Workers, e \in Exports : Doubts(w, e)' <=> Doubts(w, e),
         \A e \in Exports : (\E w \in Workers : Doubts(w, e)) =>
            (Is(e, "READY")' <=> Is(e, "READY"))
  PROVE  Doubted' = Doubted
BY DEF Doubted, Is

\* Steps of a worker in no doubt, before and after, that change no row.
LEMMA RowsKept ==
  ASSUME TypeOK, exports' = exports, downloaded' = downloaded,
         \A w \in Workers, e \in Exports : Doubts(w, e)' <=> Doubts(w, e)
  PROVE  UNCHANGED <<Status, Asker, Judge, Late, Doubted, downloaded>>
BY DoubtsKept DEF Status, Asker, Judge, Late, Is

LEMMA AskedStep == ASSUME IInv, NEW a \in Admins, Request(a) PROVE Desk!Next
<1>t. exports \in [Exports -> Row] /\ wk' = wk
  BY DEF IInv, TypeOK, Request
<1>1. PICK e \in Exports :
        /\ Is(e, "NONE")
        /\ exports' = [exports EXCEPT ![e] = [NoRow EXCEPT !.status = "PENDING", !.by = a]]
  BY DEF Request
<1>2. exports[e].reviewer = NoAdmin /\ ~exports[e].overdue
  BY <1>1 DEF IInv, InWork, Is
<1>3. \A f \in Exports :
        /\ exports'[f].status = IF f = e THEN "PENDING" ELSE exports[f].status
        /\ exports'[f].by = IF f = e THEN a ELSE exports[f].by
        /\ exports'[f].reviewer = exports[f].reviewer
        /\ exports'[f].overdue = exports[f].overdue
  BY <1>1, <1>2, <1>t, NoRowType DEF Row, NoRow
<1>4. /\ Status' = [Status EXCEPT ![e] = "PENDING"] /\ Asker' = [Asker EXCEPT ![e] = a]
      /\ Judge' = Judge /\ Late' = Late
  BY <1>3 DEF Status, Asker, Judge, Late
<1>5. Doubted' = Doubted
  <2>1. \A f \in Exports : Is(f, "READY")' <=> Is(f, "READY")
    BY <1>1, <1>3 DEF Is
  <2> QED BY <1>t, <2>1, DoubtsKept DEF IInv, Doubts, At
<1>6. Desk!Ask(e, a)
  <2>1. Status[e] = "NONE"
    BY <1>1 DEF Status, Is
  <2>2. \A f \in Exports : Asker[f] = a => Status[f] \notin Desk!Waiting
    BY DEF Request, Asker, Status, Waiting, Desk!Waiting
  <2>3. object' = object /\ downloaded' = downloaded
    BY DEF Request
  <2> QED BY <1>4, <1>5, <2>1, <2>2, <2>3 DEF Desk!Ask, Desk!Is, Desk!Becomes
<1> QED BY <1>6 DEF Desk!Next

LEMMA DecidedStep ==
  ASSUME IInv, NEW a \in Admins, NEW e \in Exports, NEW verdict \in {"APPROVED", "REJECTED"},
         Review(a, e, verdict)
  PROVE  Desk!Next
<1>t. exports \in [Exports -> Row] /\ wk' = wk
  BY DEF IInv, TypeOK, Review
<1>1. PICK turn \in 1..MaxExports :
        exports' = [exports EXCEPT ![e].status = verdict, ![e].reviewer = a, ![e].turn = turn]
  BY DEF Review
<1>2. Is(e, "PENDING") /\ exports[e].by # a
  BY DEF Review
<1>3. \A f \in Exports :
        /\ exports'[f].status = IF f = e THEN verdict ELSE exports[f].status
        /\ exports'[f].reviewer = IF f = e THEN a ELSE exports[f].reviewer
        /\ exports'[f].by = exports[f].by /\ exports'[f].overdue = exports[f].overdue
  BY <1>1, <1>t DEF Row
<1>4. /\ Status' = [Status EXCEPT ![e] = verdict] /\ Judge' = [Judge EXCEPT ![e] = a]
      /\ Asker' = Asker /\ Late' = Late
  BY <1>3 DEF Status, Asker, Judge, Late
<1>5. Doubted' = Doubted
  <2>1. \A f \in Exports : Is(f, "READY")' <=> Is(f, "READY")
    BY <1>2, <1>3 DEF Is
  <2> QED BY <1>t, <2>1, DoubtsKept DEF IInv, Doubts, At
<1>6. Desk!Decide(e, a, verdict)
  BY <1>2, <1>4, <1>5 DEF Review, Desk!Decide, Desk!Is, Desk!Becomes, Status, Asker, Is
<1> QED BY <1>6 DEF Desk!Next

\* An export that is handed out, or whose time passes.
LEMMA HandedStep == ASSUME IInv, NEW e \in Exports, Download(e) \/ Expires(e) PROVE Desk!Next
<1>t. exports \in [Exports -> Row] /\ wk' = wk /\ object' = object
  BY DEF IInv, TypeOK, Download, Expires
<1>1. Status[e] = "READY" /\ e \notin Late
  BY DEF Download, Expires, Status, Late, Is
<1>2. CASE Download(e)
  <2>1. UNCHANGED <<Status, Asker, Judge, Late, Doubted>>
    BY <1>2 DEF Download, Status, Asker, Judge, Late, Doubted, Doubts, Is, At
  <2>2. Desk!HandOut(e)
    BY <1>1, <1>2, <2>1 DEF Download, Desk!HandOut, Desk!Is
  <2> QED BY <2>2 DEF Desk!Next
<1>3. CASE Expires(e)
  <2>1. \A f \in Exports :
          /\ exports'[f].status = exports[f].status /\ exports'[f].by = exports[f].by
          /\ exports'[f].reviewer = exports[f].reviewer
          /\ exports'[f].overdue = IF f = e THEN TRUE ELSE exports[f].overdue
    BY <1>3, <1>t DEF Expires, Row
  <2>2. Status' = Status /\ Asker' = Asker /\ Judge' = Judge /\ Late' = Late \cup {e}
    BY <2>1 DEF Status, Asker, Judge, Late
  <2>3. Doubted' = Doubted
    BY <1>t, <2>1 DEF Doubted, Doubts, Is, At
  <2>4. Desk!Passes(e)
    BY <1>1, <1>3, <2>2, <2>3 DEF Expires, Desk!Passes, Desk!Is
  <2> QED BY <2>4 DEF Desk!Next
<1> QED BY <1>2, <1>3

\* Starts, ends and skips of a run, and a lock that is lost, are not seen.
LEMMA UnseenStep ==
  ASSUME IInv, NEW w \in Workers,
         WorkerStart(w) \/ CleanSkip(w) \/ CleanDone(w) \/ WorkerDone(w) \/ LoseLock(w)
  PROVE  UNCHANGED Desk!desk
<1>t. wk \in [Workers -> Worker]
  BY DEF IInv, TypeOK
<1>1. exports' = exports /\ object' = object /\ downloaded' = downloaded
  BY DEF WorkerStart, CleanSkip, CleanDone, WorkerDone, LoseLock
<1>2. \A v \in Workers : wk'[v] = wk[v] \/ (wk[v].pc # "undo" /\ wk'[v].pc # "undo")
  <2>1. CASE WorkerStart(w)
    BY <2>1, <1>t, IdleType DEF WorkerStart, Worker, At
  <2>2. CASE CleanSkip(w)
    BY <2>2, <1>t DEF CleanSkip, Worker, At, Goto
  <2>3. CASE CleanDone(w) \/ LoseLock(w)
    BY <2>3, <1>t DEF CleanDone, LoseLock, Worker, At, Goto
  <2>4. CASE WorkerDone(w)
    BY <2>4, <1>t, IdleType DEF WorkerDone, At
  <2> QED BY <2>1, <2>2, <2>3, <2>4
<1>3. \A v \in Workers, e \in Exports : Doubts(v, e)' <=> Doubts(v, e)
  BY <1>2 DEF Doubts, At
<1>4. TypeOK
  BY DEF IInv
<1> QED BY <1>1, <1>3, <1>4, RowsKept DEF Desk!desk

LEMMA CleanedStep ==
  ASSUME IInv, NEW w \in Workers, CleanRemove(w) \/ CleanErase(w)
  PROVE  Desk!Next \/ UNCHANGED Desk!desk
<1>t. /\ wk \in [Workers -> Worker] /\ exports \in [Exports -> Row] /\ TypeOK
      /\ wk[w] \in Worker /\ wk[w].export \in Exports /\ wk[w].todo \subseteq Exports
      /\ downloaded' = downloaded
  BY DEF IInv, TypeOK, Worker, CleanRemove, CleanErase
<1>1. \A v \in Workers, e \in Exports : Doubts(v, e)' <=> Doubts(v, e)
  <2>1. wk[w].pc # "undo" /\ wk'[w].pc # "undo" /\ \A v \in Workers \ {w} : wk'[v] = wk[v]
    <3>1. CASE CleanRemove(w)
      <4>1. PICK e \in wk[w].todo :
              wk' = [wk EXCEPT ![w].pc = "erase", ![w].export = e, ![w].todo = @ \ {e}]
        BY <3>1 DEF CleanRemove
      <4>2. wk[w].pc = "clean" /\ wk'[w].pc = "erase"
        BY <3>1, <4>1, <1>t DEF CleanRemove, At, Worker
      <4>3. \A v \in Workers \ {w} : wk'[v] = wk[v]
        BY <4>1, <1>t
      <4> QED BY <4>2, <4>3
    <3>2. CASE CleanErase(w)
      BY <3>2, <1>t DEF CleanErase, At, Goto, Worker
    <3> QED BY <3>1, <3>2
  <2> QED BY <2>1 DEF Doubts, At
<1>2. CASE CleanRemove(w)
  <2>1. PICK e \in wk[w].todo : object' = object \ {e}
    BY <1>2 DEF CleanRemove
  <2>2. e \in Exports /\ e \in Late
    BY <1>t DEF IInv, InWork, Late
  <2>3. UNCHANGED <<Status, Asker, Judge, Late, Doubted, downloaded>>
    BY <1>1, <1>2, <1>t, RowsKept DEF CleanRemove
  <2>4. Desk!Remove(e)
    BY <2>1, <2>2, <2>3 DEF Desk!Remove
  <2> QED BY <2>2, <2>4 DEF Desk!Next
<1>3. CASE CleanErase(w)
  <2> DEFINE e == wk[w].export
  <2>1. object' = object /\ e \notin object
    BY <1>3 DEF CleanErase, IInv, InStore
  <2>2. CASE e \in Overdue
    <3>1. exports' = [exports EXCEPT ![e].status = "EXPIRED"]
      BY <1>3, <2>2 DEF CleanErase
    <3>2. /\ Status' = [Status EXCEPT ![e] = "EXPIRED"]
          /\ Asker' = Asker /\ Judge' = Judge /\ Late' = Late
      BY <3>1, <1>t, StatusSet
    <3>3. Doubted' = Doubted \ {e}
      <4>1. \A f \in Exports : exports'[f].status = IF f = e THEN "EXPIRED" ELSE exports[f].status
        BY <3>1, <1>t DEF Row
      <4> QED BY <1>1, <4>1 DEF Doubted, Is
    <3>4. Status[e] = "READY" /\ e \in Late \ object
      BY <1>t, <2>1, <2>2 DEF Overdue, Status, Late, Is
    <3>5. Desk!Expire(e)
      BY <3>2, <3>3, <3>4, <2>1, <1>t DEF Desk!Expire, Desk!Is, Desk!Becomes
    <3> QED BY <3>5, <1>t DEF Desk!Next
  <2>3. CASE e \notin Overdue
    <3>1. exports' = exports
      BY <1>3, <2>3 DEF CleanErase
    <3> QED BY <3>1, <2>1, <1>1, <1>t, RowsKept DEF Desk!desk
  <2> QED BY <2>2, <2>3
<1> QED BY <1>2, <1>3

LEMMA ClaimedStep == ASSUME IInv, NEW w \in Workers, Claim(w) PROVE Desk!Next
<1>t. wk \in [Workers -> Worker] /\ exports \in [Exports -> Row] /\ TypeOK
  BY DEF IInv, TypeOK
<1>1. PICK e \in Exports :
        /\ Is(e, "APPROVED")
        /\ exports' = [exports EXCEPT ![e].status = "PROCESSING"]
        /\ wk' = [wk EXCEPT ![w].pc = "put", ![w].export = e, ![w].left = @ - 1]
  BY DEF Claim, First
<1>2. /\ Status' = [Status EXCEPT ![e] = "PROCESSING"]
      /\ Asker' = Asker /\ Judge' = Judge /\ Late' = Late
  BY <1>1, <1>t, StatusSet
<1>3. Doubted' = Doubted
  <2>1. wk[w].pc # "undo" /\ wk'[w].pc # "undo" /\ \A v \in Workers \ {w} : wk'[v] = wk[v]
    BY <1>1, <1>t DEF Claim, At, Worker
  <2>2. \A v \in Workers, f \in Exports : Doubts(v, f)' <=> Doubts(v, f)
    BY <2>1 DEF Doubts, At
  <2>3. \A f \in Exports : Is(f, "READY")' <=> Is(f, "READY")
    BY <1>1, <1>t DEF Is, Row
  <2> QED BY <1>t, <2>2, <2>3, DoubtsKept
<1>4. Status[e] = "APPROVED"
  BY <1>1 DEF Status, Is
<1>5. Desk!Make(e)
  BY <1>2, <1>3, <1>4 DEF Claim, Desk!Make, Desk!Is, Desk!Becomes
<1> QED BY <1>5 DEF Desk!Next

LEMMA StoredStep ==
  ASSUME IInv, NEW w \in Workers, GeneratePut(w) PROVE Desk!Next \/ UNCHANGED Desk!desk
<1> DEFINE e == wk[w].export
<1>t. /\ wk \in [Workers -> Worker] /\ TypeOK /\ e \in Exports
      /\ exports' = exports /\ downloaded' = downloaded
  BY DEF IInv, TypeOK, Worker, GeneratePut
<1>1. wk[w].pc # "undo" /\ wk'[w].pc # "undo" /\ \A v \in Workers \ {w} : wk'[v] = wk[v]
  BY <1>t DEF GeneratePut, At, Goto, Worker
<1>2. UNCHANGED <<Status, Asker, Judge, Late, Doubted, downloaded>>
  <2>1. \A v \in Workers, f \in Exports : Doubts(v, f)' <=> Doubts(v, f)
    BY <1>1 DEF Doubts, At
  <2> QED BY <2>1, <1>t, RowsKept
<1>3. object' = object \/ object' = object \cup {e}
  BY DEF GeneratePut
<1>4. Status[e] = "PROCESSING"
  <2>1. Building(w, e) /\ wk[w].pc = "put"
    BY DEF GeneratePut, Building, At
  <2> QED BY <2>1, <1>t DEF IInv, InWork, Status, Is
<1>5. CASE object' = object
  BY <1>2, <1>5 DEF Desk!desk
<1>6. CASE object' = object \cup {e}
  <2>1. Desk!Put(e)
    BY <1>2, <1>4, <1>6 DEF Desk!Put, Desk!Is
  <2> QED BY <2>1, <1>t DEF Desk!Next
<1> QED BY <1>3, <1>5, <1>6

\* No other worker is in doubt about the export a worker builds.
LEMMA DoubtIsItsOwn ==
  ASSUME IInv, NEW w \in Workers, wk[w].pc \in {"put", "save", "undo", "fail"},
         NEW v \in Workers \ {w}
  PROVE  ~Doubts(v, wk[w].export)
BY DEF IInv, OneBuilder, Building, Doubts, At, TypeOK, Worker

LEMMA SavedStep ==
  ASSUME IInv, NEW w \in Workers, GenerateSave(w) PROVE Desk!Next \/ UNCHANGED Desk!desk
<1> DEFINE e == wk[w].export
<1>t. /\ wk \in [Workers -> Worker] /\ exports \in [Exports -> Row] /\ TypeOK
      /\ e \in Exports /\ object' = object /\ downloaded' = downloaded
  BY DEF IInv, TypeOK, Worker, GenerateSave
<1>1. /\ wk[w].pc = "save" /\ wk'[w].pc \in {"claim", "undo"} /\ wk'[w].export = e
      /\ \A v \in Workers \ {w} : wk'[v] = wk[v]
  BY <1>t DEF GenerateSave, At, Goto, Worker
<1>2. exports[e].status = "PROCESSING" /\ e \in object
  <2>1. Building(w, e)
    BY <1>1 DEF Building
  <2> QED BY <1>1, <1>t, <2>1 DEF IInv, InWork, InStore, Is, At
<1>3. \A v \in Workers \ {w} : ~Doubts(v, e)
  BY <1>1, DoubtIsItsOwn
<1>4. \A f \in Exports : f # e =>
        ((\E v \in Workers : Doubts(v, f))' <=> \E v \in Workers : Doubts(v, f))
  BY <1>1 DEF Doubts, At
<1>5. (\E v \in Workers : Doubts(v, e))' <=> wk'[w].pc = "undo"
  BY <1>1, <1>3 DEF Doubts, At
<1>6. CASE exports' = [exports EXCEPT ![e].status = "READY"]
  <2>1. /\ Status' = [Status EXCEPT ![e] = "READY"]
        /\ Asker' = Asker /\ Judge' = Judge /\ Late' = Late
    BY <1>6, <1>t, StatusSet
  <2>2. Doubted' \in {Doubted, Doubted \cup {e}}
    <3>1. \A f \in Exports : exports'[f].status = IF f = e THEN "READY" ELSE exports[f].status
      BY <1>6, <1>t DEF Row
    <3>2. e \notin Doubted
      BY <1>2 DEF Doubted, Is
    <3>3. \A f \in Exports \ {e} : f \in Doubted' <=> f \in Doubted
      BY <3>1, <1>4 DEF Doubted, Is
    <3>4. Doubted' \subseteq Exports /\ Doubted \subseteq Exports
      BY DEF Doubted
    <3> QED BY <3>2, <3>3, <3>4
  <2>3. Desk!Finish(e)
    BY <2>1, <2>2, <1>2, <1>t DEF Desk!Finish, Desk!Is, Desk!Becomes, Status
  <2> QED BY <2>3, <1>t DEF Desk!Next
<1>7. CASE exports' = exports
  <2>1. Doubted' = Doubted
    BY <1>2, <1>4, <1>7 DEF Doubted, Is
  <2> QED BY <2>1, <1>7, <1>t DEF Desk!desk, Status, Asker, Judge, Late
<1> QED BY <1>6, <1>7 DEF GenerateSave

\* A worker in doubt removes the archive, or not, and no longer doubts; so does one that dies.
LEMMA UndoneStep ==
  ASSUME IInv, NEW w \in Workers, GenerateUndo(w) \/ Crash(w)
  PROVE  Desk!Next \/ UNCHANGED Desk!desk
<1> DEFINE e == wk[w].export
<1>t. /\ wk \in [Workers -> Worker] /\ TypeOK /\ e \in Exports
      /\ exports' = exports /\ downloaded' = downloaded
  BY DEF IInv, TypeOK, Worker, GenerateUndo, Crash
<1>1. wk'[w].pc # "undo" /\ \A v \in Workers \ {w} : wk'[v] = wk[v]
  <2>1. CASE GenerateUndo(w)
    BY <2>1, <1>t DEF GenerateUndo, Goto, Worker
  <2>2. CASE Crash(w)
    BY <2>2, <1>t, IdleType DEF Crash
  <2> QED BY <2>1, <2>2
<1>2. Status' = Status /\ Asker' = Asker /\ Judge' = Judge /\ Late' = Late
  BY <1>t DEF Status, Asker, Judge, Late
<1>3. CASE wk[w].pc # "undo"
  <2>1. Crash(w)
    BY <1>3 DEF GenerateUndo, At
  <2>2. \A v \in Workers, f \in Exports : Doubts(v, f)' <=> Doubts(v, f)
    BY <1>1, <1>3 DEF Doubts, At
  <2> QED BY <2>1, <2>2, <1>t, RowsKept DEF Desk!desk, Crash
<1>4. CASE wk[w].pc = "undo"
  <2>1. Doubted' = Doubted \ {e}
    <3>1. \A v \in Workers \ {w} : ~Doubts(v, e)
      BY <1>4, DoubtIsItsOwn
    <3>2. \A f \in Exports : (\E v \in Workers : Doubts(v, f))' <=>
                             (f # e /\ \E v \in Workers : Doubts(v, f))
      BY <1>1, <1>4, <3>1 DEF Doubts, At
    <3> QED BY <3>2, <1>t DEF Doubted, Is
  <2>2. CASE object' = object
    <3>1. Desk!Passes(e)
      BY <2>1, <2>2, <1>2, <1>t DEF Desk!Passes
    <3> QED BY <3>1, <1>t DEF Desk!Next
  <2>3. CASE object' = object \ {e} /\ e \in object
    <3>1. exports[e].status \in {"PROCESSING", "READY"}
      <4>1. Building(w, e) /\ exports[e].status # "FAILED" /\ exports[e].status # "EXPIRED"
        BY <1>4, <1>t, <2>3 DEF Building, IInv, InStore, Is, At
      <4> QED BY <4>1, <1>t DEF IInv, InWork, Finished
    <3>2. Status[e] = "PROCESSING" \/ e \in Doubted
      BY <3>1, <1>4, <1>t DEF Status, Doubted, Doubts, Is, At
    <3>3. Desk!Remove(e)
      BY <3>2, <2>1, <2>3, <1>2, <1>t DEF Desk!Remove, Desk!Is
    <3> QED BY <3>3, <1>t DEF Desk!Next
  <2> QED BY <2>2, <2>3, <1>4 DEF GenerateUndo, Crash
<1> QED BY <1>3, <1>4

LEMMA FailedStep ==
  ASSUME IInv, NEW w \in Workers, GenerateFail(w) PROVE Desk!Next \/ UNCHANGED Desk!desk
<1> DEFINE e == wk[w].export
<1>t. /\ wk \in [Workers -> Worker] /\ exports \in [Exports -> Row] /\ TypeOK
      /\ e \in Exports /\ object' = object /\ downloaded' = downloaded
  BY DEF IInv, TypeOK, Worker, GenerateFail
<1>1. wk[w].pc # "undo" /\ wk'[w].pc # "undo" /\ \A v \in Workers \ {w} : wk'[v] = wk[v]
  BY <1>t DEF GenerateFail, At, Goto, Worker
<1>2. \A v \in Workers, f \in Exports : Doubts(v, f)' <=> Doubts(v, f)
  BY <1>1 DEF Doubts, At
<1>3. CASE exports' = exports
  BY <1>2, <1>3, <1>t, RowsKept DEF Desk!desk
<1>4. CASE Is(e, "PROCESSING") /\ exports' = [exports EXCEPT ![e].status = "FAILED"]
  <2>1. /\ Status' = [Status EXCEPT ![e] = "FAILED"]
        /\ Asker' = Asker /\ Judge' = Judge /\ Late' = Late
    BY <1>4, <1>t, StatusSet
  <2>2. Doubted' = Doubted
    <3>1. \A f \in Exports : Is(f, "READY")' <=> Is(f, "READY")
      BY <1>4, <1>t DEF Is, Row
    <3> QED BY <3>1, <1>2, <1>t, DoubtsKept
  <2>3. Desk!GiveUp(e)
    BY <2>1, <2>2, <1>4, <1>t DEF Desk!GiveUp, Desk!Is, Desk!Becomes, Status, Is
  <2> QED BY <2>3, <1>t DEF Desk!Next
<1> QED BY <1>3, <1>4 DEF GenerateFail

LEMMA DeskInit == Init => Desk!Init
<1> SUFFICES ASSUME Init PROVE Desk!Init
  OBVIOUS
<1>1. \A e \in Exports :
        /\ exports[e].status = "NONE" /\ exports[e].by \in Admins
        /\ exports[e].reviewer = NoAdmin /\ ~exports[e].overdue
  BY NoRowType DEF Init, NoRow, Row
<1> QED BY <1>1 DEF Init, Desk!Init, Status, Asker, Judge, Late, Doubted, Is

LEMMA DeskNext == IInv /\ [Next]_vars => [Desk!Next]_(Desk!desk)
<1> SUFFICES ASSUME IInv, [Next]_vars PROVE Desk!Next \/ UNCHANGED Desk!desk
  OBVIOUS
<1>1. CASE UNCHANGED vars
  BY <1>1 DEF vars, Desk!desk, Status, Asker, Judge, Late, Doubted, Doubts, Is, At
<1>2. ASSUME NEW w \in Workers, Work(w) \/ LoseLock(w) \/ Crash(w)
      PROVE  Desk!Next \/ UNCHANGED Desk!desk
  BY <1>2, UnseenStep, CleanedStep, ClaimedStep, StoredStep, SavedStep, UndoneStep, FailedStep
  DEF Work, Clean, Generate
<1> QED BY <1>1, <1>2, AskedStep, DecidedStep, HandedStep DEF Next

\* Whatever the workers do and however they fail, the exports are what a desk without
\* workers makes of them.
THEOREM ExportsKeepTheDesk == Spec => KeepsDesk
<1>1. Init => Desk!Init
  BY DeskInit
<1>2. IInv /\ [Next]_vars => [Desk!Next]_(Desk!desk)
  BY DeskNext
<1> QED BY <1>1, <1>2, Inductive, PTL DEF Spec, KeepsDesk, Desk!Spec
=============================================================================
