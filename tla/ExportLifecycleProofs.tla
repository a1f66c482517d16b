------------------------- MODULE ExportLifecycleProofs -------------------------
(***************************************************************************)
(* Proofs about ExportLifecycle for any number of exports and interrupted  *)
(* requests, with lost answers, whether a bind is prompt or late.          *)
(***************************************************************************)
EXTENDS ExportLifecycle, TLAPS

USE NoExportAssumption, AbortsAssumption, ModeAssumption

\* The initial state has no rows at all.
LEMMA InitIInv == Init => IInv
<1> SUFFICES ASSUME Init PROVE IInv
  OBVIOUS
<1>1. TypeOK
  <2>1. AI!TypeOK
    BY DEF Init, AI!Init, AI!TypeOK, AI!Phases
  <2>2. aborts \in 0..MaxAborts
    BY SMT DEF Init
  <2> QED
    BY <2>1, <2>2 DEF Init, TypeOK
<1>2. \A e \in Exports : ExportOK(e)
  BY DEF Init, ExportOK, AI!Init
<1>3. DoneHasFile /\ GatePassedHasFile
  BY DEF Init, DoneHasFile, GatePassedHasFile
<1> QED
  BY <1>1, <1>2, <1>3 DEF IInv

-----------------------------------------------------------------------------
\* The AI service's part of any step about one export: it keeps its types,
\* and a task that is decided has a verdict.
AnswerOK(e) == phase[e] = "decided" => answer[e] \in Verdicts

AnswerNextOK(e) == phase'[e] = "decided" => answer'[e] \in Verdicts

LEMMA ServiceStep ==
  ASSUME AI!TypeOK, NEW e \in Exports, \A f \in Exports : AnswerOK(f),
         \/ AI!Accept(e, TRUE) \/ AI!Tell(e) \/ AI!Settle(e)
         \/ \E v \in Verdicts : AI!Decide(e, v)
         \/ UNCHANGED service
  PROVE  AI!TypeOK' /\ \A f \in Exports : AnswerNextOK(f)
<1> USE DEF AI!TypeOK, AI!Phases, AnswerOK, AnswerNextOK
<1>1. CASE AI!Accept(e, TRUE)
  BY <1>1 DEF AI!Accept
<1>2. CASE AI!Tell(e)
  BY <1>2 DEF AI!Tell
<1>3. CASE AI!Settle(e)
  BY <1>3 DEF AI!Settle
<1>4. CASE \E v \in Verdicts : AI!Decide(e, v)
  BY <1>4 DEF AI!Decide
<1>5. CASE UNCHANGED service
  BY <1>5 DEF service
<1> QED
  BY <1>1, <1>2, <1>3, <1>4, <1>5

\* What every step does to the service is one of these.
LEMMA ServiceSteps ==
  ASSUME [Next]_vars
  PROVE  \/ UNCHANGED service
         \/ \E e \in Exports : \/ AI!Accept(e, TRUE) \/ AI!Tell(e) \/ AI!Settle(e)
                              \/ \E v \in Verdicts : AI!Decide(e, v)
<1> DEFINE Any(e) == \/ UNCHANGED service
                     \/ AI!Accept(e, TRUE) \/ AI!Tell(e) \/ AI!Settle(e)
                     \/ \E v \in Verdicts : AI!Decide(e, v)
<1>1. ASSUME NEW e \in Exports
      PROVE  /\ Create(e) \/ Bind(e) \/ Mark(e) \/ Abort(e) => UNCHANGED service
             /\ SubmitOk(e) \/ SubmitFails(e) => Any(e)
             /\ Callback(e) \/ CallbackIgnored(e) => Any(e)
  <2>1. Create(e) \/ Bind(e) \/ Mark(e) \/ Abort(e) => UNCHANGED service
    BY Zenon DEF Create, Bind, Mark, Abort
  <2>2. SubmitOk(e) \/ SubmitFails(e) => Any(e)
    BY Zenon DEF SubmitOk, SubmitFails
  <2>3. Callback(e) \/ CallbackIgnored(e) => Any(e)
    BY Zenon DEF Callback, CallbackIgnored, Hear
  <2> QED
    BY <2>1, <2>2, <2>3
<1>2. ASSUME NEW old \in SUBSET Exports PROVE Sweep(old) => UNCHANGED service
  BY DEF Sweep
<1>3. Regate \/ UNCHANGED vars => UNCHANGED service
  BY DEF Regate, vars
<1>4. Service => \E e \in Exports : Any(e)
  BY Zenon DEF Service
<1> QED
  BY <1>1, <1>2, <1>3, <1>4, Zenon DEF Next, Request

\* Hence every step keeps the service's types and its verdicts.
LEMMA StepService ==
  ASSUME IInv, [Next]_vars
  PROVE  AI!TypeOK' /\ \A f \in Exports : AnswerNextOK(f)
<1>1. AI!TypeOK /\ \A f \in Exports : AnswerOK(f)
  BY DEF IInv, TypeOK, ExportOK, AnswerOK
<1>2. CASE UNCHANGED service
  BY <1>1, <1>2 DEF service, AI!TypeOK, AnswerOK, AnswerNextOK
<1>3. CASE \E e \in Exports : \/ AI!Accept(e, TRUE) \/ AI!Tell(e) \/ AI!Settle(e)
                             \/ \E v \in Verdicts : AI!Decide(e, v)
  BY <1>1, <1>3, ServiceStep
<1> QED
  BY <1>2, <1>3, ServiceSteps

-----------------------------------------------------------------------------
\* The rows keep their types and stay together.
RowsTyped ==
    /\ cleared \in BOOLEAN
    /\ export \in [Exports -> {"absent", "queued", "done", "failed"}]
    /\ task \in [Exports -> {"absent", "queued", "done", "failed"}]
    /\ file \in [Exports -> {"absent", "pending", "ready", "failed"}]
    /\ gate \in {"absent", "pending", "passed", "blocked"}
    /\ gateOf \in Exports \union {NoExport}
    /\ at \in [Exports -> {"idle", "submit", "bind", "mark"}]
    /\ aborts \in 0..MaxAborts

Together(e) ==
    task[e] = "absent" => export[e] = "absent" /\ file[e] = "absent" /\ at[e] = "idle"

RowsOK ==
    /\ RowsTyped
    /\ \A e \in Exports : Together(e)
    /\ DoneHasFile
    /\ GatePassedHasFile

LEMMA InvariantParts ==
  /\ IInv => RowsOK
  /\ RowsOK' /\ AI!TypeOK' /\ (\A e \in Exports : AnswerNextOK(e)) => IInv'
<1>1. IInv => RowsOK
  BY Zenon DEF IInv, TypeOK, RowsOK, RowsTyped, ExportOK, Together
<1>2. RowsOK' /\ AI!TypeOK' => TypeOK'
  BY Zenon DEF TypeOK, RowsOK, RowsTyped
<1>3. RowsOK' /\ (\A e \in Exports : AnswerNextOK(e)) => \A e \in Exports : ExportOK(e)'
  BY Zenon DEF RowsOK, Together, AnswerNextOK, ExportOK
<1> QED
  BY <1>1, <1>2, <1>3, Zenon DEF IInv, RowsOK

LEMMA StepRows == IInv /\ [Next]_vars => RowsOK'
<1> SUFFICES ASSUME IInv, [Next]_vars PROVE RowsOK'
  OBVIOUS
<1>0. RowsOK /\ \A e \in Exports : phase[e] = "decided" => answer[e] \in Verdicts
  BY InvariantParts DEF IInv, ExportOK
<1> USE DEF RowsOK, RowsTyped, Together, DoneHasFile, GatePassedHasFile
<1>1. CASE Regate
  BY <1>0, <1>1 DEF Regate, tables
<1>2. ASSUME NEW e \in Exports, Create(e) PROVE RowsOK'
  BY <1>0, <1>2 DEF Create, GateBecomes, Goto
<1>3. ASSUME NEW e \in Exports, SubmitOk(e) \/ SubmitFails(e) PROVE RowsOK'
  BY <1>0, <1>3 DEF SubmitOk, SubmitFails, Goto, tables
<1>4. ASSUME NEW e \in Exports, Bind(e) PROVE RowsOK'
  BY <1>0, <1>4 DEF Bind, Goto
<1>5. ASSUME NEW e \in Exports, Mark(e) PROVE RowsOK'
  BY <1>0, <1>5 DEF Mark, GateBecomes, Goto, FailUnlessReady
<1>6. ASSUME NEW e \in Exports, Abort(e) PROVE RowsOK'
  BY <1>0, <1>6 DEF Abort, Goto, tables
<1>7. ASSUME NEW e \in Exports, Callback(e) PROVE RowsOK'
  <2>1. answer[e] \in Verdicts
    BY <1>0, <1>7 DEF Callback
  <2> QED
    BY <1>0, <1>7, <2>1 DEF Callback, Open, GateBecomes, FailUnlessReady, Verdicts
<1>8. ASSUME NEW e \in Exports, CallbackIgnored(e) PROVE RowsOK'
  BY <1>0, <1>8 DEF CallbackIgnored, tables
<1>9. ASSUME NEW old \in SUBSET Exports, Sweep(old) PROVE RowsOK'
  BY <1>0, <1>9 DEF Sweep
<1>10. CASE Service
  BY <1>0, <1>10 DEF Service, tables
<1>11. CASE UNCHANGED vars
  BY <1>0, <1>11 DEF vars, tables
<1> QED
  BY <1>1, <1>2, <1>3, <1>4, <1>5, <1>6, <1>7, <1>8, <1>9, <1>10, <1>11 DEF Next, Request

LEMMA StepIInv == IInv /\ [Next]_vars => IInv'
  BY StepRows, StepService, InvariantParts

\* The invariant holds in every reachable state.
THEOREM ExportInvariance == Spec => []IInv
  BY InitIInv, StepIInv, PTL DEF Spec

\* Every variable of the export model stays in its range.
THEOREM ExportTypeCorrectness == Spec => []TypeOK
<1>1. IInv => TypeOK
  BY DEF IInv
<1> QED
  BY <1>1, ExportInvariance, PTL

\* An export that says done has a file to download and a task that is done,
\* whatever binds, sweeps and callbacks come when.
THEOREM DoneExportHasFile == Spec => []DoneHasFile
<1>1. IInv => DoneHasFile
  BY DEF IInv
<1> QED
  BY <1>1, ExportInvariance, PTL

\* The export a passed format gate names has a file, for any number of
\* exports that share the gate.
THEOREM PassedGateHasFile == Spec => []GatePassedHasFile
<1>1. IInv => GatePassedHasFile
  BY DEF IInv
<1> QED
  BY <1>1, ExportInvariance, PTL

-----------------------------------------------------------------------------
KeepsFiles == \A e \in Exports : file[e] = "ready" => file'[e] = "ready"

KeepsFailures == \A e \in Exports : task[e] = "failed" =>
    /\ task'[e] = "failed"
    /\ export'[e] = "done" => export[e] = "done"
    /\ file'[e] = file[e] \/ file'[e] = "failed"

\* No step takes a file away or revives what failed.
LEMMA StepKeeps == IInv /\ [Next]_vars => KeepsFiles /\ KeepsFailures
<1> SUFFICES ASSUME IInv, [Next]_vars PROVE KeepsFiles /\ KeepsFailures
  OBVIOUS
<1>0. RowsOK /\ \A e \in Exports : phase[e] = "decided" => answer[e] \in Verdicts
  BY InvariantParts DEF IInv, ExportOK
<1> USE DEF RowsOK, RowsTyped, Together, KeepsFiles, KeepsFailures
<1>1. CASE UNCHANGED tables
  BY <1>0, <1>1 DEF tables
<1>2. ASSUME NEW e \in Exports, Create(e) PROVE KeepsFiles /\ KeepsFailures
  BY <1>0, <1>2 DEF Create
<1>3. ASSUME NEW e \in Exports, Bind(e) PROVE KeepsFiles /\ KeepsFailures
  BY <1>0, <1>3 DEF Bind
<1>4. ASSUME NEW e \in Exports, Mark(e) PROVE KeepsFiles /\ KeepsFailures
  BY <1>0, <1>4 DEF Mark, FailUnlessReady
<1>5. ASSUME NEW e \in Exports, Callback(e) PROVE KeepsFiles /\ KeepsFailures
  BY <1>0, <1>5 DEF Callback, Open, FailUnlessReady
<1>6. ASSUME NEW old \in SUBSET Exports, Sweep(old) PROVE KeepsFiles /\ KeepsFailures
  BY <1>0, <1>6 DEF Sweep
<1>7. \/ UNCHANGED tables
      \/ \E e \in Exports : Create(e) \/ Bind(e) \/ Mark(e) \/ Callback(e)
      \/ \E old \in SUBSET Exports : Sweep(old)
  BY Zenon DEF Next, Request, Regate, SubmitOk, SubmitFails, Abort, CallbackIgnored, Service, vars
<1> QED
  BY <1>1, <1>2, <1>3, <1>4, <1>5, <1>6, <1>7

\* A file that is ready stays ready.
THEOREM ReadyFilesAreKept == Spec => ReadyFileKept
<1>1. IInv /\ [Next]_vars => [KeepsFiles]_vars
  BY StepKeeps
<1> QED
  BY <1>1, ExportInvariance, PTL DEF Spec, ReadyFileKept, KeepsFiles

\* What was expired or marked failed is not revived by a late answer.
THEOREM FailuresAreKept == Spec => FailedStaysFailed
<1>1. IInv /\ [Next]_vars => [KeepsFailures]_vars
  BY StepKeeps
<1> QED
  BY <1>1, ExportInvariance, PTL DEF Spec, FailedStaysFailed, KeepsFailures

-----------------------------------------------------------------------------
\* Of the AI service the backend takes for granted only what CallbackOutbox
\* promises of it: in the eyes of its tasks, every submission of an export,
\* every callback and every step of the service is a step of the outbox.
THEOREM ExportsUseOutbox == Spec => AI!Spec
<1>1. Init => AI!Init
  BY DEF Init
<1>2. [Next]_vars => [AI!Next]_(AI!vars)
  <2> SUFFICES ASSUME [Next]_vars PROVE UNCHANGED service \/ AI!Next
    BY DEF service, AI!vars
  <2> QED
    BY ServiceSteps, Zenon DEF AI!Next
<1> QED
  BY <1>1, <1>2, PTL DEF Spec, AI!Spec
=============================================================================
