--------------------------- MODULE TenderParseProofs ---------------------------
(***************************************************************************)
(* Proofs about TenderParse for any number of files, requests and          *)
(* interruptions, whether or not requests take turns.                      *)
(***************************************************************************)
EXTENDS TenderParse, TLAPS

USE NoFileAssumption, BoundAssumption, ModeAssumption

\* The properties of the row, the gates and the reviewer.
RowOK ==
    /\ FreshWasViewed
    /\ PassedWasReviewed
    /\ StatusMatchesGate
    /\ PlanWasReviewed

\* The types of everything but the AI service, in two groups.
RowTyped ==
    /\ parse \in {"absent", "queued", "processing", "ready", "confirmed", "failed"}
    /\ file \in Files \union {NoFile}
    /\ content \in 0..MaxTasks
    /\ interpret \in {"absent", "pending", "needs_review", "passed", "blocked"}
    /\ plan \in 0..MaxTasks
    /\ viewed \in 0..MaxTasks
    /\ fresh \in BOOLEAN
    /\ reviewed \in SUBSET (0..MaxTasks)
    /\ drafting \in 0..MaxTasks

TasksTyped ==
    /\ task \in [Tasks -> {"absent", "queued", "done", "failed"}]
    /\ source \in [Tasks -> Files \union {NoFile}]
    /\ at \in [Tasks -> {"idle", "submit", "bind", "mark"}]
    /\ aborts \in 0..MaxAborts
    /\ sweeping \in 0..MaxTasks
    /\ newest \in 0..MaxTasks

LEMMA Parts ==
  /\ IInv <=> RowTyped /\ TasksTyped /\ AI!TypeOK /\ RowOK /\ SnapshotCurrent
              /\ CommittedFirst /\ \A t \in Tasks : AnswerOK(t)
  /\ RowTyped' /\ TasksTyped' /\ AI!TypeOK' /\ RowOK' /\ SnapshotCurrent' /\ CommittedFirst'
       /\ (\A t \in Tasks : AnswerOK(t))' => IInv'
<1>1. IInv <=> RowTyped /\ TasksTyped /\ AI!TypeOK /\ RowOK /\ SnapshotCurrent
              /\ CommittedFirst /\ \A t \in Tasks : AnswerOK(t)
  BY Zenon DEF IInv, TypeOK, RowTyped, TasksTyped, RowOK
<1>2. RowTyped' /\ TasksTyped' /\ AI!TypeOK' => TypeOK'
  BY Zenon DEF TypeOK, RowTyped, TasksTyped
<1>3. RowTyped' /\ TasksTyped' /\ AI!TypeOK' /\ RowOK' /\ SnapshotCurrent' /\ CommittedFirst'
       /\ (\A t \in Tasks : AnswerOK(t))' => IInv'
  BY <1>2, Zenon DEF IInv, RowOK
<1> QED
  BY <1>1, <1>3

\* Zero numbers no task, and bounds everything that counts.
LEMMA Zero == /\ Blank \in 0..MaxTasks /\ 0 \in 0..MaxAborts
              /\ Blank \notin Tasks /\ Tasks \subseteq 0..MaxTasks
  BY SMT DEF Blank, Tasks

\* Nothing has happened yet.
LEMMA InitIInv == Init => IInv
<1> SUFFICES ASSUME Init PROVE IInv
  OBVIOUS
<1>1. RowTyped
  BY Zero DEF Init, RowTyped
<1>2. TasksTyped
  BY Zero DEF Init, TasksTyped
<1>3. AI!TypeOK /\ \A t \in Tasks : AnswerOK(t)
  BY DEF Init, AI!Init, AI!TypeOK, AI!Phases, AnswerOK
<1>4. RowOK
  BY DEF Init, RowOK, FreshWasViewed, PassedWasReviewed, StatusMatchesGate, PlanWasReviewed
<1>5. SnapshotCurrent
  BY DEF Init, SnapshotCurrent
<1>6. CommittedFirst
  BY Zero DEF Init, CommittedFirst
<1> QED
  BY <1>1, <1>2, <1>3, <1>4, <1>5, <1>6, Parts

-----------------------------------------------------------------------------
\* The AI service's part of a step.
LEMMA ServiceStep ==
  ASSUME AI!TypeOK, \A f \in Tasks : AnswerOK(f), NEW t \in Tasks,
         \/ AI!Accept(t, TRUE) \/ AI!Tell(t) \/ AI!Settle(t)
         \/ \E v \in Verdicts : AI!Decide(t, v)
         \/ UNCHANGED service
  PROVE  AI!TypeOK' /\ (\A f \in Tasks : AnswerOK(f))'
<1> USE DEF AI!TypeOK, AI!Phases, AnswerOK
<1>1. CASE AI!Accept(t, TRUE)
  BY <1>1 DEF AI!Accept
<1>2. CASE AI!Tell(t)
  BY <1>2 DEF AI!Tell
<1>3. CASE AI!Settle(t)
  BY <1>3 DEF AI!Settle
<1>4. CASE \E v \in Verdicts : AI!Decide(t, v)
  BY <1>4 DEF AI!Decide
<1>5. CASE UNCHANGED service
  BY <1>5 DEF service
<1> QED
  BY <1>1, <1>2, <1>3, <1>4, <1>5

\* What a task of the service may undergo
Does(t) == \/ AI!Accept(t, TRUE) \/ AI!Tell(t) \/ AI!Settle(t)
           \/ \E v \in Verdicts : AI!Decide(t, v)

LEMMA ServiceSteps ==
  ASSUME [Next]_vars
  PROVE  UNCHANGED service \/ \E t \in Tasks : Does(t)
<1> USE DEF Does
<1>1. ASSUME NEW t \in Tasks
      PROVE  /\ Request(t) \/ Bind(t) \/ Mark(t) \/ Abort(t) => UNCHANGED service
             /\ SweepBegin(t) \/ SweepEnd(t) => UNCHANGED service
             /\ SubmitOk(t) \/ SubmitFails(t) => Does(t) \/ UNCHANGED service
             /\ Callback(t) \/ CallbackIgnored(t) => Does(t) \/ UNCHANGED service
  <2>1. Request(t) \/ Bind(t) \/ Mark(t) \/ Abort(t) => UNCHANGED service
    BY Zenon DEF Request, Bind, Mark, Abort
  <2>2. SweepBegin(t) \/ SweepEnd(t) => UNCHANGED service
    BY Zenon DEF SweepBegin, SweepEnd
  <2>3. SubmitOk(t) \/ SubmitFails(t) => Does(t) \/ UNCHANGED service
    BY Zenon DEF SubmitOk, SubmitFails
  <2>4. Callback(t) \/ CallbackIgnored(t) => Does(t) \/ UNCHANGED service
    BY Zenon DEF Callback, CallbackIgnored, Hear
  <2> QED
    BY <2>1, <2>2, <2>3, <2>4
<1>2. ASSUME NEW f \in Files PROVE Upload(f) => UNCHANGED service
  BY DEF Upload
<1>3. View \/ Confirm \/ OutlineBegin \/ OutlineEnd \/ UNCHANGED vars => UNCHANGED service
  BY Zenon DEF View, Confirm, OutlineBegin, OutlineEnd, vars
<1>4. Service => \E t \in Tasks : Does(t)
  BY Zenon DEF Service
<1> QED
  BY <1>1, <1>2, <1>3, <1>4, Zenon DEF Next, GoOn

LEMMA StepService ==
  ASSUME IInv, [Next]_vars
  PROVE  AI!TypeOK' /\ (\A t \in Tasks : AnswerOK(t))'
<1>5. UNCHANGED service \/ \E t \in Tasks : Does(t)
  BY ServiceSteps
<1>6. AI!TypeOK /\ \A t \in Tasks : AnswerOK(t)
  BY Parts
<1>7. CASE UNCHANGED service
  BY <1>6, <1>7 DEF service, AI!TypeOK, AnswerOK
<1>8. CASE \E t \in Tasks : Does(t)
  <2>1. PICK t \in Tasks : Does(t)
    BY <1>8
  <2> QED
    BY <1>6, <2>1, ServiceStep DEF Does
<1> QED
  BY <1>5, <1>7, <1>8

-----------------------------------------------------------------------------
\* The row, the gates and the reviewer.  Only a confirmation passes the gate,
\* and what it confirms is on the screen.
LEMMA StepRow == IInv /\ [Next]_vars => RowTyped' /\ RowOK'
<1> SUFFICES ASSUME IInv, [Next]_vars PROVE RowTyped' /\ RowOK'
  OBVIOUS
<1>0. RowTyped /\ RowOK /\ \A t \in Tasks : AnswerOK(t)
  BY Parts
<1> USE <1>0, Zero DEF RowTyped, RowOK, FreshWasViewed, PassedWasReviewed, StatusMatchesGate,
        PlanWasReviewed, RowBecomes, StatusBecomes, review, outline
<1>1. CASE UNCHANGED <<row, interpret, review, outline>>
  BY <1>1 DEF row
<1>2. ASSUME NEW f \in Files, Upload(f) PROVE RowTyped' /\ RowOK'
  BY <1>2 DEF Upload
<1>3. ASSUME NEW t \in Tasks, Request(t) PROVE RowTyped' /\ RowOK'
  BY <1>3 DEF Request
<1>4. ASSUME NEW t \in Tasks, Bind(t) PROVE RowTyped' /\ RowOK'
  BY <1>4 DEF Bind
<1>5. ASSUME NEW t \in Tasks, Mark(t) PROVE RowTyped' /\ RowOK'
  BY <1>5 DEF Mark
<1>6. ASSUME NEW t \in Tasks, Callback(t) PROVE RowTyped' /\ RowOK'
  <2>1. CASE answer[t] = "done" /\ RowBecomes("ready", file, t)
    BY <1>6, <2>1 DEF Callback, ReviewAsks
  <2>2. CASE answer[t] = "failed" /\ StatusBecomes("failed")
    BY <1>6, <2>2 DEF Callback, ReviewAsks
  <2> QED
    BY <1>6, <2>1, <2>2 DEF Callback
<1>7. ASSUME NEW t \in Tasks, SweepEnd(t) PROVE RowTyped' /\ RowOK'
  BY <1>7 DEF SweepEnd, row
<1>8. CASE View
  BY <1>8 DEF View
<1>9. CASE Confirm
  BY <1>9 DEF Confirm, Confirmable
<1>10. CASE OutlineBegin
  BY <1>10 DEF OutlineBegin, OutlineAllowed, row
<1>11. CASE OutlineEnd
  BY <1>11 DEF OutlineEnd, row
<1>12. \/ UNCHANGED <<row, interpret, review, outline>>
       \/ \E f \in Files : Upload(f)
       \/ \E t \in Tasks : Request(t) \/ Bind(t) \/ Mark(t) \/ Callback(t) \/ SweepEnd(t)
       \/ View \/ Confirm \/ OutlineBegin \/ OutlineEnd
  BY Zenon DEF Next, GoOn, SubmitOk, SubmitFails, Abort, CallbackIgnored, SweepBegin, Service, vars
<1> QED
  BY <1>1, <1>2, <1>3, <1>4, <1>5, <1>6, <1>7, <1>8, <1>9, <1>10, <1>11, <1>12

\* The tasks and the sweeper.
TasksOK == TasksTyped /\ CommittedFirst /\ SnapshotCurrent

LEMMA StepTasks == IInv /\ [Next]_vars => TasksOK'
<1> SUFFICES ASSUME IInv, [Next]_vars PROVE TasksOK'
  OBVIOUS
<1>0. /\ TasksOK
      /\ \A t \in Tasks : AnswerOK(t)
      /\ file \in Files \union {NoFile}
  BY Parts DEF RowTyped, TasksOK
<1> USE <1>0, Zero DEF TasksOK, TasksTyped, CommittedFirst, SnapshotCurrent, Exists, Goto, sweep
<1>1. CASE UNCHANGED <<tasks, sweep>>
  BY <1>1 DEF tasks
<1>2. ASSUME NEW t \in Tasks, Request(t) PROVE TasksOK'
  BY <1>2 DEF Request
<1>3. ASSUME NEW t \in Tasks, SubmitOk(t) \/ SubmitFails(t) PROVE TasksOK'
  BY <1>3 DEF SubmitOk, SubmitFails
<1>4. ASSUME NEW t \in Tasks, Bind(t) \/ Mark(t) PROVE TasksOK'
  BY <1>4 DEF Bind, Mark
<1>5. ASSUME NEW t \in Tasks, Abort(t) PROVE TasksOK'
  <2>1. aborts' \in 0..MaxAborts
    BY <1>5, SMT DEF Abort
  <2> QED
    BY <1>5, <2>1 DEF Abort
<1>6. ASSUME NEW t \in Tasks, Callback(t) PROVE TasksOK'
  <2>1. answer[t] \in {"done", "failed"}
    BY <1>6 DEF Callback, AnswerOK, Verdicts
  <2> QED
    BY <1>6, <2>1 DEF Callback, Open
<1>7. ASSUME NEW t \in Tasks, SweepBegin(t) PROVE TasksOK'
  BY <1>7 DEF SweepBegin, Open, tasks
<1>8. ASSUME NEW t \in Tasks, SweepEnd(t) PROVE TasksOK'
  BY <1>8 DEF SweepEnd
<1>9. \/ UNCHANGED <<tasks, sweep>>
      \/ \E t \in Tasks :
            \/ Request(t) \/ SubmitOk(t) \/ SubmitFails(t) \/ Bind(t) \/ Mark(t)
            \/ Abort(t) \/ Callback(t) \/ SweepBegin(t) \/ SweepEnd(t)
  BY Zenon DEF Next, GoOn, Upload, CallbackIgnored, View, Confirm, OutlineBegin, OutlineEnd,
      Service, vars
<1> QED
  BY <1>1, <1>2, <1>3, <1>4, <1>5, <1>6, <1>7, <1>8, <1>9

LEMMA StepIInv == IInv /\ [Next]_vars => IInv'
<1> SUFFICES ASSUME IInv, [Next]_vars PROVE IInv'
  OBVIOUS
<1>1. RowTyped' /\ RowOK'
  BY StepRow
<1>2. TasksTyped' /\ CommittedFirst' /\ SnapshotCurrent'
  BY StepTasks DEF TasksOK
<1> QED
  BY <1>1, <1>2, StepService, Parts

\* The invariant holds in every reachable state.
THEOREM ParseInvariance == Spec => []IInv
  BY InitIInv, StepIInv, PTL DEF Spec

\* Every variable of the model stays in its range.
THEOREM ParseTypeCorrectness == Spec => []TypeOK
<1>1. IInv => TypeOK
  BY DEF IInv
<1> QED
  BY <1>1, ParseInvariance, PTL

\* While the interpret gate is passed, the row holds what a reviewer saw and
\* confirmed, however uploads, answers, expiries and requests interleave.
THEOREM PassedGateWasReviewed == Spec => []PassedWasReviewed
<1>1. IInv => PassedWasReviewed
  BY DEF IInv
<1> QED
  BY <1>1, ParseInvariance, PTL

\* The status of the row and the gate agree on what can be confirmed.
THEOREM StatusAndGateAgree == Spec => []StatusMatchesGate
<1>1. IInv => StatusMatchesGate
  BY DEF IInv
<1> QED
  BY <1>1, ParseInvariance, PTL

\* Every outline is made from a confirmed result, even if the result is
\* replaced while the outline is drawn up.
THEOREM OutlinesWereReviewed == Spec => []PlanWasReviewed
<1>1. IInv => PlanWasReviewed
  BY DEF IInv
<1> QED
  BY <1>1, ParseInvariance, PTL

-----------------------------------------------------------------------------
IgnoresLate == \A t \in Tasks : content' = t /\ content # t => task[t] = "queued"

\* Only a callback brings a new answer, and only while its task is open.
LEMMA StepIgnoresLate == IInv /\ [Next]_vars => IgnoresLate
<1> SUFFICES ASSUME IInv, [Next]_vars PROVE IgnoresLate
  OBVIOUS
<1>0. FreshWasViewed
  BY DEF IInv
<1> USE <1>0, Zero DEF IgnoresLate, FreshWasViewed, RowBecomes, StatusBecomes
<1>1. CASE content' = content \/ content' = Blank
  BY <1>1
<1>2. CASE Confirm
  BY <1>2 DEF Confirm, Confirmable
<1>3. ASSUME NEW t \in Tasks, Callback(t) PROVE IgnoresLate
  BY <1>3 DEF Callback, Open
<1>4. ASSUME NEW t \in Tasks
      PROVE  Request(t) \/ Bind(t) \/ Mark(t) \/ SweepEnd(t) => content' = content \/ content' = Blank
  BY DEF Request, Bind, Mark, SweepEnd, row
<1>5. ASSUME NEW f \in Files PROVE Upload(f) => content' = Blank
  BY DEF Upload
<1>6. \/ content' = content
      \/ \E f \in Files : Upload(f)
      \/ \E t \in Tasks : Request(t) \/ Bind(t) \/ Mark(t) \/ SweepEnd(t) \/ Callback(t)
      \/ Confirm
  BY Zenon DEF Next, GoOn, SubmitOk, SubmitFails, Abort, CallbackIgnored, SweepBegin, View,
      OutlineBegin, OutlineEnd, Service, vars, row
<1> QED
  BY <1>1, <1>2, <1>3, <1>4, <1>5, <1>6

\* An answer whose task was expired, marked failed or applied before never
\* reaches the row.
THEOREM LateAnswersAreIgnored == Spec => LateAnswerIgnored
<1>1. IInv /\ [Next]_vars => [IgnoresLate]_vars
  BY StepIgnoresLate
<1> QED
  BY <1>1, ParseInvariance, PTL DEF Spec, LateAnswerIgnored, IgnoresLate

SparesNewer == \A t \in Tasks : sweeping = t /\ sweeping' = Blank =>
    UNCHANGED row \/ \A u \in Tasks : Exists(u) => u <= t

LEMMA StepSparesNewer ==
  ASSUME OldSnapshot = FALSE, IInv, [Next]_vars
  PROVE  SparesNewer
<1>1. SnapshotCurrent
  BY DEF IInv
<1>2. ASSUME NEW t \in Tasks, sweeping = t, sweeping' = Blank
      PROVE  UNCHANGED row \/ \A u \in Tasks : Exists(u) => u <= t
  <2>1. PICK s \in Tasks : SweepEnd(s)
    <3>1. sweeping' # sweeping
      BY <1>2, Zero
    <3>2. ~(\E s \in Tasks : SweepBegin(s))
      BY <1>2, Zero DEF SweepBegin
    <3> QED
      BY <3>1, <3>2, Zenon DEF Next, GoOn, Upload, Request, SubmitOk, SubmitFails, Bind, Mark, Abort,
          Callback, CallbackIgnored, View, Confirm, OutlineBegin, OutlineEnd, Service, vars, sweep
  <2>2. s = t
    BY <1>2, <2>1 DEF SweepEnd
  <2>3. CASE ExpiresRow(t)
    BY <1>1, <1>2, <2>3, Zero DEF ExpiresRow, SnapshotCurrent
  <2>4. CASE ~ExpiresRow(t)
    BY <2>1, <2>2, <2>4 DEF SweepEnd
  <2> QED
    BY <2>3, <2>4
<1> QED
  BY <1>2 DEF SparesNewer

\* If no parse is requested while the sweeper's UPDATE waits for the row, an
\* expired task never touches the row of a newer one.
THEOREM NewerRequestsAreSpared ==
  ASSUME OldSnapshot = FALSE
  PROVE  Spec => SweepSparesNewer
<1>1. IInv /\ [Next]_vars => [SparesNewer]_vars
  BY StepSparesNewer
<1> QED
  BY <1>1, ParseInvariance, PTL DEF Spec, SweepSparesNewer, SparesNewer

-----------------------------------------------------------------------------
\* Of the AI service the backend takes for granted only what CallbackOutbox
\* promises of it: in the eyes of its tasks, every submission of a parse,
\* every callback and every step of the service is a step of the outbox.
THEOREM ParsesUseOutbox == Spec => AI!Spec
<1>1. Init => AI!Init
  BY DEF Init
<1>2. [Next]_vars => [AI!Next]_(AI!vars)
  <2> SUFFICES ASSUME [Next]_vars PROVE UNCHANGED service \/ AI!Next
    BY DEF service, AI!vars
  <2> QED
    BY ServiceSteps, Zenon DEF Does, AI!Next
<1> QED
  BY <1>1, <1>2, PTL DEF Spec, AI!Spec
=============================================================================
