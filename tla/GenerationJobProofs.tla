------------------------- MODULE GenerationJobProofs -------------------------
(***************************************************************************)
(* Proofs about GenerationJob for any number of steps, tasks, concurrent   *)
(* requests and interruptions, with lost answers and with requests that    *)
(* overlap or not.  IInv is inductive; StepFollowsTask is one of its       *)
(* conjuncts, AppliedOnce follows from another.  TurnIInv strengthens it   *)
(* for requests that take turns: what a request has read is still so when  *)
(* it commits, from which the rest of what is checked of a job follows.    *)
(***************************************************************************)
EXTENDS GenerationJob, TLAPS

USE StepsAssumption, NoTaskAssumption, HandlerAssumption, AbortsAssumption,
    ModeAssumption

LEMMA InitIInv == Init => IInv
<1> SUFFICES ASSUME Init PROVE IInv
  OBVIOUS
<1>1. TypeOK
  BY SMT DEF Init, TypeOK, AI!Init, AI!TypeOK, AI!Phases, JobStatus, StepStatus, TaskStatus,
      Chapter, Gate, Places, Summary, Nothing, Steps, Verdicts, NoAnswer
<1>2. StepFollowsTask /\ \A s \in Steps : LinkOK(s)
  BY DEF Init, StepFollowsTask, LinkOK
<1>3. \A t \in Tasks : TaskOK(t)
  BY SMT DEF Init, TaskOK, AI!Init
<1>4. \A g \in Handlers : at[g] \in {"check", "idle"} /\ chosen[g] = 0
  BY DEF Init
<1> QED
  BY <1>1, <1>2, <1>3, <1>4 DEF IInv, HandlerOK, Apart, Holding

-----------------------------------------------------------------------------
\* A refresh computes a summary whatever steps it counts.
LEMMA RefreshType ==
  ASSUME NEW current \in JobStatus, NEW st
  PROVE  Refresh(current, st) \in Summary
<1>1. NextStatus(current, st) \in JobStatus
  BY DEF NextStatus, JobStatus
<1>2. GateFor(NextStatus(current, st), st) \in Gate
  BY DEF GateFor, Gate
<1>3. ShouldDispatch(current, st) \in BOOLEAN
  BY DEF ShouldDispatch
<1> QED
  BY <1>1, <1>2, <1>3 DEF Refresh, Summary

LEMMA NothingType == Nothing \in Summary
  BY DEF Nothing, Summary, JobStatus, Gate

\* Leaving keeps the handlers' variables in their ranges.
LEMMA LeaveType ==
  ASSUME TypeOK, NEW g \in Handlers, Leave(g)
  PROVE  /\ at' \in [Handlers -> Places]
         /\ mine' \in [Handlers -> Tasks \union {NoTask}]
         /\ chosen' \in [Handlers -> Steps \union {0}]
         /\ seen' \in [Handlers -> Summary]
         /\ write' \in [Handlers -> BOOLEAN]
         /\ jobLock' \in Handlers \union {NoHandler}
  BY NothingType DEF Leave, TypeOK, Places

HandlersTyped ==
    /\ at \in [Handlers -> Places]
    /\ mine \in [Handlers -> Tasks \union {NoTask}]
    /\ chosen \in [Handlers -> Steps \union {0}]
    /\ seen \in [Handlers -> Summary]
    /\ write \in [Handlers -> BOOLEAN]
    /\ jobLock \in Handlers \union {NoHandler}

TablesTyped ==
    /\ job \in JobStatus
    /\ step \in [Steps -> StepStatus]
    /\ link \in [Steps -> Tasks \union {NoTask}]
    /\ task \in [Tasks -> TaskStatus]
    /\ about \in [Tasks -> Steps \union {0}]
    /\ elder \in [Tasks -> SUBSET Tasks]
    /\ chapter \in [Steps -> Chapter]
    /\ gate \in Gate
    /\ applied \in [Tasks -> Nat]

LEMMA TypeParts ==
  /\ TypeOK => HandlersTyped /\ TablesTyped /\ aborts \in 0..MaxAborts /\ AI!TypeOK
  /\ HandlersTyped' /\ TablesTyped' /\ (aborts \in 0..MaxAborts)' /\ AI!TypeOK' => TypeOK'
<1>1. TypeOK => HandlersTyped /\ TablesTyped /\ aborts \in 0..MaxAborts /\ AI!TypeOK
  BY Zenon DEF TypeOK, HandlersTyped, TablesTyped
<1>2. HandlersTyped' /\ TablesTyped' /\ (aborts \in 0..MaxAborts)' /\ AI!TypeOK' => TypeOK'
  BY Zenon DEF TypeOK, HandlersTyped, TablesTyped
<1> QED
  BY <1>1, <1>2

\* The service keeps its own types.
LEMMA ServiceType ==
  ASSUME AI!TypeOK, NEW t \in Tasks, TaskOK(t),
         \/ AI!Accept(t, TRUE) \/ AI!Tell(t) \/ AI!Settle(t)
         \/ \E v \in Verdicts : AI!Decide(t, v)
         \/ UNCHANGED service
  PROVE  AI!TypeOK'
<1> USE DEF AI!TypeOK, AI!Phases
<1>1. CASE AI!Accept(t, TRUE)
  BY <1>1 DEF AI!Accept
<1>2. CASE AI!Tell(t)
  <2>1. answer[t] \in Verdicts
    BY <1>2 DEF TaskOK, AI!Tell
  <2> QED
    BY <1>2, <2>1 DEF AI!Tell
<1>3. CASE AI!Settle(t)
  BY <1>3 DEF AI!Settle
<1>4. CASE \E v \in Verdicts : AI!Decide(t, v)
  BY <1>4 DEF AI!Decide
<1>5. CASE UNCHANGED service
  BY <1>5 DEF service
<1> QED
  BY <1>1, <1>2, <1>3, <1>4, <1>5

\* Types: every step keeps every variable in its range.
LEMMA StepTypeOK == IInv /\ [Next]_vars => TypeOK'
<1> SUFFICES ASSUME IInv, [Next]_vars PROVE TypeOK'
  OBVIOUS
<1>0. TypeOK /\ HandlersTyped /\ TablesTyped /\ aborts \in 0..MaxAborts /\ AI!TypeOK
  BY TypeParts DEF IInv
<1>p. /\ (UNCHANGED tables => TablesTyped')
      /\ (UNCHANGED requests => HandlersTyped')
      /\ (UNCHANGED service => AI!TypeOK')
      /\ (UNCHANGED aborts => (aborts \in 0..MaxAborts)')
  <2>1. UNCHANGED tables => TablesTyped'
    BY <1>0 DEF TablesTyped, tables
  <2>2. UNCHANGED requests => HandlersTyped'
    BY <1>0 DEF HandlersTyped, requests
  <2>3. UNCHANGED service => AI!TypeOK'
    BY <1>0 DEF AI!TypeOK, service
  <2> QED
    BY <1>0, <2>1, <2>2, <2>3
<1>t. \A t \in Tasks : TaskOK(t)
  BY DEF IInv
<1>l. ASSUME NEW g \in Handlers, Leave(g) PROVE HandlersTyped'
  BY <1>0, <1>l, LeaveType DEF HandlersTyped
<1>w. ASSUME NEW g \in Handlers PROVE seen[g].next \in JobStatus /\ seen[g].gate \in Gate
  BY <1>0 DEF HandlersTyped, Summary
<1>1. ASSUME NEW g \in Handlers, Dispatch(g) PROVE TypeOK'
  <2>1. CASE Check(g)
    <3>1. TablesTyped'
      BY <1>0, <1>p, <2>1 DEF Check, TablesTyped, tables, JobStatus
    <3>2. HandlersTyped'
      BY <1>0, <1>l, <2>1 DEF Check, Goto, HandlersTyped, Places
    <3> QED
      BY <1>p, <2>1, <3>1, <3>2, TypeParts DEF Check
  <2>2. CASE Pick(g)
    <3>1. JobSeenBy(g) \in JobStatus
      BY <1>0 DEF JobSeenBy, TablesTyped, JobStatus
    <3>2. Refresh(JobSeenBy(g), step) \in Summary
      BY <3>1, RefreshType
    <3>3. HandlersTyped'
      BY <1>0, <2>2, <3>2 DEF Pick, Goto, HandlersTyped, Places
    <3> QED
      BY <1>p, <2>2, <3>3, TypeParts DEF Pick
  <2>3. ASSUME NEW t \in Tasks, Write(g, t) PROVE TypeOK'
    <3>1. JobSeenBy(g) \in JobStatus
      BY <1>0 DEF JobSeenBy, TablesTyped, JobStatus
    <3>2. Refresh(JobSeenBy(g), [step EXCEPT ![chosen[g]] = "running"]) \in Summary
      BY <3>1, RefreshType
    <3>3. HandlersTyped'
      BY <1>0, <2>3, <3>2 DEF Write, Goto, HandlersTyped, Places
    <3> QED
      BY <1>p, <2>3, <3>3, TypeParts DEF Write
  <2>4. CASE DispatchCommit(g)
    <3>1. mine[g] \in Tasks /\ chosen[g] \in Steps
      BY <2>4 DEF IInv, HandlerOK, DispatchCommit, Holding
    <3>2. TablesTyped'
      BY <1>0, <1>w, <2>4, <3>1, SMT
         DEF DispatchCommit, WriteBack, TablesTyped, TaskStatus, StepStatus, Chapter
    <3>3. HandlersTyped'
      BY <1>0, <2>4 DEF DispatchCommit, Goto, HandlersTyped, Places
    <3> QED
      BY <1>p, <2>4, <3>2, <3>3, TypeParts DEF DispatchCommit
  <2>5. CASE RefreshCommit(g)
    <3>1. TablesTyped'
      BY <1>0, <1>w, <2>5 DEF RefreshCommit, WriteBack, TablesTyped
    <3> QED
      BY <1>p, <1>l, <2>5, <3>1, TypeParts DEF RefreshCommit
  <2> QED
    BY <1>1, <2>1, <2>2, <2>3, <2>4, <2>5 DEF Dispatch
<1>2. ASSUME NEW g \in Handlers, Submit(g) PROVE TypeOK'
  <2>h. at[g] \in {"submit", "mark", "marking"} => mine[g] \in Tasks /\ chosen[g] \in Steps
    BY DEF IInv, HandlerOK, Holding
  <2>1. CASE SubmitOk(g)
    <3>1. AI!TypeOK'
      BY <1>0, <1>t, <2>1, <2>h, ServiceType DEF SubmitOk
    <3> QED
      BY <1>p, <1>l, <2>1, <3>1, TypeParts DEF SubmitOk
  <2>2. CASE SubmitFails(g)
    <3>1. AI!TypeOK'
      BY <1>0, <1>t, <2>2, <2>h, ServiceType DEF SubmitFails
    <3>2. HandlersTyped'
      BY <1>0, <2>2 DEF SubmitFails, Goto, HandlersTyped, Places
    <3> QED
      BY <1>p, <2>2, <3>1, <3>2, TypeParts DEF SubmitFails
  <2>3. CASE Mark(g)
    <3>1. Refresh(job, [step EXCEPT ![chosen[g]] = "failed"]) \in Summary
      BY <1>0, RefreshType DEF TablesTyped
    <3>2. HandlersTyped'
      BY <1>0, <2>3, <3>1 DEF Mark, Goto, HandlersTyped, Places
    <3> QED
      BY <1>p, <2>3, <3>2, TypeParts DEF Mark
  <2>4. CASE MarkCommit(g)
    <3>1. TablesTyped'
      BY <1>0, <1>w, <2>4, <2>h, SMT
         DEF MarkCommit, WriteBack, TablesTyped, TaskStatus, StepStatus, Chapter
    <3> QED
      BY <1>p, <1>l, <2>4, <3>1, TypeParts DEF MarkCommit
  <2> QED
    BY <1>2, <2>1, <2>2, <2>3, <2>4 DEF Submit
<1>3. ASSUME NEW g \in Handlers, NEW t \in Tasks, Callback(g, t) PROVE TypeOK'
  <2>1. \A s \in Steps : Refresh(job, [step EXCEPT ![s] = answer[t]]) \in Summary
    BY <1>0, RefreshType DEF TablesTyped
  <2>2. SideEffects(t) \in BOOLEAN
    BY DEF SideEffects
  <2>3. HandlersTyped'
    <3>1. write' \in [Handlers -> BOOLEAN]
      BY <1>0, <1>3, <2>2, Zenon DEF Callback, HandlersTyped
    <3>2. /\ at' \in [Handlers -> Places]
          /\ mine' \in [Handlers -> Tasks \union {NoTask}]
          /\ jobLock' \in Handlers \union {NoHandler}
      BY <1>0, <1>3 DEF Callback, Goto, HandlersTyped, Places
    <3>3. chosen' \in [Handlers -> Steps \union {0}] /\ seen' \in [Handlers -> Summary]
      <4>1. CASE UNCHANGED <<chosen, seen>>
        BY <1>0, <4>1 DEF HandlersTyped
      <4>2. ASSUME NEW s \in Steps,
                   chosen' = [chosen EXCEPT ![g] = s],
                   seen' = [seen EXCEPT ![g] = Refresh(job, [step EXCEPT ![s] = answer[t]])]
            PROVE  chosen' \in [Handlers -> Steps \union {0}] /\ seen' \in [Handlers -> Summary]
        BY <1>0, <2>1, <4>2 DEF HandlersTyped
      <4> QED
        BY <1>3, <4>1, <4>2, Zenon DEF Callback, StepsOf
    <3> QED
      BY <3>1, <3>2, <3>3, Zenon DEF HandlersTyped
  <2> QED
    BY <1>p, <1>3, <2>3, TypeParts DEF Callback
<1>4. ASSUME NEW g \in Handlers, CallbackCommit(g) PROVE TypeOK'
  <2>1. /\ mine[g] \in Tasks
        /\ answer[mine[g]] \in Verdicts
    BY <1>4 DEF IInv, HandlerOK, CallbackCommit, Holding
  <2>2. AI!TypeOK'
    <3>1. Hear(mine[g])
      BY <1>4 DEF CallbackCommit
    <3>2. AI!Tell(mine[g]) \/ UNCHANGED service
      BY <3>1 DEF Hear
    <3>3. TaskOK(mine[g])
      BY <1>t, <2>1
    <3> QED
      BY <1>0, <2>1, <3>2, <3>3, ServiceType
  <2>3. HandlersTyped'
    <3>1. CASE Leave(g)
      BY <1>l, <3>1
    <3>2. CASE ~Leave(g)
      <4>1. /\ Goto(g, "check")
            /\ mine' = [mine EXCEPT ![g] = NoTask]
            /\ chosen' = [chosen EXCEPT ![g] = 0]
            /\ seen' = [seen EXCEPT ![g] = Nothing]
            /\ write' = [write EXCEPT ![g] = FALSE]
            /\ UNCHANGED jobLock
        BY <1>4, <3>2, Zenon DEF CallbackCommit
      <4>2. write' \in [Handlers -> BOOLEAN]
        BY <1>0, <4>1, Zenon DEF HandlersTyped
      <4> QED
        BY <1>0, <4>1, <4>2, NothingType DEF Goto, HandlersTyped, Places
    <3> QED
      BY <3>1, <3>2
  <2>4. /\ job' \in JobStatus
        /\ gate' \in Gate
        /\ step' \in [Steps -> StepStatus]
    BY <1>0, <1>w, <1>4, <2>1 DEF CallbackCommit, WriteBack, TablesTyped, StepStatus, Verdicts
  <2>5. /\ task' \in [Tasks -> TaskStatus]
        /\ applied' \in [Tasks -> Nat]
    BY <1>0, <1>4, <2>1, SMT DEF CallbackCommit, TablesTyped, TaskStatus, Verdicts
  <2>6. chapter' \in [Steps -> Chapter]
    <3>1. Written(answer[mine[g]]) \in Chapter
      BY DEF Written, Chapter
    <3> QED
      BY <1>0, <1>4, <3>1 DEF CallbackCommit, TablesTyped
  <2>7. TablesTyped'
    BY <1>0, <1>4, <2>4, <2>5, <2>6 DEF CallbackCommit, TablesTyped
  <2> QED
    BY <1>p, <1>4, <2>2, <2>3, <2>7, TypeParts DEF CallbackCommit
<1>5. ASSUME NEW g \in Handlers, Resume(g) PROVE TypeOK'
  <2>1. TablesTyped'
    BY <1>0, <1>5 DEF Resume, TablesTyped, JobStatus
  <2>2. HandlersTyped'
    BY <1>0, <1>5 DEF Resume, Goto, HandlersTyped, Places
  <2> QED
    BY <1>p, <1>5, <2>1, <2>2, TypeParts DEF Resume
<1>6. ASSUME NEW g \in Handlers, Abort(g) PROVE TypeOK'
  <2>1. (aborts \in 0..MaxAborts)'
    BY <1>0, <1>6, SMT DEF Abort
  <2> QED
    BY <1>p, <1>l, <1>6, <2>1, TypeParts DEF Abort
<1>7. ASSUME NEW t \in Tasks, CallbackIgnored(t) PROVE TypeOK'
  <2>1. AI!TypeOK'
    BY <1>0, <1>t, <1>7, ServiceType DEF CallbackIgnored, Hear
  <2> QED
    BY <1>p, <1>7, <2>1, TypeParts DEF CallbackIgnored
<1>8. CASE Pause
  <2>1. TablesTyped'
    BY <1>0, <1>8 DEF Pause, TablesTyped, JobStatus
  <2> QED
    BY <1>p, <1>8, <2>1, TypeParts DEF Pause
<1>9. CASE Cancel
  <2> DEFINE status == IF job \in {"queued", "running", "paused"} THEN "cancelled" ELSE job
             st == [s \in Steps |-> IF step[s] = "queued" THEN "cancelled" ELSE step[s]]
  <2>1. status \in JobStatus
    BY <1>0 DEF TablesTyped, JobStatus
  <2>2. Refresh(status, st) \in Summary
    BY <2>1, RefreshType
  <2>3. NextStatus(status, st) \in JobStatus /\ GateFor(NextStatus(status, st), st) \in Gate
    BY <2>2 DEF Refresh, Summary
  <2>4. st \in [Steps -> StepStatus]
    BY <1>0 DEF TablesTyped, StepStatus
  <2>5. TablesTyped'
    BY <1>0, <1>9, <2>3, <2>4 DEF Cancel, TablesTyped
  <2> QED
    BY <1>p, <1>9, <2>5, TypeParts DEF Cancel
<1>10. ASSUME NEW old \in SUBSET Tasks, Sweep(old) PROVE TypeOK'
  <2>1. TablesTyped'
    BY <1>0, <1>10 DEF Sweep, TablesTyped, TaskStatus, StepStatus, Chapter, JobStatus
  <2> QED
    BY <1>p, <1>10, <2>1, TypeParts DEF Sweep
<1>11. CASE Service
  <2>1. AI!TypeOK'
    BY <1>0, <1>t, <1>11, ServiceType DEF Service
  <2> QED
    BY <1>p, <1>11, <2>1, TypeParts DEF Service
<1>12. CASE UNCHANGED vars
  BY <1>p, <1>12, TypeParts DEF vars
<1> QED
  BY <1>1, <1>2, <1>3, <1>4, <1>5, <1>6, <1>7, <1>8, <1>9, <1>10, <1>11, <1>12 DEF Next

-----------------------------------------------------------------------------
\* Which steps touch the step and task rows at all.
LEMMA RowSteps ==
  ASSUME [Next]_vars
  PROVE  \/ UNCHANGED <<step, link, task, about, applied>>
         \/ \E g \in Handlers : DispatchCommit(g) \/ MarkCommit(g) \/ CallbackCommit(g)
         \/ Cancel
         \/ \E old \in SUBSET Tasks : Sweep(old)
<1> DEFINE Same == UNCHANGED <<step, link, task, about, applied>>
<1> USE DEF tables
<1>1. ASSUME NEW g \in Handlers PROVE Check(g) \/ Pick(g) \/ RefreshCommit(g) => Same
  BY DEF Check, Pick, RefreshCommit
<1>2. ASSUME NEW g \in Handlers PROVE SubmitOk(g) \/ SubmitFails(g) \/ Mark(g) => Same
  BY DEF SubmitOk, SubmitFails, Mark
<1>3. ASSUME NEW g \in Handlers, NEW t \in Tasks
      PROVE  Write(g, t) \/ Callback(g, t) \/ CallbackIgnored(t) => Same
  BY DEF Write, Callback, CallbackIgnored
<1>4. ASSUME NEW g \in Handlers PROVE Resume(g) \/ Abort(g) => Same
  BY DEF Resume, Abort
<1>5. Pause \/ Service \/ UNCHANGED vars => Same
  BY DEF Pause, Service, vars
<1>6. ASSUME NEW t \in Tasks PROVE CallbackIgnored(t) => Same
  BY DEF CallbackIgnored
<1> QED
  BY <1>1, <1>2, <1>3, <1>4, <1>5, <1>6 DEF Next, Dispatch, Submit

\* What the service does to one step's worth of answers: a verdict that is
\* there stays, and a decided task has one.
LEMMA AnswerStep ==
  ASSUME IInv, [Next]_vars, NEW t \in Tasks
  PROVE  /\ answer[t] \in Verdicts => answer'[t] \in Verdicts
         /\ phase'[t] = "decided" => answer'[t] \in Verdicts
<1>0. AI!TypeOK /\ TaskOK(t)
  BY DEF IInv, TypeOK
<1>1. \/ UNCHANGED service
      \/ \E u \in Tasks : \/ AI!Accept(u, TRUE) \/ AI!Tell(u) \/ AI!Settle(u)
                         \/ \E v \in Verdicts : AI!Decide(u, v)
  <2> DEFINE Any(u) == \/ UNCHANGED service
                       \/ AI!Accept(u, TRUE) \/ AI!Tell(u) \/ AI!Settle(u)
                       \/ \E v \in Verdicts : AI!Decide(u, v)
  <2>1. ASSUME NEW g \in Handlers, NEW u \in Tasks
        PROVE  Check(g) \/ Pick(g) \/ Write(g, u) \/ DispatchCommit(g) \/ RefreshCommit(g)
               \/ Mark(g) \/ MarkCommit(g) \/ Callback(g, u) \/ Resume(g) \/ Abort(g)
               => UNCHANGED service
    BY Zenon DEF Check, Pick, Write, DispatchCommit, RefreshCommit, Mark, MarkCommit, Callback, Resume, Abort
  <2>2. ASSUME NEW g \in Handlers, SubmitOk(g) \/ SubmitFails(g) PROVE Any(mine[g]) /\ mine[g] \in Tasks
    <3>1. mine[g] \in Tasks
      BY <2>2 DEF IInv, HandlerOK, Holding, SubmitOk, SubmitFails
    <3> QED
      BY <2>2, <3>1 DEF SubmitOk, SubmitFails
  <2>3. ASSUME NEW g \in Handlers, CallbackCommit(g) PROVE Any(mine[g]) /\ mine[g] \in Tasks
    <3>1. mine[g] \in Tasks
      BY <2>3 DEF IInv, HandlerOK, Holding, CallbackCommit
    <3> QED
      BY <2>3, <3>1 DEF CallbackCommit, Hear
  <2>4. ASSUME NEW u \in Tasks, CallbackIgnored(u) PROVE Any(u)
    BY <2>4 DEF CallbackIgnored, Hear
  <2>5. ASSUME NEW old \in SUBSET Tasks PROVE Sweep(old) => UNCHANGED service
    BY DEF Sweep
  <2>6. Pause \/ Cancel \/ UNCHANGED vars => UNCHANGED service
    BY Zenon DEF Pause, Cancel, vars
  <2>7. Service => \E u \in Tasks : Any(u)
    BY Zenon DEF Service
  <2> QED
    BY <2>1, <2>2, <2>3, <2>4, <2>5, <2>6, <2>7, Zenon DEF Next, Dispatch, Submit
<1>2. CASE UNCHANGED service
  BY <1>0, <1>2 DEF TaskOK, service
<1>3. ASSUME NEW u \in Tasks, AI!Accept(u, TRUE) PROVE phase'[t] = "decided" => phase[t] = "decided"
  BY <1>0, <1>3 DEF AI!Accept, AI!TypeOK
<1>4. ASSUME NEW u \in Tasks, AI!Tell(u) \/ AI!Settle(u)
      PROVE  phase'[t] = "decided" => phase[t] = "decided"
  BY <1>0, <1>4 DEF AI!Tell, AI!Settle, AI!TypeOK
<1>5. ASSUME NEW u \in Tasks, AI!Accept(u, TRUE) \/ AI!Tell(u) \/ AI!Settle(u)
      PROVE  answer' = answer
  BY <1>5 DEF AI!Accept, AI!Tell, AI!Settle
<1>6. ASSUME NEW u \in Tasks, NEW v \in Verdicts, AI!Decide(u, v)
      PROVE  /\ answer'[t] = IF t = u THEN v ELSE answer[t]
             /\ phase'[t] = IF t = u THEN "decided" ELSE phase[t]
  BY <1>0, <1>6 DEF AI!Decide, AI!TypeOK
<1> QED
  BY <1>0, <1>1, <1>2, <1>3, <1>4, <1>5, <1>6 DEF TaskOK

-----------------------------------------------------------------------------
\* A task row is never taken away, and its chapter never changes.
LEMMA RowStable ==
  ASSUME IInv, [Next]_vars, NEW t \in Tasks, task[t] # "unused"
  PROVE  task'[t] # "unused" /\ about'[t] = about[t]
<1>0. TablesTyped
  BY TypeParts DEF IInv
<1>1. CASE UNCHANGED <<step, link, task, about, applied>>
  BY <1>1
<1>2. ASSUME NEW g \in Handlers, DispatchCommit(g)
      PROVE  task'[t] # "unused" /\ about'[t] = about[t]
  <2>1. mine[g] # t
    BY <1>2 DEF IInv, HandlerOK, DispatchCommit, Holding
  <2> QED
    BY <1>0, <1>2, <2>1 DEF DispatchCommit, TablesTyped
<1>3. ASSUME NEW g \in Handlers, MarkCommit(g)
      PROVE  task'[t] # "unused" /\ about'[t] = about[t]
  BY <1>0, <1>3 DEF MarkCommit, TablesTyped
<1>4. ASSUME NEW g \in Handlers, CallbackCommit(g)
      PROVE  task'[t] # "unused" /\ about'[t] = about[t]
  <2>1. answer[mine[g]] \in Verdicts
    BY <1>4 DEF IInv, HandlerOK, CallbackCommit
  <2> QED
    BY <1>0, <1>4, <2>1 DEF CallbackCommit, TablesTyped, Verdicts
<1>5. CASE Cancel
  BY <1>5 DEF Cancel
<1>6. ASSUME NEW old \in SUBSET Tasks, Sweep(old)
      PROVE  task'[t] # "unused" /\ about'[t] = about[t]
  BY <1>6 DEF Sweep
<1> QED
  BY <1>1, <1>2, <1>3, <1>4, <1>5, <1>6, RowSteps

\* A task row that a transaction holds changes only at that transaction's
\* commit.
LEMMA HeldStable ==
  ASSUME IInv, [Next]_vars, NEW h \in Handlers, at[h] \in Holding, at'[h] = at[h]
  PROVE  task'[mine[h]] = task[mine[h]]
<1>0. TablesTyped /\ HandlersTyped /\ mine[h] \in Tasks
  BY TypeParts DEF IInv, HandlerOK
<1>a. ASSUME NEW g \in Handlers, at[g] \in Holding, at'[g] # at[g] PROVE mine[g] # mine[h]
  BY <1>a DEF IInv, Apart
<1>1. CASE UNCHANGED <<step, link, task, about, applied>>
  BY <1>1
<1>2. ASSUME NEW g \in Handlers, DispatchCommit(g) PROVE task'[mine[h]] = task[mine[h]]
  <2>1. at[g] \in Holding /\ at'[g] # at[g]
    BY <1>0, <1>2 DEF DispatchCommit, Goto, HandlersTyped, Holding
  <2> QED
    BY <1>0, <1>2, <1>a, <2>1 DEF DispatchCommit, TablesTyped
<1>3. ASSUME NEW g \in Handlers, MarkCommit(g) PROVE task'[mine[h]] = task[mine[h]]
  <2>1. at[g] \in Holding /\ at'[g] # at[g]
    BY <1>0, <1>3 DEF MarkCommit, Leave, HandlersTyped, Holding
  <2> QED
    BY <1>0, <1>3, <1>a, <2>1 DEF MarkCommit, TablesTyped
<1>4. ASSUME NEW g \in Handlers, CallbackCommit(g) PROVE task'[mine[h]] = task[mine[h]]
  <2>1. at[g] \in Holding /\ at'[g] # at[g]
    BY <1>0, <1>4 DEF CallbackCommit, Leave, Goto, HandlersTyped, Holding
  <2> QED
    BY <1>0, <1>4, <1>a, <2>1 DEF CallbackCommit, TablesTyped
<1>5. CASE Cancel
  BY <1>5 DEF Cancel
<1>6. ASSUME NEW old \in SUBSET Tasks, Sweep(old) PROVE task'[mine[h]] = task[mine[h]]
  BY <1>0, <1>6 DEF Sweep, TaskFree
<1> QED
  BY <1>1, <1>2, <1>3, <1>4, <1>5, <1>6, RowSteps

\* Steps keep pointing to tasks of their own.
LEMMA StepLinkOK == ASSUME IInv, [Next]_vars, NEW s \in Steps PROVE LinkOK(s)'
<1>0. TablesTyped /\ LinkOK(s)
  BY TypeParts DEF IInv
<1>1. CASE link'[s] = link[s]
  BY <1>0, <1>1, RowStable DEF LinkOK, TablesTyped
<1>2. CASE link'[s] # link[s]
  <2>1. PICK g \in Handlers : DispatchCommit(g)
    BY <1>2, RowSteps DEF MarkCommit, CallbackCommit, Cancel, Sweep
  <2>2. mine[g] \in Tasks /\ chosen[g] = s
    BY <1>0, <1>2, <2>1 DEF DispatchCommit, IInv, HandlerOK, Holding, TablesTyped
  <2> QED
    BY <1>0, <2>1, <2>2 DEF DispatchCommit, LinkOK, TablesTyped
<1> QED
  BY <1>1, <1>2

\* A running step has a live task of its own after every step.
LEMMA StepFollows == ASSUME IInv, [Next]_vars PROVE StepFollowsTask'
<1> SUFFICES ASSUME NEW s \in Steps, step'[s] = "running"
             PROVE  link'[s] # NoTask /\ task'[link'[s]] = "queued" /\ about'[link'[s]] = s
  BY DEF StepFollowsTask
<1> DEFINE Alive == link'[s] # NoTask /\ task'[link'[s]] = "queued" /\ about'[link'[s]] = s
<1>0. TablesTyped /\ LinkOK(s) /\ StepFollowsTask
  BY TypeParts DEF IInv
<1>h. step[s] = "running" =>
        link[s] \in Tasks /\ task[link[s]] = "queued" /\ about[link[s]] = s
  BY <1>0 DEF StepFollowsTask, TablesTyped
<1>1. CASE UNCHANGED <<step, link, task, about, applied>>
  BY <1>1, <1>h, NoTaskAssumption
<1>2. ASSUME NEW g \in Handlers, DispatchCommit(g) PROVE Alive
  <2>1. mine[g] \in Tasks /\ chosen[g] \in Steps /\ task[mine[g]] = "unused"
    BY <1>2 DEF DispatchCommit, IInv, HandlerOK, Holding
  <2>2. CASE s = chosen[g]
    BY <1>0, <1>2, <2>1, <2>2, NoTaskAssumption DEF DispatchCommit, TablesTyped
  <2>3. CASE s # chosen[g]
    BY <1>0, <1>2, <1>h, <2>1, <2>3, NoTaskAssumption DEF DispatchCommit, TablesTyped
  <2> QED
    BY <2>2, <2>3
<1>3. ASSUME NEW g \in Handlers, MarkCommit(g) PROVE Alive
  <2>1. mine[g] \in Tasks /\ chosen[g] \in Steps /\ about[mine[g]] = chosen[g]
    BY <1>3 DEF MarkCommit, IInv, HandlerOK, Holding
  <2>2. s # chosen[g] /\ step[s] = "running"
    BY <1>0, <1>3, <2>1 DEF MarkCommit, TablesTyped
  <2>3. link[s] # mine[g]
    BY <1>h, <2>1, <2>2
  <2> QED
    BY <1>0, <1>3, <1>h, <2>1, <2>2, <2>3, NoTaskAssumption DEF MarkCommit, TablesTyped
<1>4. ASSUME NEW g \in Handlers, CallbackCommit(g) PROVE Alive
  <2>1. /\ mine[g] \in Tasks
        /\ answer[mine[g]] \in Verdicts
        /\ chosen[g] = 0 => link[s] # mine[g]
        /\ chosen[g] # 0 => about[mine[g]] = chosen[g]
    BY <1>4 DEF CallbackCommit, IInv, HandlerOK, Holding
  <2>2. step[s] = "running" /\ link[s] # mine[g]
    <3>1. CASE chosen[g] = 0
      BY <1>4, <2>1, <3>1 DEF CallbackCommit
    <3>2. CASE chosen[g] # 0
      <4>1. step' = [step EXCEPT ![chosen[g]] = answer[mine[g]]]
        BY <1>4, <3>2 DEF CallbackCommit
      <4>2. s # chosen[g]
        BY <1>0, <2>1, <4>1 DEF TablesTyped, Verdicts
      <4>3. step[s] = "running"
        BY <1>0, <4>1, <4>2 DEF TablesTyped
      <4> QED
        BY <1>h, <2>1, <3>2, <4>2, <4>3
    <3> QED
      BY <3>1, <3>2
  <2> QED
    BY <1>0, <1>4, <1>h, <2>1, <2>2, NoTaskAssumption DEF CallbackCommit, TablesTyped
<1>5. CASE Cancel
  BY <1>0, <1>5, <1>h, NoTaskAssumption DEF Cancel, TablesTyped
<1>6. ASSUME NEW old \in SUBSET Tasks, Sweep(old) PROVE Alive
  <2>1. step[s] = "running" /\ link[s] \notin old
    BY <1>0, <1>6 DEF Sweep, TablesTyped
  <2> QED
    BY <1>6, <1>h, <2>1, NoTaskAssumption DEF Sweep
<1> QED
  BY <1>1, <1>2, <1>3, <1>4, <1>5, <1>6, RowSteps

\* An answer is applied only to a task that is not yet terminal.
LEMMA StepTaskOK == ASSUME IInv, [Next]_vars, NEW t \in Tasks PROVE TaskOK(t)'
<1> DEFINE Once == applied'[t] <= 1 /\ (task'[t] \in {"unused", "queued"} => applied'[t] = 0)
<1>0. TablesTyped /\ TaskOK(t)
  BY TypeParts DEF IInv
<1>1. CASE UNCHANGED <<step, link, task, about, applied>>
  BY <1>0, <1>1, AnswerStep DEF TaskOK
<1>2. ASSUME NEW g \in Handlers, DispatchCommit(g) PROVE Once
  <2>1. mine[g] \in Tasks /\ task[mine[g]] = "unused"
    BY <1>2 DEF DispatchCommit, IInv, HandlerOK, Holding
  <2> QED
    BY <1>0, <1>2, <2>1 DEF DispatchCommit, TablesTyped, TaskOK
<1>3. ASSUME NEW g \in Handlers, MarkCommit(g) PROVE Once
  BY <1>0, <1>3 DEF MarkCommit, TablesTyped, TaskOK
<1>4. ASSUME NEW g \in Handlers, CallbackCommit(g) PROVE Once
  <2>1. mine[g] \in Tasks /\ task[mine[g]] = "queued" /\ answer[mine[g]] \in Verdicts
    BY <1>4 DEF CallbackCommit, IInv, HandlerOK, Holding
  <2> QED
    BY <1>0, <1>4, <2>1, SMT DEF CallbackCommit, TablesTyped, TaskOK, Verdicts
<1>5. CASE Cancel
  BY <1>0, <1>5, AnswerStep DEF Cancel, TaskOK
<1>6. ASSUME NEW old \in SUBSET Tasks, Sweep(old) PROVE Once
  BY <1>0, <1>6 DEF Sweep, TaskOK
<1> QED
  BY <1>1, <1>2, <1>3, <1>4, <1>5, <1>6, RowSteps, AnswerStep DEF TaskOK

-----------------------------------------------------------------------------
Kept(h) == at'[h] = at[h] /\ mine'[h] = mine[h] /\ chosen'[h] = chosen[h]

\* What one step can make of a handler: nothing, or what one of its own
\* actions makes of it.
Moved(h) ==
    \/ at'[h] \in {"check", "pick", "refresh"}
    \/ at'[h] = "idle" /\ chosen'[h] = 0
    \/ at'[h] = "write" /\ chosen'[h] \in Steps
    \/ \E t \in Tasks : Write(h, t) \/ Callback(h, t)
    \/ DispatchCommit(h) \/ SubmitFails(h) \/ Mark(h)

LEMMA KeptByRequests == ASSUME UNCHANGED requests, NEW h PROVE Kept(h)
  BY DEF Kept, requests

LEMMA LeaveMoves ==
  ASSUME HandlersTyped, NEW g \in Handlers, NEW h \in Handlers, Leave(g)
  PROVE  IF h = g THEN at'[h] = "idle" /\ chosen'[h] = 0 ELSE Kept(h)
  BY DEF Leave, HandlersTyped, Kept

LEMMA OneMoves ==
  ASSUME IInv, [Next]_vars, NEW h \in Handlers
  PROVE  Kept(h) \/ Moved(h)
<1>0. HandlersTyped
  BY TypeParts DEF IInv
<1> USE DEF Goto
<1>1. ASSUME NEW g \in Handlers, Check(g) PROVE Kept(h) \/ Moved(h)
  BY <1>0, <1>1, LeaveMoves DEF Check, Kept, Moved, HandlersTyped
<1>2. ASSUME NEW g \in Handlers, Pick(g) PROVE Kept(h) \/ Moved(h)
  BY <1>0, <1>2 DEF Pick, Kept, Moved, HandlersTyped
<1>3. ASSUME NEW g \in Handlers, NEW t \in Tasks, Write(g, t) PROVE Kept(h) \/ Moved(h)
  <2>1. CASE g = h
    BY <1>3, <2>1 DEF Moved
  <2>2. CASE g # h
    BY <1>0, <1>3, <2>2 DEF Write, Kept, HandlersTyped
  <2> QED
    BY <2>1, <2>2
<1>4. ASSUME NEW g \in Handlers, DispatchCommit(g) PROVE Kept(h) \/ Moved(h)
  <2>1. CASE g = h
    BY <1>4, <2>1 DEF Moved
  <2>2. CASE g # h
    BY <1>0, <1>4, <2>2 DEF DispatchCommit, Kept, HandlersTyped
  <2> QED
    BY <2>1, <2>2
<1>5. ASSUME NEW g \in Handlers, RefreshCommit(g) \/ SubmitOk(g) \/ MarkCommit(g) \/ Abort(g)
      PROVE  Kept(h) \/ Moved(h)
  <2>1. Leave(g)
    BY <1>5 DEF RefreshCommit, SubmitOk, MarkCommit, Abort
  <2> QED
    BY <1>0, <2>1, LeaveMoves DEF Moved
<1>6. ASSUME NEW g \in Handlers, SubmitFails(g) PROVE Kept(h) \/ Moved(h)
  <2>1. CASE g = h
    BY <1>6, <2>1 DEF Moved
  <2>2. CASE g # h
    BY <1>0, <1>6, <2>2 DEF SubmitFails, Kept, HandlersTyped
  <2> QED
    BY <2>1, <2>2
<1>7. ASSUME NEW g \in Handlers, Mark(g) PROVE Kept(h) \/ Moved(h)
  <2>1. CASE g = h
    BY <1>7, <2>1 DEF Moved
  <2>2. CASE g # h
    BY <1>0, <1>7, <2>2 DEF Mark, Kept, HandlersTyped
  <2> QED
    BY <2>1, <2>2
<1>8. ASSUME NEW g \in Handlers, NEW t \in Tasks, Callback(g, t) PROVE Kept(h) \/ Moved(h)
  <2>1. CASE g = h
    BY <1>8, <2>1 DEF Moved
  <2>2. CASE g # h
    BY <1>0, <1>8, <2>2 DEF Callback, Kept, HandlersTyped
  <2> QED
    BY <2>1, <2>2
<1>9. ASSUME NEW g \in Handlers, CallbackCommit(g) PROVE Kept(h) \/ Moved(h)
  <2>1. CASE Leave(g)
    BY <1>0, <2>1, LeaveMoves DEF Moved
  <2>2. CASE ~Leave(g)
    <3>1. /\ at' = [at EXCEPT ![g] = "check"]
          /\ mine' = [mine EXCEPT ![g] = NoTask]
          /\ chosen' = [chosen EXCEPT ![g] = 0]
      BY <1>9, <2>2, Zenon DEF CallbackCommit
    <3> QED
      BY <1>0, <3>1 DEF Kept, Moved, HandlersTyped
  <2> QED
    BY <2>1, <2>2
<1>10. ASSUME NEW g \in Handlers, Resume(g) PROVE Kept(h) \/ Moved(h)
  BY <1>0, <1>10 DEF Resume, Kept, Moved, HandlersTyped
<1>11. ASSUME NEW t \in Tasks, CallbackIgnored(t) PROVE Kept(h)
  BY <1>11, KeptByRequests DEF CallbackIgnored
<1>12. ASSUME NEW old \in SUBSET Tasks, Sweep(old) PROVE Kept(h)
  BY <1>12, KeptByRequests DEF Sweep
<1>13. CASE Pause \/ Cancel \/ Service \/ UNCHANGED vars
  <2>1. UNCHANGED requests
    BY <1>13, Zenon DEF Pause, Cancel, Service, vars
  <2> QED
    BY <2>1, KeptByRequests
<1> QED
  BY <1>1, <1>2, <1>3, <1>4, <1>5, <1>6, <1>7, <1>8, <1>9, <1>10, <1>11, <1>12, <1>13
     DEF Next, Dispatch, Submit

\* A handler that is left alone keeps what it knows about its task.
LEMMA KeptHandlerOK ==
  ASSUME IInv, [Next]_vars, NEW h \in Handlers, Kept(h)
  PROVE  HandlerOK(h)'
<1>0. HandlerOK(h) /\ TablesTyped /\ HandlersTyped
  BY TypeParts DEF IInv
<1>1. at[h] \in {"submit", "mark", "marking"} =>
        task'[mine[h]] # "unused" /\ about'[mine[h]] = about[mine[h]]
  BY <1>0, RowStable DEF HandlerOK, Holding
<1>2. at[h] = "callback" => about'[mine[h]] = about[mine[h]]
  <2>1. at[h] = "callback" => mine[h] \in Tasks /\ task[mine[h]] # "unused"
    BY <1>0 DEF HandlerOK, Holding
  <2> QED
    BY <2>1, RowStable
<1>3. at[h] \in Holding => task'[mine[h]] = task[mine[h]]
  BY HeldStable DEF Kept
<1>4. at[h] = "callback" => answer'[mine[h]] \in Verdicts
  BY <1>0, AnswerStep DEF HandlerOK, Holding
<1>5. ASSUME at[h] = "callback", chosen[h] = 0, NEW s \in Steps PROVE link'[s] # mine[h]
  <2>1. link[s] # mine[h] /\ task[mine[h]] = "queued"
    BY <1>0, <1>5 DEF HandlerOK
  <2>2. ASSUME NEW g \in Handlers, DispatchCommit(g) PROVE link'[s] # mine[h]
    <3>1. task[mine[g]] = "unused"
      BY <2>2 DEF DispatchCommit, IInv, HandlerOK
    <3> QED
      BY <1>0, <2>1, <2>2, <3>1 DEF DispatchCommit, TablesTyped
  <2> QED
    BY <2>1, <2>2, RowSteps DEF MarkCommit, CallbackCommit, Cancel, Sweep
<1> QED
  BY <1>0, <1>1, <1>2, <1>3, <1>4, <1>5 DEF Kept, HandlerOK, Holding

\* A handler that moves knows what its place says about its task.
LEMMA MovedHandlerOK ==
  ASSUME IInv, [Next]_vars, NEW h \in Handlers, Moved(h)
  PROVE  HandlerOK(h)'
<1>0. HandlerOK(h) /\ TablesTyped /\ HandlersTyped
  BY TypeParts DEF IInv
<1>1. CASE at'[h] \in {"check", "pick", "refresh"} \/ (at'[h] = "idle" /\ chosen'[h] = 0)
  BY <1>1 DEF HandlerOK, Holding
<1>2. CASE at'[h] = "write" /\ chosen'[h] \in Steps
  BY <1>2 DEF HandlerOK, Holding
<1>3. ASSUME NEW t \in Tasks, Write(h, t) PROVE HandlerOK(h)'
  BY <1>0, <1>3 DEF Write, HandlerOK, Holding, Goto, HandlersTyped, tables
<1>4. CASE DispatchCommit(h)
  BY <1>0, <1>4 DEF DispatchCommit, HandlerOK, Holding, Goto, HandlersTyped, TablesTyped
<1>5. CASE SubmitFails(h)
  BY <1>0, <1>5 DEF SubmitFails, HandlerOK, Holding, Goto, HandlersTyped, tables
<1>6. CASE Mark(h)
  BY <1>0, <1>6 DEF Mark, HandlerOK, Holding, Goto, HandlersTyped, tables
<1>7. ASSUME NEW t \in Tasks, Callback(h, t) PROVE HandlerOK(h)'
  <2>1. /\ at'[h] = "callback" /\ mine'[h] = t
        /\ task'[t] = "queued" /\ UNCHANGED <<link, about>>
    BY <1>0, <1>7 DEF Callback, Goto, HandlersTyped, tables
  <2>2. answer'[t] \in Verdicts
    BY <1>7, AnswerStep DEF Callback, IInv, TaskOK
  <2>3. CASE StepsOf(t) = {} /\ UNCHANGED chosen
    <3>1. \A s \in Steps : link[s] # t
      BY <2>3 DEF StepsOf
    <3>2. chosen[h] = 0
      BY <1>7 DEF Callback, IInv, HandlerOK
    <3> QED
      BY <2>1, <2>2, <2>3, <3>1, <3>2 DEF HandlerOK, Holding
  <2>4. ASSUME NEW s \in StepsOf(t), chosen' = [chosen EXCEPT ![h] = s] PROVE HandlerOK(h)'
    <3>1. s \in Steps /\ link[s] = t
      BY <2>4 DEF StepsOf
    <3>2. about[t] = s
      BY <3>1, NoTaskAssumption DEF IInv, LinkOK
    <3>3. chosen'[h] = s /\ s # 0
      BY <1>0, <2>4, <3>1 DEF HandlersTyped, Steps
    <3> QED
      BY <2>1, <2>2, <3>1, <3>2, <3>3 DEF HandlerOK, Holding
  <2> QED
    BY <1>7, <2>3, <2>4 DEF Callback
<1> QED
  BY <1>1, <1>2, <1>3, <1>4, <1>5, <1>6, <1>7 DEF Moved

\* Two transactions never come to hold the same task row: whoever takes one
\* has found it free.
LEMMA StepApart ==
  ASSUME IInv, [Next]_vars, NEW g \in Handlers, NEW h \in Handlers
  PROVE  Apart(g, h)'
<1>0. HandlersTyped /\ Apart(g, h)
  BY TypeParts DEF IInv
<1>1. ASSUME NEW x \in Handlers, NEW y \in Handlers, x # y,
             at'[x] \in Holding, at'[y] \in Holding, ~Kept(x)
      PROVE  mine'[x] # mine'[y]
  <2>1. Moved(x)
    BY <1>1, OneMoves
  <2>2. \/ \E t \in Tasks : Write(x, t) \/ Callback(x, t)
        \/ Mark(x)
    BY <1>0, <1>1, <2>1 DEF Moved, DispatchCommit, SubmitFails, Goto, Holding, HandlersTyped
  <2>3. ASSUME NEW t \in Tasks, Write(x, t) \/ Callback(x, t) PROVE mine'[x] # mine'[y]
    <3>1. /\ TaskFree(t) /\ mine' = [mine EXCEPT ![x] = t]
          /\ \E place : at' = [at EXCEPT ![x] = place]
      BY <2>3 DEF Write, Callback, Goto
    <3>2. at'[y] = at[y] /\ mine'[y] = mine[y] /\ mine'[x] = t
      BY <1>0, <1>1, <3>1 DEF HandlersTyped
    <3> QED
      BY <1>1, <3>1, <3>2 DEF TaskFree
  <2>4. CASE Mark(x)
    <3>1. TaskFree(mine[x]) /\ at'[y] = at[y] /\ mine' = mine
      BY <1>0, <1>1, <2>4 DEF Mark, Goto, HandlersTyped
    <3> QED
      BY <1>1, <3>1 DEF TaskFree
  <2> QED
    BY <2>2, <2>3, <2>4
<1>2. CASE Kept(g) /\ Kept(h)
  BY <1>0, <1>2 DEF Kept, Apart
<1> QED
  BY <1>1, <1>2 DEF Apart

-----------------------------------------------------------------------------
LEMMA StepIInv == IInv /\ [Next]_vars => IInv'
<1> SUFFICES ASSUME IInv, [Next]_vars PROVE IInv'
  OBVIOUS
<1>1. TypeOK'
  BY StepTypeOK
<1>2. StepFollowsTask'
  BY StepFollows
<1>3. ASSUME NEW s \in Steps PROVE LinkOK(s)'
  BY StepLinkOK
<1>4. ASSUME NEW t \in Tasks PROVE TaskOK(t)'
  BY StepTaskOK
<1>5. ASSUME NEW g \in Handlers PROVE HandlerOK(g)'
  BY OneMoves, KeptHandlerOK, MovedHandlerOK
<1>6. ASSUME NEW g \in Handlers, NEW h \in Handlers PROVE Apart(g, h)'
  BY StepApart
<1> QED
  BY <1>1, <1>2, <1>3, <1>4, <1>5, <1>6 DEF IInv

\* The invariant holds in every reachable state.
THEOREM JobInvariance == Spec => []IInv
  BY InitIInv, StepIInv, PTL DEF Spec

\* Every variable of the job model stays in its range.
THEOREM JobTypeCorrectness == Spec => []TypeOK
<1>1. IInv => TypeOK
  BY DEF IInv
<1> QED
  BY <1>1, JobInvariance, PTL

\* A running step always has a live task of its own behind it, for any
\* number of steps and of overlapping, lost or interrupted requests.
THEOREM RunningStepHasTask == Spec => []StepFollowsTask
<1>1. IInv => StepFollowsTask
  BY DEF IInv
<1> QED
  BY <1>1, JobInvariance, PTL

\* However often a callback is delivered, and to however many handlers at
\* once, it is applied at most once.
THEOREM CallbackAppliedOnce == Spec => []AppliedOnce
<1>1. IInv => AppliedOnce
  BY DEF IInv, TaskOK, AppliedOnce
<1> QED
  BY <1>1, JobInvariance, PTL

-----------------------------------------------------------------------------
(***************************************************************************)
(* Requests that take turns (Overlap = FALSE).  Then a request that is in  *)
(* its transaction is the only one, so what it read is still so when it    *)
(* commits (SummaryOK), and rows of steps, tasks and chapters follow each  *)
(* other (RowsOK).                                                         *)
(***************************************************************************)
Working(g) == at[g] \in InTransaction

\* A task row is that of its step, and while it is queued the step runs.
TaskRowOK(t) ==
    /\ t \notin elder[t]
    /\ task[t] = "unused" => about[t] = 0
    /\ task[t] # "unused" => about[t] \in Steps /\ link[about[t]] = t
    /\ task[t] = "queued" => step[about[t]] = "running"

\* A step that was never started has no task; done means written.
ChapterOK(s) ==
    /\ step[s] = "queued" => link[s] = NoTask
    /\ step[s] = "done" => chapter[s] = "generated" \/ job = "cancelled"
    /\ chapter[s] = "generating" => step[s] = "running" \/ job = "cancelled"

JobOK ==
    /\ job = "done" => \A s \in Steps : step[s] \in {"done", "cancelled"}
    /\ gate = "passed" => \A s \in Steps : step[s] = "done"

RowsOK ==
    /\ OneStepRunning
    /\ \A t \in Tasks : TaskRowOK(t)
    /\ \A s \in Steps : ChapterOK(s)
    /\ JobOK

\* What a request in its transaction has read and computed is still so.
SummaryOK(g) ==
    /\ at[g] \in {"pick", "write", "dispatch", "refresh"} =>
         job \in {"queued", "running"} /\ \A s \in Steps : step[s] # "running"
    /\ at[g] \in {"write", "dispatch"} => step[chosen[g]] = "queued"
    /\ at[g] = "refresh" => seen[g] = Refresh(JobSeenBy(g), step)
    /\ at[g] = "dispatch" =>
         seen[g] = Refresh(JobSeenBy(g), [step EXCEPT ![chosen[g]] = "running"])
    /\ at[g] = "marking" => seen[g] = Refresh(job, [step EXCEPT ![chosen[g]] = "failed"])
    /\ at[g] = "callback" =>
         /\ phase[mine[g]] \in {"decided", "settled"}
         /\ chosen[g] # 0
         /\ write[g] \/ job = "cancelled"
         /\ seen[g] = Refresh(job, [step EXCEPT ![chosen[g]] = answer[mine[g]]])

OneWorks == \A g, h \in Handlers : Working(g) /\ Working(h) => g = h

TurnIInv ==
    /\ IInv
    /\ OneWorks
    /\ RowsOK
    /\ \A g \in Handlers : SummaryOK(g)

LEMMA InitTurnIInv == Init => TurnIInv
<1> SUFFICES ASSUME Init PROVE TurnIInv
  OBVIOUS
<1>1. RowsOK
  BY DEF Init, RowsOK, OneStepRunning, TaskRowOK, ChapterOK, JobOK
<1>2. \A g \in Handlers : at[g] \in {"check", "idle"}
  BY DEF Init
<1> QED
  BY <1>1, <1>2, InitIInv DEF TurnIInv, OneWorks, Working, InTransaction, SummaryOK

\* What the summary of a refresh says of the steps it counted.
LEMMA SummarySays ==
  ASSUME NEW current \in JobStatus, NEW st \in [Steps -> StepStatus]
  PROVE  /\ current = "cancelled" => NextStatus(current, st) = "cancelled"
         /\ NextStatus(current, st) = "done" => \A s \in Steps : st[s] \in {"done", "cancelled"}
         /\ GateFor(NextStatus(current, st), st) = "passed" => \A s \in Steps : st[s] = "done"
<1>1. current = "cancelled" => NextStatus(current, st) = "cancelled"
  BY DEF NextStatus
<1>2. NextStatus(current, st) = "done" => \A s \in Steps : st[s] \in {"done", "cancelled"}
  BY DEF NextStatus, StepStatus
<1>3. GateFor(NextStatus(current, st), st) = "passed" => \A s \in Steps : st[s] = "done"
  BY <1>2 DEF GateFor
<1> QED
  BY <1>1, <1>2, <1>3

\* The refresh at the end of a transaction about the job.
LEMMA WriteBackOK ==
  ASSUME NEW g \in Handlers, WriteBack(g), NEW current \in JobStatus,
         step' \in [Steps -> StepStatus], seen[g] = Refresh(current, step')
  PROVE  /\ JobOK'
         /\ current = "cancelled" => job' = "cancelled"
         /\ job' = NextStatus(current, step')
<1>1. job' = NextStatus(current, step') /\ gate' = GateFor(NextStatus(current, step'), step')
  BY DEF WriteBack, Refresh
<1> QED
  BY <1>1, SummarySays DEF JobOK

\* The job row as the transaction of g sees it is cancelled if it is.
LEMMA JobSeen ==
  ASSUME TablesTyped, NEW g
  PROVE  JobSeenBy(g) \in JobStatus /\ (job = "cancelled" => JobSeenBy(g) = "cancelled")
BY DEF JobSeenBy, TablesTyped, JobStatus

LEMMA DispatchKeepsRows ==
  ASSUME TurnIInv, TablesTyped', NEW g \in Handlers, DispatchCommit(g)
  PROVE  RowsOK'
<1> DEFINE s0 == chosen[g]
           t0 == mine[g]
<1>0. TablesTyped /\ TablesTyped' /\ IInv /\ RowsOK /\ SummaryOK(g)
  BY TypeParts DEF TurnIInv, IInv
<1>1. t0 \in Tasks /\ s0 \in Steps /\ task[t0] = "unused" /\ at[g] = "dispatch"
  BY <1>0 DEF DispatchCommit, IInv, HandlerOK, Holding
<1>2. /\ \A s \in Steps : step[s] # "running"
      /\ step[s0] = "queued" /\ link[s0] = NoTask
      /\ seen[g] = Refresh(JobSeenBy(g), [step EXCEPT ![s0] = "running"])
  BY <1>0, <1>1 DEF SummaryOK, RowsOK, ChapterOK
<1>3. /\ step' = [step EXCEPT ![s0] = "running"] /\ link' = [link EXCEPT ![s0] = t0]
      /\ task' = [task EXCEPT ![t0] = "queued"] /\ about' = [about EXCEPT ![t0] = s0]
      /\ elder' = [elder EXCEPT ![t0] = {t \in Tasks : task[t] # "unused"}]
      /\ chapter' = [chapter EXCEPT ![s0] = "generating"]
      /\ WriteBack(g)
  BY DEF DispatchCommit
<1> HIDE DEF s0, t0
<1>4. JobOK' /\ (job = "cancelled" => job' = "cancelled")
  BY <1>0, <1>2, <1>3, JobSeen, WriteBackOK DEF TablesTyped
<1>5. OneStepRunning'
  BY <1>0, <1>1, <1>2, <1>3 DEF OneStepRunning, TablesTyped
<1>6. ASSUME NEW t \in Tasks PROVE TaskRowOK(t)'
  <2>1. CASE t = t0
    BY <1>0, <1>1, <1>3, <2>1 DEF TaskRowOK, TablesTyped
  <2>2. CASE t # t0
    <3>1. TaskRowOK(t) /\ task'[t] = task[t] /\ about'[t] = about[t] /\ elder'[t] = elder[t]
      BY <1>0, <1>3, <2>2 DEF RowsOK, TablesTyped
    <3>2. task[t] # "unused" => about[t] # s0
      BY <1>2, <3>1, NoTaskAssumption DEF TaskRowOK
    <3> QED
      BY <1>0, <1>3, <3>1, <3>2 DEF TaskRowOK, TablesTyped
  <2> QED
    BY <2>1, <2>2
<1>7. ASSUME NEW s \in Steps PROVE ChapterOK(s)'
  <2>1. CASE s = s0
    BY <1>0, <1>3, <2>1 DEF ChapterOK, TablesTyped
  <2>2. CASE s # s0
    BY <1>0, <1>3, <1>4, <2>2 DEF RowsOK, ChapterOK, TablesTyped
  <2> QED
    BY <2>1, <2>2
<1> QED
  BY <1>4, <1>5, <1>6, <1>7 DEF RowsOK

\* The end of a step, by its callback or by the failure of its submission.
LEMMA EndKeepsRows ==
  ASSUME TurnIInv, TablesTyped', NEW g \in Handlers, NEW verdict \in Verdicts,
         NEW t0 \in Tasks, NEW s0 \in Steps, task[t0] # "unused", about[t0] = s0,
         task' = [task EXCEPT ![t0] = verdict], step' = [step EXCEPT ![s0] = verdict],
         UNCHANGED <<link, about, elder>>,
         \A s \in Steps : s # s0 => chapter'[s] = chapter[s],
         \/ chapter'[s0] = Written(verdict)
         \/ chapter'[s0] = chapter[s0] /\ job = "cancelled",
         WriteBack(g), seen[g] = Refresh(job, [step EXCEPT ![s0] = verdict])
  PROVE  RowsOK'
<1>0. TablesTyped /\ TablesTyped' /\ RowsOK
  BY TypeParts DEF TurnIInv, IInv
<1>1. verdict \in {"done", "failed"} /\ link[s0] = t0
  BY <1>0 DEF Verdicts, RowsOK, TaskRowOK
<1>2. JobOK' /\ (job = "cancelled" => job' = "cancelled")
  BY <1>0, WriteBackOK DEF TablesTyped
<1>3. OneStepRunning'
  BY <1>0, <1>1 DEF RowsOK, OneStepRunning, TablesTyped
<1>4. ASSUME NEW t \in Tasks PROVE TaskRowOK(t)'
  <2>0. TaskRowOK(t)
    BY <1>0 DEF RowsOK
  <2>1. CASE t = t0
    BY <1>0, <1>1, <2>0, <2>1 DEF TaskRowOK, TablesTyped
  <2>2. CASE t # t0
    <3>1. task'[t] = task[t] /\ (task[t] # "unused" => about[t] # s0)
      BY <1>0, <1>1, <2>0, <2>2 DEF TaskRowOK, TablesTyped
    <3> QED
      BY <1>0, <2>0, <3>1 DEF TaskRowOK, TablesTyped
  <2> QED
    BY <2>1, <2>2
<1>5. ASSUME NEW s \in Steps PROVE ChapterOK(s)'
  <2>1. CASE s = s0
    BY <1>0, <1>1, <1>2, <2>1 DEF ChapterOK, Written, TablesTyped
  <2>2. CASE s # s0
    BY <1>0, <1>2, <2>2 DEF RowsOK, ChapterOK, TablesTyped
  <2> QED
    BY <2>1, <2>2
<1> QED
  BY <1>2, <1>3, <1>4, <1>5 DEF RowsOK

LEMMA MarkKeepsRows ==
  ASSUME TurnIInv, TablesTyped', NEW g \in Handlers, MarkCommit(g)
  PROVE  RowsOK'
<1>1. /\ mine[g] \in Tasks /\ chosen[g] \in Steps
      /\ task[mine[g]] # "unused" /\ about[mine[g]] = chosen[g]
      /\ seen[g] = Refresh(job, [step EXCEPT ![chosen[g]] = "failed"])
  BY DEF TurnIInv, IInv, HandlerOK, Holding, SummaryOK, MarkCommit
<1>2. chapter'[chosen[g]] = Written("failed") /\ \A s \in Steps : s # chosen[g] => chapter'[s] = chapter[s]
  BY <1>1, TypeParts DEF MarkCommit, Written, TurnIInv, IInv, TablesTyped
<1>3. "failed" \in Verdicts
  BY DEF Verdicts
<1> QED
  BY <1>1, <1>2, <1>3, EndKeepsRows DEF MarkCommit

LEMMA CallbackKeepsRows ==
  ASSUME TurnIInv, TablesTyped', NEW g \in Handlers, CallbackCommit(g)
  PROVE  RowsOK'
<1>1. /\ mine[g] \in Tasks /\ task[mine[g]] = "queued" /\ answer[mine[g]] \in Verdicts
      /\ chosen[g] \in Steps /\ about[mine[g]] = chosen[g]
      /\ write[g] \/ job = "cancelled"
      /\ seen[g] = Refresh(job, [step EXCEPT ![chosen[g]] = answer[mine[g]]])
  <2>1. HandlerOK(g) /\ SummaryOK(g) /\ at[g] = "callback" /\ HandlersTyped
    BY TypeParts DEF TurnIInv, IInv, CallbackCommit
  <2> QED
    BY <2>1 DEF HandlerOK, SummaryOK, Holding, HandlersTyped, Steps
<1>2. /\ task' = [task EXCEPT ![mine[g]] = answer[mine[g]]]
      /\ step' = [step EXCEPT ![chosen[g]] = answer[mine[g]]]
      /\ chapter' = [chapter EXCEPT ![chosen[g]] =
                        IF write[g] THEN Written(answer[mine[g]]) ELSE chapter[chosen[g]]]
      /\ WriteBack(g) /\ UNCHANGED <<link, about, elder>>
  BY <1>1 DEF CallbackCommit, Steps
<1>3. /\ \A s \in Steps : s # chosen[g] => chapter'[s] = chapter[s]
      /\ \/ chapter'[chosen[g]] = Written(answer[mine[g]])
         \/ chapter'[chosen[g]] = chapter[chosen[g]] /\ job = "cancelled"
  BY <1>1, <1>2, TypeParts DEF TurnIInv, IInv, TablesTyped
<1> QED
  BY <1>1, <1>2, <1>3, EndKeepsRows

LEMMA CancelKeepsRows ==
  ASSUME TurnIInv, TablesTyped', Cancel
  PROVE  RowsOK'
<1> DEFINE status == IF job \in {"queued", "running", "paused"} THEN "cancelled" ELSE job
           st == [s \in Steps |-> IF step[s] = "queued" THEN "cancelled" ELSE step[s]]
<1>0. TablesTyped /\ TablesTyped' /\ RowsOK
  BY TypeParts DEF TurnIInv, IInv
<1>1. /\ step' = st /\ job' = NextStatus(status, st) /\ gate' = GateFor(NextStatus(status, st), st)
      /\ UNCHANGED <<link, task, about, elder, chapter>>
  BY DEF Cancel
<1>2. status \in JobStatus /\ (job = "cancelled" => status = "cancelled") /\ st \in [Steps -> StepStatus]
  BY <1>0, <1>1 DEF TablesTyped, JobStatus
<1>3. JobOK' /\ (job = "cancelled" => job' = "cancelled")
  <2> HIDE DEF status, st
  <2> QED
    BY <1>1, <1>2, SummarySays DEF JobOK
<1>4. OneStepRunning'
  BY <1>0, <1>1 DEF RowsOK, OneStepRunning
<1>5. \A t \in Tasks : TaskRowOK(t)'
  BY <1>0, <1>1 DEF RowsOK, TaskRowOK
<1>6. \A s \in Steps : ChapterOK(s)'
  BY <1>0, <1>1, <1>3 DEF RowsOK, ChapterOK
<1> QED
  BY <1>3, <1>4, <1>5, <1>6 DEF RowsOK

LEMMA SweepKeepsRows ==
  ASSUME TurnIInv, TablesTyped', NEW old \in SUBSET Tasks, Sweep(old)
  PROVE  RowsOK'
<1>0. TablesTyped /\ TablesTyped' /\ RowsOK
  BY TypeParts DEF TurnIInv, IInv
<1>1. /\ \A t \in old : task[t] = "queued"
      /\ \A t \in Tasks : task'[t] = IF t \in old THEN "failed" ELSE task[t]
      /\ \A s \in Steps : /\ step'[s] = IF link[s] \in old /\ step[s] \in {"queued", "running"}
                                        THEN "failed" ELSE step[s]
                          /\ chapter'[s] = IF /\ chapter[s] = "generating"
                                             /\ \E t \in old : about[t] = s /\ ~Superseded(t)
                                          THEN "needs_fix" ELSE chapter[s]
      /\ job' = job \/ (job \in {"queued", "running"} /\ job' = "failed")
      /\ UNCHANGED <<link, about, elder, gate>>
  BY DEF Sweep
<1>2. ASSUME NEW t \in Tasks, task[t] # "unused" PROVE ~Superseded(t)
  <2> SUFFICES ASSUME NEW n \in Tasks, about[n] = about[t], t \in elder[n] PROVE FALSE
    BY DEF Superseded
  <2>1. TaskRowOK(t) /\ TaskRowOK(n) /\ about[t] # 0
    BY <1>0, <1>2 DEF RowsOK, TaskRowOK, Steps
  <2>2. n = t
    BY <1>2, <2>1 DEF TaskRowOK
  <2> QED
    BY <2>1, <2>2 DEF TaskRowOK
<1>3. OneStepRunning'
  BY <1>0, <1>1 DEF RowsOK, OneStepRunning
<1>4. ASSUME NEW t \in Tasks PROVE TaskRowOK(t)'
  BY <1>0, <1>1 DEF RowsOK, TaskRowOK
<1>5. ASSUME NEW s \in Steps PROVE ChapterOK(s)'
  <2>0. ChapterOK(s)
    BY <1>0 DEF RowsOK
  <2>1. chapter'[s] = "generating" => step'[s] = "running" \/ job' = "cancelled"
    <3> SUFFICES ASSUME chapter'[s] = "generating", job # "cancelled" PROVE step'[s] = "running"
      BY <1>1
    <3>1. chapter[s] = "generating" /\ step[s] = "running"
      BY <1>1, <2>0 DEF ChapterOK
    <3>2. link[s] \in Tasks /\ task[link[s]] = "queued" /\ about[link[s]] = s
      BY <1>0, <3>1 DEF TurnIInv, IInv, StepFollowsTask, TablesTyped
    <3> QED
      BY <1>1, <1>2, <3>1, <3>2
  <2> QED
    BY <1>1, <2>0, <2>1 DEF ChapterOK
<1>6. JobOK'
  BY <1>0, <1>1 DEF RowsOK, JobOK
<1> QED
  BY <1>3, <1>4, <1>5, <1>6 DEF RowsOK

LEMMA SameRows ==
  ASSUME RowsOK, UNCHANGED <<step, link, task, about, elder, chapter>>,
         JobOK', job = "cancelled" => job' = "cancelled"
  PROVE  RowsOK'
BY DEF RowsOK, OneStepRunning, TaskRowOK, ChapterOK

LEMMA StepRowsOK ==
  ASSUME TurnIInv, TablesTyped', [Next]_vars
  PROVE  RowsOK'
<1>0. RowsOK /\ JobOK /\ TablesTyped
  BY TypeParts DEF TurnIInv, IInv, RowsOK
<1>k. ASSUME UNCHANGED tables PROVE RowsOK'
  BY <1>0, <1>k, SameRows DEF tables, JobOK
<1>1. ASSUME NEW g \in Handlers, Check(g) PROVE RowsOK'
  <2>1. CASE UNCHANGED tables
    BY <1>k, <2>1
  <2>2. CASE ~UNCHANGED tables
    <3>1. /\ UNCHANGED <<step, link, task, about, elder, chapter, gate>>
          /\ job # "cancelled" /\ job' = "running"
      BY <1>1, <2>2 DEF Check
    <3> QED
      BY <1>0, <3>1, SameRows DEF JobOK
  <2> QED
    BY <2>1, <2>2
<1>2. ASSUME NEW g \in Handlers, RefreshCommit(g) PROVE RowsOK'
  <2>1. /\ UNCHANGED <<step, link, task, about, elder, chapter>>
        /\ WriteBack(g) /\ seen[g] = Refresh(JobSeenBy(g), step)
    BY <1>2 DEF RefreshCommit, TurnIInv, SummaryOK
  <2>2. JobOK' /\ (job = "cancelled" => job' = "cancelled")
    BY <1>0, <2>1, JobSeen, WriteBackOK DEF TablesTyped
  <2> QED
    BY <1>0, <2>1, <2>2, SameRows
<1>3. ASSUME NEW g \in Handlers, Dispatch(g) \/ Submit(g) PROVE RowsOK'
  <2>1. Pick(g) \/ (\E t \in Tasks : Write(g, t)) \/ SubmitOk(g) \/ SubmitFails(g) \/ Mark(g)
        => UNCHANGED tables
    BY DEF Pick, Write, SubmitOk, SubmitFails, Mark
  <2> QED
    BY <1>k, <1>1, <1>2, <1>3, <2>1, DispatchKeepsRows, MarkKeepsRows DEF Dispatch, Submit
<1>4. ASSUME NEW g \in Handlers, Abort(g) \/ \E t \in Tasks : Callback(g, t) PROVE RowsOK'
  BY <1>k, <1>4 DEF Abort, Callback
<1>5. ASSUME NEW g \in Handlers, Resume(g) PROVE RowsOK'
  BY <1>0, <1>5, SameRows DEF Resume, JobOK
<1>6. CASE Pause
  BY <1>0, <1>6, SameRows DEF Pause, JobOK
<1>7. ASSUME Service \/ UNCHANGED vars \/ \E t \in Tasks : CallbackIgnored(t) PROVE RowsOK'
  <2>1. UNCHANGED tables
    BY <1>7 DEF Service, vars, CallbackIgnored
  <2> QED
    BY <1>k, <2>1
<1> QED
  BY <1>3, <1>4, <1>5, <1>6, <1>7, CallbackKeepsRows, CancelKeepsRows, SweepKeepsRows DEF Next

-----------------------------------------------------------------------------
\* What a request in its transaction relies on is left alone.
Undisturbed(h) ==
    /\ Kept(h) /\ seen'[h] = seen[h] /\ write'[h] = write[h]
    /\ UNCHANGED <<job, step>>
    /\ (jobLock' = h) = (jobLock = h)
    /\ at[h] = "callback" =>
        /\ answer'[mine[h]] = answer[mine[h]]
        /\ phase'[mine[h]] \in {"decided", "settled"}

\* A task that has been decided keeps its answer, whatever the service does.
LEMMA AnswerStays ==
  ASSUME AI!TypeOK, NEW t \in Tasks, phase[t] \in {"decided", "settled"},
         \/ UNCHANGED service
         \/ \E u \in Tasks :
                AI!Accept(u, TRUE) \/ AI!Settle(u) \/ \E v \in Verdicts : AI!Decide(u, v)
  PROVE  answer'[t] = answer[t] /\ phase'[t] \in {"decided", "settled"}
<1> USE DEF AI!TypeOK
<1>1. CASE UNCHANGED service
  BY <1>1 DEF service
<1>2. ASSUME NEW u \in Tasks, AI!Accept(u, TRUE)
      PROVE  answer'[t] = answer[t] /\ phase'[t] \in {"decided", "settled"}
  BY <1>2 DEF AI!Accept
<1>3. ASSUME NEW u \in Tasks, AI!Settle(u)
      PROVE  answer'[t] = answer[t] /\ phase'[t] \in {"decided", "settled"}
  BY <1>3 DEF AI!Settle
<1>4. ASSUME NEW u \in Tasks, NEW v \in Verdicts, AI!Decide(u, v)
      PROVE  answer'[t] = answer[t] /\ phase'[t] \in {"decided", "settled"}
  BY <1>4 DEF AI!Decide
<1> QED
  BY <1>1, <1>2, <1>3, <1>4

\* The actions of a request inside its transaction.
Continues(h) ==
    \/ Pick(h) \/ (\E t \in Tasks : Write(h, t)) \/ DispatchCommit(h) \/ RefreshCommit(h)
    \/ MarkCommit(h) \/ CallbackCommit(h) \/ Abort(h)

\* Without overlap everybody else waits for a request in its transaction.
LEMMA OthersWait ==
  ASSUME TurnIInv, ~Overlap, [Next]_vars, NEW h \in Handlers, Working(h)
  PROVE  Continues(h) \/ Undisturbed(h)
<1>0. HandlersTyped /\ AI!TypeOK /\ HandlerOK(h) /\ SummaryOK(h)
  BY TypeParts DEF TurnIInv, IInv
<1>1. ASSUME NEW g \in Handlers, g # h PROVE ~Turn(g) /\ ~Working(g)
  BY <1>1 DEF TurnIInv, OneWorks, Turn, Working
<1>2. ~UserTurn
  BY DEF UserTurn, Working
<1>m. at[h] = "callback" => mine[h] \in Tasks /\ phase[mine[h]] \in {"decided", "settled"}
  BY <1>0 DEF HandlerOK, SummaryOK, Holding
<1>3. ASSUME NEW g \in Handlers, Dispatch(g) \/ Submit(g), ~Continues(h)
      PROVE  g # h /\ (SubmitOk(g) \/ SubmitFails(g))
  <2>1. CASE g = h
    <3>1. at[h] \notin {"check", "submit", "mark"}
      BY DEF Working, InTransaction
    <3> QED
      BY <1>3, <2>1, <3>1
         DEF Dispatch, Submit, Check, SubmitOk, SubmitFails, Mark, Continues
  <2>2. CASE g # h
    <3>1. ~Turn(g) /\ at[g] \notin {"pick", "write", "dispatch", "refresh", "marking"}
      BY <1>1, <2>2 DEF Working, InTransaction
    <3> QED
      BY <1>3, <2>2, <3>1
         DEF Dispatch, Submit, Check, Pick, Write, DispatchCommit, RefreshCommit, Mark, MarkCommit
  <2> QED
    BY <2>1, <2>2
<1>4. ASSUME NEW g \in Handlers, NEW t \in Tasks, Callback(g, t) PROVE FALSE
  BY <1>1, <1>4 DEF Callback, Working, InTransaction
<1>5. ASSUME NEW g \in Handlers, CallbackCommit(g) PROVE g = h
  BY <1>1, <1>5 DEF CallbackCommit, Working, InTransaction
<1>6. ASSUME NEW g \in Handlers PROVE ~Resume(g)
  BY <1>2 DEF Resume
<1>7. ASSUME NEW t \in Tasks PROVE ~CallbackIgnored(t)
  BY <1>2 DEF CallbackIgnored
<1>8. ~Pause /\ ~Cancel /\ \A old \in SUBSET Tasks : ~Sweep(old)
  BY <1>2 DEF Pause, Cancel, Sweep
<1>9. ASSUME NEW g \in Handlers, g # h, SubmitOk(g) \/ SubmitFails(g) \/ Abort(g)
      PROVE  Undisturbed(h)
  <2>1. /\ Kept(h) /\ seen'[h] = seen[h] /\ write'[h] = write[h]
        /\ UNCHANGED <<job, step>>
        /\ (jobLock' = h) = (jobLock = h)
    BY <1>0, <1>9
       DEF SubmitOk, SubmitFails, Abort, Leave, Goto, Kept, HandlersTyped, tables
  <2>2. UNCHANGED service \/ \E u \in Tasks : AI!Accept(u, TRUE)
    <3>1. at[g] = "submit" => mine[g] \in Tasks
      BY DEF TurnIInv, IInv, HandlerOK
    <3> QED
      BY <1>9, <3>1 DEF SubmitOk, SubmitFails, Abort
  <2> QED
    BY <1>0, <1>m, <2>1, <2>2, AnswerStays DEF Undisturbed
<1>10. CASE Service \/ UNCHANGED vars
  <2>1. UNCHANGED <<tables, requests>>
    BY <1>10 DEF Service, vars
  <2>2. /\ Kept(h) /\ seen'[h] = seen[h] /\ write'[h] = write[h]
        /\ UNCHANGED <<job, step, jobLock>>
    BY <2>1 DEF tables, requests, Kept
  <2>3. \/ UNCHANGED service
        \/ \E u \in Tasks : AI!Settle(u) \/ \E v \in Verdicts : AI!Decide(u, v)
    BY <1>10 DEF Service, vars
  <2> QED
    BY <1>0, <1>m, <2>2, <2>3, AnswerStays DEF Undisturbed
<1>11. ASSUME NEW g \in Handlers, Abort(g) PROVE Continues(h) \/ Undisturbed(h)
  BY <1>9, <1>11 DEF Continues
<1> QED
  BY <1>3, <1>4, <1>5, <1>6, <1>7, <1>8, <1>9, <1>10, <1>11 DEF Next, Continues

\* A request enters its transaction by one of three steps of its own.
LEMMA Entering ==
  ASSUME IInv, [Next]_vars, NEW h \in Handlers, ~Working(h), Working(h)'
  PROVE  Check(h) \/ Mark(h) \/ \E t \in Tasks : Callback(h, t)
<1>0. HandlersTyped
  BY TypeParts DEF IInv
<1>m. at'[h] # at[h] /\ at'[h] \notin {"idle", "check", "submit", "mark"}
  BY DEF Working, InTransaction
<1>1. ASSUME NEW g \in Handlers, g # h, Dispatch(g) \/ Submit(g) \/ CallbackCommit(g)
             \/ Resume(g) \/ Abort(g) \/ \E t \in Tasks : Callback(g, t)
      PROVE  at'[h] = at[h]
  <2>1. CASE Leave(g)
    BY <1>0, <1>1, <2>1, LeaveMoves DEF Kept
  <2>2. CASE \E place : Goto(g, place)
    BY <1>0, <1>1, <2>2 DEF Goto, HandlersTyped
  <2>3. Leave(g) \/ \E place : Goto(g, place)
    <3>1. CASE Dispatch(g)
      BY <3>1 DEF Dispatch, Check, Pick, Write, DispatchCommit, RefreshCommit
    <3>2. CASE Submit(g)
      BY <3>2 DEF Submit, SubmitOk, SubmitFails, Mark, MarkCommit
    <3>3. CASE CallbackCommit(g)
      BY <3>3, Zenon DEF CallbackCommit
    <3>4. CASE Resume(g) \/ Abort(g) \/ \E t \in Tasks : Callback(g, t)
      BY <3>4 DEF Resume, Abort, Callback
    <3> QED
      BY <1>1, <3>1, <3>2, <3>3, <3>4
  <2> QED
    BY <2>1, <2>2, <2>3
<1>2. UNCHANGED requests => at'[h] = at[h]
  BY DEF requests
<1>3. ASSUME NEW t \in Tasks PROVE CallbackIgnored(t) => UNCHANGED requests
  BY DEF CallbackIgnored
<1>4. ASSUME NEW old \in SUBSET Tasks PROVE Sweep(old) => UNCHANGED requests
  BY DEF Sweep
<1>5. Pause \/ Cancel \/ Service \/ UNCHANGED vars => UNCHANGED requests
  BY Zenon DEF Pause, Cancel, Service, vars
<1>6. PICK g \in Handlers : \/ Dispatch(g) \/ Submit(g) \/ CallbackCommit(g)
                            \/ Resume(g) \/ Abort(g) \/ \E t \in Tasks : Callback(g, t)
  BY <1>m, <1>2, <1>3, <1>4, <1>5 DEF Next
<1>7. g = h
  BY <1>m, <1>1, <1>6
<1>8. ~Leave(h) /\ ~Goto(h, "check") /\ ~Goto(h, "mark") /\ ~Goto(h, "submit")
  BY <1>0, <1>m DEF Leave, Goto, HandlersTyped
<1>9. at[h] \notin InTransaction
  BY DEF Working
<1> QED
  BY <1>6, <1>7, <1>8, <1>9
     DEF Dispatch, Submit, Pick, Write, DispatchCommit, RefreshCommit, SubmitOk, SubmitFails,
         MarkCommit, CallbackCommit, Resume, Abort, InTransaction

LEMMA StepOneWorks ==
  ASSUME TurnIInv, ~Overlap, [Next]_vars
  PROVE  OneWorks'
<1> SUFFICES ASSUME NEW x \in Handlers, NEW y \in Handlers, x # y,
                    Working(x)', Working(y)', ~Working(x)
             PROVE  FALSE
  <2>1. \A x, y \in Handlers : x # y => ~Working(x) \/ ~Working(y)
    BY DEF TurnIInv, OneWorks
  <2> QED
    BY <2>1 DEF OneWorks
<1>1. IInv /\ HandlersTyped
  BY TypeParts DEF TurnIInv, IInv
<1>2. Check(x) \/ Mark(x) \/ \E t \in Tasks : Callback(x, t)
  BY <1>1, Entering
<1>3. Turn(x) /\ at'[y] = at[y]
  <2>1. CASE Check(x)
    BY <1>1, <2>1, LeaveMoves DEF Check, Goto, Kept, HandlersTyped
  <2>2. CASE Mark(x) \/ \E t \in Tasks : Callback(x, t)
    BY <1>1, <2>2 DEF Mark, Callback, Goto, HandlersTyped
  <2> QED
    BY <1>2, <2>1, <2>2
<1> QED
  BY <1>3 DEF Turn, Working

LEMMA UndisturbedSummary ==
  ASSUME NEW h \in Handlers, SummaryOK(h), Undisturbed(h)
  PROVE  SummaryOK(h)'
<1>1. JobSeenBy(h)' = JobSeenBy(h)
  BY DEF Undisturbed, JobSeenBy
<1>2. /\ at'[h] = at[h] /\ mine'[h] = mine[h] /\ chosen'[h] = chosen[h]
      /\ seen'[h] = seen[h] /\ write'[h] = write[h] /\ job' = job /\ step' = step
      /\ at[h] = "callback" => /\ answer'[mine[h]] = answer[mine[h]]
                               /\ phase'[mine[h]] \in {"decided", "settled"}
  BY DEF Undisturbed, Kept
<1> QED
  BY <1>1, <1>2 DEF SummaryOK

\* What a callback finds: its task is the running step's own.
LEMMA CallbackSummary ==
  ASSUME TurnIInv, NEW h \in Handlers, NEW t \in Tasks, Callback(h, t)
  PROVE  SummaryOK(h)'
<1>0. TablesTyped /\ HandlersTyped /\ TaskRowOK(t)
  BY TypeParts DEF TurnIInv, IInv, RowsOK
<1>1. /\ task[t] = "queued" /\ phase[t] = "decided"
      /\ at'[h] = "callback" /\ mine'[h] = t /\ write' = [write EXCEPT ![h] = SideEffects(t)]
      /\ UNCHANGED <<job, step, phase, answer>>
  BY <1>0 DEF Callback, Goto, HandlersTyped, tables, service
<1>2. about[t] \in StepsOf(t)
  BY <1>0, <1>1 DEF TaskRowOK, StepsOf
<1>3. PICK s \in Steps :
        /\ chosen' = [chosen EXCEPT ![h] = s]
        /\ seen' = [seen EXCEPT ![h] = Refresh(job, [step EXCEPT ![s] = answer[t]])]
  BY <1>2 DEF Callback, StepsOf
<1>4. chosen'[h] = s /\ s # 0 /\ seen'[h] = Refresh(job, [step EXCEPT ![s] = answer[t]])
  BY <1>0, <1>3 DEF HandlersTyped, Steps
<1>5. write'[h] \/ job = "cancelled"
  <2>1. \A r \in StepsOf(t) : step[r] = "running"
    BY <1>0, <1>1, NoTaskAssumption DEF StepsOf, TaskRowOK, TurnIInv, IInv, LinkOK
  <2>2. job # "cancelled" => SideEffects(t)
    BY <2>1 DEF SideEffects
  <2>3. write'[h] = SideEffects(t)
    BY <1>0, <1>1, Zenon DEF HandlersTyped
  <2> QED
    BY <2>2, <2>3, Zenon
<1> QED
  BY <1>1, <1>4, <1>5 DEF SummaryOK

LEMMA StepSummaryOK ==
  ASSUME TurnIInv, ~Overlap, [Next]_vars, NEW h \in Handlers
  PROVE  SummaryOK(h)'
<1>0. TablesTyped /\ HandlersTyped /\ HandlerOK(h) /\ SummaryOK(h)
  BY TypeParts DEF TurnIInv, IInv
<1> USE DEF Goto, HandlersTyped, TablesTyped, tables
<1>w. ~Working(h)' => SummaryOK(h)'
  BY DEF Working, InTransaction, SummaryOK
<1>1. CASE Check(h)
  <2>1. CASE at'[h] = "pick"
    BY <1>0, <1>1, <2>1 DEF Check, Leave, SummaryOK
  <2>2. CASE at'[h] # "pick"
    BY <1>0, <1>1, <1>w, <2>2 DEF Check, Leave, Working, InTransaction
  <2> QED
    BY <2>1, <2>2
<1>2. CASE Mark(h)
  BY <1>0, <1>2 DEF Mark, SummaryOK
<1>3. ASSUME NEW t \in Tasks, Callback(h, t) PROVE SummaryOK(h)'
  BY <1>3, CallbackSummary
<1>4. CASE Pick(h)
  BY <1>0, <1>4 DEF Pick, FirstQueued, SummaryOK, JobSeenBy
<1>5. ASSUME NEW t \in Tasks, Write(h, t) PROVE SummaryOK(h)'
  BY <1>0, <1>5 DEF Write, SummaryOK, JobSeenBy
<1>6. CASE DispatchCommit(h) \/ RefreshCommit(h) \/ MarkCommit(h) \/ CallbackCommit(h) \/ Abort(h)
  <2>1. at'[h] \in {"idle", "check", "submit"}
    BY <1>0, <1>6 DEF DispatchCommit, RefreshCommit, MarkCommit, CallbackCommit, Abort, Leave
  <2> QED
    BY <1>w, <2>1 DEF Working, InTransaction
<1>7. CASE Working(h)
  <2>1. Continues(h) \/ Undisturbed(h)
    BY <1>7, OthersWait
  <2> QED
    BY <1>0, <1>4, <1>5, <1>6, <2>1, UndisturbedSummary DEF Continues
<1>8. CASE ~Working(h) /\ Working(h)'
  <2>1. Check(h) \/ Mark(h) \/ \E t \in Tasks : Callback(h, t)
    BY <1>8, Entering DEF TurnIInv
  <2> QED
    BY <1>1, <1>2, <1>3, <2>1
<1> QED
  BY <1>w, <1>7, <1>8

LEMMA StepTurnIInv == TurnIInv /\ ~Overlap /\ [Next]_vars => TurnIInv'
<1> SUFFICES ASSUME TurnIInv, ~Overlap, [Next]_vars PROVE TurnIInv'
  OBVIOUS
<1>1. IInv' /\ TablesTyped'
  <2>1. IInv'
    BY StepIInv DEF TurnIInv
  <2>2. TypeOK' => TablesTyped'
    BY Zenon DEF TypeOK, TablesTyped
  <2> QED
    BY <2>1, <2>2 DEF IInv
<1> QED
  BY <1>1, StepOneWorks, StepRowsOK, StepSummaryOK DEF TurnIInv

\* The invariant of requests that take turns holds in every reachable state.
THEOREM TurnInvariance == ~Overlap => (Spec => []TurnIInv)
<1> SUFFICES ASSUME ~Overlap PROVE Spec => []TurnIInv
  OBVIOUS
<1>1. TurnIInv /\ [Next]_vars => TurnIInv'
  BY StepTurnIInv
<1> QED
  BY <1>1, InitTurnIInv, PTL DEF Spec

\* Requests that do not overlap dispatch one chapter task at a time, however
\* they are interrupted and whatever the sweeper and the users do between.
THEOREM TurnsOneStepRunning == ~Overlap => (Spec => []OneStepRunning)
<1> SUFFICES ASSUME ~Overlap PROVE Spec => []OneStepRunning
  OBVIOUS
<1>1. TurnIInv => OneStepRunning
  BY DEF TurnIInv, RowsOK
<1> QED
  BY <1>1, TurnInvariance, PTL

\* A job they leave done has written every chapter that was not cancelled, and
\* they never pass the generate gate before the chapters are written.
THEOREM TurnsDoneMeansWritten == ~Overlap => (Spec => []DoneMeansWritten)
<1> SUFFICES ASSUME ~Overlap PROVE Spec => []DoneMeansWritten
  OBVIOUS
<1>1. TurnIInv => DoneMeansWritten
  BY DEF TurnIInv, RowsOK, JobOK, ChapterOK, DoneMeansWritten
<1> QED
  BY <1>1, TurnInvariance, PTL

\* A chapter they leave "generating" has a queued task that may write it,
\* unless its job was cancelled.
THEOREM TurnsGeneratingHasTask == ~Overlap => (Spec => []GeneratingHasTask)
<1> SUFFICES ASSUME ~Overlap PROVE Spec => []GeneratingHasTask
  OBVIOUS
<1>1. TurnIInv => GeneratingHasTask
  BY DEF TurnIInv, IInv, TypeOK, RowsOK, ChapterOK, StepFollowsTask, GeneratingHasTask
<1> QED
  BY <1>1, TurnInvariance, PTL

LEMMA StepCancelled ==
  ASSUME TurnIInv, [Next]_vars, job = "cancelled"
  PROVE  job' = "cancelled" /\ \A s \in Steps : step'[s] = "running" => step[s] = "running"
<1> DEFINE Final == job' = "cancelled" /\ \A s \in Steps : step'[s] = "running" => step[s] = "running"
<1>0. TablesTyped
  BY TypeParts DEF TurnIInv, IInv
<1>k. ASSUME UNCHANGED <<job, step>> PROVE Final
  BY <1>k
<1>1. ASSUME NEW g \in Handlers, Dispatch(g) PROVE Final
  <2>1. at[g] \notin {"pick", "write", "dispatch", "refresh"}
    BY DEF TurnIInv, SummaryOK
  <2>2. Check(g)
    BY <1>1, <2>1 DEF Dispatch, Pick, Write, DispatchCommit, RefreshCommit
  <2> QED
    BY <2>2 DEF Check, tables
<1>2. ASSUME NEW g \in Handlers, NEW verdict \in Verdicts, WriteBack(g),
             NEW s0 \in Steps, step' = [step EXCEPT ![s0] = verdict], seen[g] = Refresh(job, step')
      PROVE  Final
  <2>1. job' = "cancelled"
    BY <1>0, <1>2 DEF WriteBack, Refresh, NextStatus
  <2> QED
    BY <1>0, <1>2, <2>1 DEF Verdicts, TablesTyped
<1>3. ASSUME NEW g \in Handlers, Submit(g) PROVE Final
  <2>1. CASE MarkCommit(g)
    <3>1. chosen[g] \in Steps /\ seen[g] = Refresh(job, step') /\ WriteBack(g)
          /\ step' = [step EXCEPT ![chosen[g]] = "failed"]
      BY <2>1 DEF MarkCommit, TurnIInv, IInv, HandlerOK, SummaryOK
    <3> QED
      BY <1>2, <3>1 DEF Verdicts
  <2> QED
    BY <1>3, <2>1 DEF Submit, SubmitOk, SubmitFails, Mark, tables
<1>4. ASSUME NEW g \in Handlers, CallbackCommit(g) PROVE Final
  <2>1. /\ answer[mine[g]] \in Verdicts /\ chosen[g] \in Steps /\ chosen[g] # 0
        /\ seen[g] = Refresh(job, [step EXCEPT ![chosen[g]] = answer[mine[g]]])
    <3>1. HandlerOK(g) /\ SummaryOK(g) /\ at[g] = "callback" /\ HandlersTyped
      BY <1>4, TypeParts DEF TurnIInv, IInv, CallbackCommit
    <3> QED
      BY <3>1 DEF HandlerOK, SummaryOK, HandlersTyped, Steps
  <2>2. step' = [step EXCEPT ![chosen[g]] = answer[mine[g]]] /\ WriteBack(g)
    BY <1>4, <2>1 DEF CallbackCommit
  <2> QED
    BY <1>2, <2>1, <2>2
<1>5. CASE Cancel
  BY <1>0, <1>5 DEF Cancel, NextStatus, TablesTyped
<1>6. ASSUME NEW old \in SUBSET Tasks, Sweep(old) PROVE Final
  BY <1>0, <1>6 DEF Sweep, TablesTyped
<1>7. ASSUME NEW g \in Handlers, Resume(g) \/ Abort(g) \/ \E t \in Tasks : Callback(g, t)
      PROVE  Final
  BY <1>7 DEF Resume, Abort, Callback, tables
<1>8. ASSUME Service \/ UNCHANGED vars \/ Pause \/ \E t \in Tasks : CallbackIgnored(t)
      PROVE  Final
  BY <1>8 DEF Service, vars, Pause, CallbackIgnored, tables
<1> QED
  BY <1>1, <1>3, <1>4, <1>5, <1>6, <1>7, <1>8 DEF Next

\* Nothing brings a cancelled job back or starts another of its steps.
THEOREM TurnsCancelIsFinal == ~Overlap => (Spec => CancelIsFinal)
<1> SUFFICES ASSUME ~Overlap PROVE Spec => CancelIsFinal
  OBVIOUS
<1>1. TurnIInv /\ [Next]_vars
      => [job = "cancelled" =>
            /\ job' = "cancelled"
            /\ \A s \in Steps : step'[s] = "running" => step[s] = "running"]_vars
  BY StepCancelled
<1> QED
  BY <1>1, TurnInvariance, PTL DEF Spec, CancelIsFinal

-----------------------------------------------------------------------------
\* Of the AI service the job takes for granted only what CallbackOutbox
\* promises of it: in the eyes of its tasks, every submission of a chapter,
\* every callback and every step of the service is a step of the outbox.
Does(t) == \/ AI!Accept(t, TRUE) \/ AI!Tell(t) \/ AI!Settle(t)
           \/ \E v \in Verdicts : AI!Decide(t, v)

LEMMA ServiceSteps ==
  ASSUME IInv, [Next]_vars
  PROVE  UNCHANGED service \/ \E t \in Tasks : Does(t)
<1>h. \A g \in Handlers : at[g] \in {"submit", "callback"} => mine[g] \in Tasks
  BY DEF IInv, HandlerOK, Holding
<1> USE DEF Does
<1>1. ASSUME NEW g \in Handlers, Dispatch(g) PROVE UNCHANGED service
  BY <1>1, Zenon DEF Dispatch, Check, Pick, Write, DispatchCommit, RefreshCommit
<1>2. ASSUME NEW g \in Handlers, Submit(g) PROVE UNCHANGED service \/ \E t \in Tasks : Does(t)
  <2>1. CASE SubmitOk(g) \/ SubmitFails(g)
    <3>1. at[g] = "submit" /\ (UNCHANGED service \/ Does(mine[g]))
      BY <2>1, Zenon DEF SubmitOk, SubmitFails
    <3> QED
      BY <1>h, <3>1
  <2>2. CASE Mark(g) \/ MarkCommit(g)
    BY <2>2, Zenon DEF Mark, MarkCommit
  <2> QED
    BY <1>2, <2>1, <2>2 DEF Submit
<1>3. ASSUME NEW g \in Handlers, CallbackCommit(g)
      PROVE  UNCHANGED service \/ \E t \in Tasks : Does(t)
  <2>1. at[g] = "callback" /\ (UNCHANGED service \/ Does(mine[g]))
    BY <1>3, Zenon DEF CallbackCommit, Hear
  <2> QED
    BY <1>h, <2>1
<1>4. ASSUME NEW g \in Handlers, NEW t \in Tasks, Callback(g, t) PROVE UNCHANGED service
  BY <1>4, Zenon DEF Callback
<1>5. ASSUME NEW g \in Handlers, Resume(g) \/ Abort(g) PROVE UNCHANGED service
  BY <1>5, Zenon DEF Resume, Abort
<1>6. ASSUME NEW t \in Tasks, CallbackIgnored(t) PROVE UNCHANGED service \/ Does(t)
  BY <1>6, Zenon DEF CallbackIgnored, Hear
<1>7. Pause \/ Cancel \/ UNCHANGED vars => UNCHANGED service
  BY Zenon DEF Pause, Cancel, vars
<1>8. ASSUME NEW old \in SUBSET Tasks, Sweep(old) PROVE UNCHANGED service
  BY <1>8, Zenon DEF Sweep
<1>9. Service => \E t \in Tasks : Does(t)
  BY Zenon DEF Service
<1> QED
  BY <1>1, <1>2, <1>3, <1>4, <1>5, <1>6, <1>7, <1>8, <1>9, Zenon DEF Next

THEOREM JobsUseOutbox == Spec => AI!Spec
<1>1. Init => AI!Init
  BY DEF Init
<1>2. IInv /\ [Next]_vars => [AI!Next]_(AI!vars)
  <2> SUFFICES ASSUME IInv, [Next]_vars PROVE UNCHANGED service \/ AI!Next
    BY DEF service, AI!vars
  <2> QED
    BY ServiceSteps, Zenon DEF Does, AI!Next
<1> QED
  BY <1>1, <1>2, JobInvariance, PTL DEF Spec, AI!Spec
=============================================================================
