---------------------------- MODULE GenerationJob ----------------------------
(***************************************************************************)
(* backend/internal/platform/bid/store.go: one chapter-by-chapter          *)
(* generation job of a bid, from the commit of GenerateBid on.  The job    *)
(* dispatches one chapter task at a time to the AI service; the callback   *)
(* of a task refreshes step, job, chapter and the generate gate, and       *)
(* dispatches the next queued step.  Users pause, resume and cancel; the   *)
(* sweeper of taskstatus/recovery.go expires tasks older than an hour.     *)
(*                                                                         *)
(* Every database transaction is READ COMMITTED.  Those that read the job  *)
(* and write it back later are split between the statement that reads and  *)
(* the commit; a transaction that has updated a task or step row holds it  *)
(* until it commits.  The AI service is what CallbackOutbox promises.      *)
(***************************************************************************)
EXTENDS Integers, FiniteSets

CONSTANTS NumSteps,   \* chapters of the job, in step_order
          Tasks,      \* bound: ai_tasks rows that can be created
          Handlers,   \* requests the backend serves at a time
          NoTask,     \* the ai_task_id of a step never dispatched
          NoHandler,  \* nobody holds the lock of the job row
          MaxAborts,  \* bound: requests cut short
          LossyCalls, \* whether the answer to a submitted task may be lost
          Overlap     \* whether requests about the job overlap in time

ASSUME StepsAssumption   == NumSteps \in Nat \ {0}
ASSUME NoTaskAssumption  == NoTask \notin Tasks
ASSUME HandlerAssumption == NoHandler \notin Handlers
ASSUME AbortsAssumption  == MaxAborts \in Nat
ASSUME ModeAssumption    == LossyCalls \in BOOLEAN /\ Overlap \in BOOLEAN

Steps == 1..NumSteps
Verdicts == {"done", "failed"}
NoAnswer == "none"

VARIABLES
    job,       \* bid_generation_jobs.status
    step,      \* step[s]: bid_generation_steps.status
    link,      \* link[s]: bid_generation_steps.ai_task_id
    task,      \* task[t]: ai_tasks.status, "unused" without a row
    about,     \* about[t]: the chapter (step number) of the task, 0 if unused
    elder,     \* elder[t]: the tasks created before t
    chapter,   \* chapter[s]: bid_chapters.status
    gate,      \* the generate gate of the bid
    at,        \* at[g]: where handler g is
    mine,      \* mine[g]: the task g works for
    chosen,    \* chosen[g]: the step g works on, 0 for none
    seen,      \* seen[g]: what g's refresh computed from what it read
    write,     \* write[g]: whether g's callback may write the chapter
    jobLock,   \* the handler that holds the job row since its first UPDATE
    aborts,    \* requests cut short so far
    applied,   \* history: callbacks applied to each task
    phase, answer, wanted, heard    \* the AI service, see CallbackOutbox

AI == INSTANCE CallbackOutbox WITH Jobs <- Tasks

tables   == <<job, step, link, task, about, elder, chapter, gate, applied>>
requests == <<at, mine, chosen, seen, write, jobLock>>
service  == <<phase, answer, wanted, heard>>
vars     == <<tables, requests, aborts, service>>

JobStatus  == {"queued", "running", "paused", "done", "failed", "cancelled"}
StepStatus == {"queued", "running", "done", "failed", "cancelled"}
TaskStatus == {"unused", "queued", "done", "failed"}
Chapter    == {"pending", "generating", "generated", "needs_fix"}
Gate       == {"pending", "passed", "blocked"}
Places     == {"idle", "check", "pick", "write", "dispatch", "refresh",
               "submit", "mark", "marking", "callback"}

\* What refreshGenerationJobAndShouldDispatch computes from its summary.
Summary == [next : JobStatus, gate : Gate, go : BOOLEAN]
Nothing == [next |-> "queued", gate |-> "pending", go |-> FALSE]

TypeOK ==
    /\ job \in JobStatus
    /\ step \in [Steps -> StepStatus]
    /\ link \in [Steps -> Tasks \union {NoTask}]
    /\ task \in [Tasks -> TaskStatus]
    /\ about \in [Tasks -> Steps \union {0}]
    /\ elder \in [Tasks -> SUBSET Tasks]
    /\ chapter \in [Steps -> Chapter]
    /\ gate \in Gate
    /\ at \in [Handlers -> Places]
    /\ mine \in [Handlers -> Tasks \union {NoTask}]
    /\ chosen \in [Handlers -> Steps \union {0}]
    /\ seen \in [Handlers -> Summary]
    /\ write \in [Handlers -> BOOLEAN]
    /\ jobLock \in Handlers \union {NoHandler}
    /\ aborts \in 0..MaxAborts
    /\ applied \in [Tasks -> Nat]
    /\ AI!TypeOK

\* GenerateBid has committed: the job and its steps are queued, the gate is
\* pending, and its handler is about to dispatch.
Init ==
    /\ job = "queued"
    /\ step = [s \in Steps |-> "queued"]
    /\ link = [s \in Steps |-> NoTask]
    /\ task = [t \in Tasks |-> "unused"]
    /\ about = [t \in Tasks |-> 0]
    /\ elder = [t \in Tasks |-> {}]
    /\ chapter = [s \in Steps |-> "pending"]
    /\ gate = "pending"
    /\ \E g \in Handlers : at = [h \in Handlers |-> IF h = g THEN "check" ELSE "idle"]
    /\ mine = [g \in Handlers |-> NoTask]
    /\ chosen = [g \in Handlers |-> 0]
    /\ seen = [g \in Handlers |-> Nothing]
    /\ write = [g \in Handlers |-> FALSE]
    /\ jobLock = NoHandler
    /\ aborts = 0
    /\ applied = [t \in Tasks |-> 0]
    /\ AI!Init

-----------------------------------------------------------------------------
InTransaction == {"pick", "write", "dispatch", "refresh", "marking", "callback"}

\* Without overlap a request about the job waits for the transactions of
\* the others; with it, only locks keep them apart.
Turn(g) == Overlap \/ \A h \in Handlers \ {g} : at[h] \notin InTransaction
UserTurn == Overlap \/ \A h \in Handlers : at[h] \notin InTransaction

\* Row locks: a transaction that is past its first UPDATE of the row.
Holding == {"dispatch", "marking", "callback"}
StepFree(s) == \A h \in Handlers : at[h] \in Holding => chosen[h] # s
\* Mutant: the callback reads its task without FOR UPDATE.
TaskUnlocked(t) == TRUE
TaskFree(t) == \A h \in Handlers : at[h] \in Holding => mine[h] # t
JobFree(g)  == jobLock \in {NoHandler, g}

Leave(g) ==
    /\ at' = [at EXCEPT ![g] = "idle"]
    /\ mine' = [mine EXCEPT ![g] = NoTask]
    /\ chosen' = [chosen EXCEPT ![g] = 0]
    /\ seen' = [seen EXCEPT ![g] = Nothing]
    /\ write' = [write EXCEPT ![g] = FALSE]
    /\ jobLock' = IF jobLock = g THEN NoHandler ELSE jobLock

Goto(g, place) == at' = [at EXCEPT ![g] = place]

-----------------------------------------------------------------------------
\* Mutant: a gate that does not wait for the running step.
GateAtLastDispatch(next, st) ==
    IF \E s \in Steps : st[s] \in {"failed", "cancelled"} THEN "blocked"
    ELSE IF \A s \in Steps : st[s] # "queued" THEN "passed"
    ELSE IF next \in {"queued", "running", "paused"} THEN "pending" ELSE "blocked"

\* pipelineGateStatusForGenerationJob
GateFor(next, st) ==
    IF \E s \in Steps : st[s] \in {"failed", "cancelled"} THEN "blocked"
    ELSE IF \A s \in Steps : st[s] = "done" THEN "passed"
    ELSE IF next \in {"queued", "running", "paused"} THEN "pending"
    ELSE IF next = "done" THEN "passed" ELSE "blocked"

NextStatus(current, st) ==
    IF current \in {"paused", "cancelled"} THEN current
    ELSE IF \E s \in Steps : st[s] = "failed" THEN "failed"
    ELSE IF \E s \in Steps : st[s] \in {"running", "queued"} THEN "running"
    ELSE IF \A s \in Steps : st[s] = "cancelled" THEN "cancelled" ELSE "done"

\* Mutant: an off-by-one that never dispatches the last queued step.
DispatchButLast(current, st) ==
    /\ current \notin {"paused", "cancelled"}
    /\ \A s \in Steps : st[s] \notin {"failed", "running"}
    /\ Cardinality({s \in Steps : st[s] = "queued"}) > 1

ShouldDispatch(current, st) ==
    /\ current \notin {"paused", "cancelled"}
    /\ \A s \in Steps : st[s] \notin {"failed", "running"}
    /\ \E s \in Steps : st[s] = "queued"

\* The summary query of a refresh over the steps st and the job status
\* current, and what the UPDATE at its end will write.
Refresh(current, st) ==
    [next |-> NextStatus(current, st),
     gate |-> GateFor(NextStatus(current, st), st),
     go   |-> ShouldDispatch(current, st)]

\* The job row as the transaction of g sees it.
JobSeenBy(g) == IF jobLock = g /\ job = "queued" THEN "running" ELSE job

WriteBack(g) == job' = seen[g].next /\ gate' = seen[g].gate

-----------------------------------------------------------------------------
(* dispatchNextGenerationStep *)

\* Mutant: the search for a running step left out.
CheckStatusOnly(g) ==
    /\ at[g] = "check"
    /\ Turn(g)
    /\ IF job \notin {"queued", "running"}
       THEN Leave(g)
       ELSE /\ job = "queued" => JobFree(g)
            /\ Goto(g, "pick")
            /\ jobLock' = IF job = "queued" THEN g ELSE jobLock
            /\ UNCHANGED <<mine, chosen, seen, write>>
    /\ UNCHANGED <<tables, aborts, service>>

\* The job's status, the UPDATE of a queued job (which locks its row), and
\* the search for a running step.
Check(g) ==
    /\ at[g] = "check"
    /\ Turn(g)
    /\ IF job \notin {"queued", "running"}
       THEN Leave(g) /\ UNCHANGED tables
       ELSE /\ job = "queued" => JobFree(g)
            /\ IF \E s \in Steps : step[s] = "running"
               THEN /\ Leave(g)
                    /\ job' = "running"
                    /\ UNCHANGED <<step, link, task, about, elder, chapter, gate, applied>>
               ELSE /\ Goto(g, "pick")
                    /\ jobLock' = IF job = "queued" THEN g ELSE jobLock
                    /\ UNCHANGED <<tables, mine, chosen, seen, write>>
    /\ UNCHANGED <<aborts, service>>

FirstQueued(s) == step[s] = "queued" /\ \A r \in 1..(s - 1) : step[r] # "queued"

\* The first queued step; without one the job is only refreshed.
Pick(g) ==
    /\ at[g] = "pick"
    /\ \/ \E s \in Steps :
            /\ FirstQueued(s)
            /\ Goto(g, "write")
            /\ chosen' = [chosen EXCEPT ![g] = s]
            /\ UNCHANGED seen
       \/ /\ \A s \in Steps : step[s] # "queued"
          /\ Goto(g, "refresh")
          /\ seen' = [seen EXCEPT ![g] = Refresh(JobSeenBy(g), step)]
          /\ UNCHANGED chosen
    /\ UNCHANGED <<tables, mine, write, jobLock, aborts, service>>

\* The task row is inserted, step and chapter are updated by id, and the
\* refresh reads its summary.
Write(g, t) ==
    /\ at[g] = "write"
    /\ StepFree(chosen[g])
    /\ task[t] = "unused"
    /\ TaskFree(t)
    /\ Goto(g, "dispatch")
    /\ mine' = [mine EXCEPT ![g] = t]
    /\ seen' = [seen EXCEPT ![g] =
                    Refresh(JobSeenBy(g), [step EXCEPT ![chosen[g]] = "running"])]
    /\ UNCHANGED <<tables, chosen, write, jobLock, aborts, service>>

DispatchCommit(g) ==
    /\ at[g] = "dispatch"
    /\ JobFree(g)
    /\ task' = [task EXCEPT ![mine[g]] = "queued"]
    /\ about' = [about EXCEPT ![mine[g]] = chosen[g]]
    /\ elder' = [elder EXCEPT ![mine[g]] = {t \in Tasks : task[t] # "unused"}]
    /\ step' = [step EXCEPT ![chosen[g]] = "running"]
    /\ link' = [link EXCEPT ![chosen[g]] = mine[g]]
    /\ chapter' = [chapter EXCEPT ![chosen[g]] = "generating"]
    /\ WriteBack(g)
    /\ Goto(g, "submit")
    /\ jobLock' = IF jobLock = g THEN NoHandler ELSE jobLock
    /\ UNCHANGED <<mine, chosen, seen, write, aborts, applied, service>>

\* The refresh of a dispatch that found nothing to do.
RefreshCommit(g) ==
    /\ at[g] = "refresh"
    /\ JobFree(g)
    /\ WriteBack(g)
    /\ Leave(g)
    /\ UNCHANGED <<step, link, task, about, elder, chapter, applied, aborts, service>>

\* submitChapterGenerate after the commit: the AI service accepts and the
\* task is bound (which changes nothing modelled here) ...
SubmitOk(g) ==
    /\ at[g] = "submit"
    /\ AI!Accept(mine[g], TRUE)
    /\ Leave(g)
    /\ UNCHANGED <<tables, aborts>>

\* ... or it accepts and the answer is lost, or it never hears of it.
SubmitFails(g) ==
    /\ at[g] = "submit"
    /\ UNCHANGED service \/ (LossyCalls /\ AI!Accept(mine[g], TRUE))
    /\ Goto(g, "mark")
    /\ UNCHANGED <<tables, mine, chosen, seen, write, jobLock, aborts>>

\* markGenerationStepFailed: task, step and chapter by id, then a refresh.
Mark(g) ==
    /\ at[g] = "mark"
    /\ Turn(g)
    /\ StepFree(chosen[g])
    /\ TaskFree(mine[g])
    /\ Goto(g, "marking")
    /\ seen' = [seen EXCEPT ![g] = Refresh(job, [step EXCEPT ![chosen[g]] = "failed"])]
    /\ UNCHANGED <<tables, mine, chosen, write, jobLock, aborts, service>>

\* Mutant: the chapter of a failed submission forgotten.
MarkTaskAndStep(g) ==
    /\ at[g] = "marking"
    /\ JobFree(g)
    /\ task' = [task EXCEPT ![mine[g]] = "failed"]
    /\ step' = [step EXCEPT ![chosen[g]] = "failed"]
    /\ WriteBack(g)
    /\ Leave(g)
    /\ UNCHANGED <<link, about, elder, chapter, applied, aborts, service>>

MarkCommit(g) ==
    /\ at[g] = "marking"
    /\ JobFree(g)
    /\ task' = [task EXCEPT ![mine[g]] = "failed"]
    /\ step' = [step EXCEPT ![chosen[g]] = "failed"]
    /\ chapter' = [chapter EXCEPT ![chosen[g]] = "needs_fix"]
    /\ WriteBack(g)
    /\ Leave(g)
    /\ UNCHANGED <<link, about, elder, applied, aborts, service>>

-----------------------------------------------------------------------------
(* ApplyCallback *)

\* The AI service has been told 2xx or will try again: either way the
\* answer has been heard.
Hear(t) == AI!Tell(t) \/ (phase[t] # "decided" /\ UNCHANGED service)

Terminal == {"done", "failed"}

\* ShouldApplyCallback refuses: the task is terminal already.
CallbackIgnored(t) ==
    /\ phase[t] = "decided"
    /\ UserTurn
    /\ TaskFree(t)
    /\ task[t] \in Terminal
    /\ Hear(t)
    /\ UNCHANGED <<tables, requests, aborts>>

StepsOf(t) == {s \in Steps : link[s] = t}

\* chapterTaskSideEffectsAllowed: no linked step, or neither it nor the job
\* is cancelled.
SideEffects(t) ==
    \A s \in StepsOf(t) : step[s] # "cancelled" /\ job # "cancelled"

\* The task row is locked (FOR UPDATE); whether the chapter may be written is
\* decided, the linked step is updated and the refresh reads its summary.
Callback(g, t) ==
    /\ at[g] = "idle"
    /\ phase[t] = "decided"
    /\ Turn(g)
    /\ TaskFree(t)
    /\ task[t] = "queued"
    /\ Goto(g, "callback")
    /\ mine' = [mine EXCEPT ![g] = t]
    /\ write' = [write EXCEPT ![g] = SideEffects(t)]
    /\ \/ \E s \in StepsOf(t) :
            /\ StepFree(s)
            /\ chosen' = [chosen EXCEPT ![g] = s]
            /\ seen' = [seen EXCEPT ![g] = Refresh(job, [step EXCEPT ![s] = answer[t]])]
       \/ StepsOf(t) = {} /\ UNCHANGED <<chosen, seen>>
    /\ UNCHANGED <<tables, jobLock, aborts, service>>

Written(verdict) == IF verdict = "done" THEN "generated" ELSE "needs_fix"

\* The commit; afterwards the next step is dispatched in the same request.
CallbackCommit(g) ==
    LET t == mine[g] IN
    /\ at[g] = "callback"
    /\ chosen[g] # 0 => JobFree(g)
    /\ task' = [task EXCEPT ![t] = answer[t]]
    /\ applied' = [applied EXCEPT ![t] = @ + 1]
    /\ chapter' = [chapter EXCEPT ![about[t]] = IF write[g] THEN Written(answer[t]) ELSE @]
    /\ IF chosen[g] = 0
       THEN UNCHANGED <<step, job, gate>>
       ELSE step' = [step EXCEPT ![chosen[g]] = answer[t]] /\ WriteBack(g)
    /\ Hear(t)
    /\ IF chosen[g] # 0 /\ seen[g].go
       THEN /\ Goto(g, "check")
            /\ mine' = [mine EXCEPT ![g] = NoTask]
            /\ chosen' = [chosen EXCEPT ![g] = 0]
            /\ seen' = [seen EXCEPT ![g] = Nothing]
            /\ write' = [write EXCEPT ![g] = FALSE]
            /\ UNCHANGED jobLock
       ELSE Leave(g)
    /\ UNCHANGED <<link, about, elder, aborts>>

\* A request ends before its work does: the process dies, the database
\* aborts the transaction (deadlocks included), or the caller hangs up and
\* its context is cancelled (the AI service waits ten seconds).
Abort(g) ==
    /\ at[g] # "idle"
    /\ aborts < MaxAborts
    /\ aborts' = aborts + 1
    /\ Leave(g)
    /\ UNCHANGED <<tables, service>>

-----------------------------------------------------------------------------
(* Users and the sweeper *)

Pause ==
    /\ UserTurn
    /\ jobLock = NoHandler
    /\ job \in {"queued", "running"}
    /\ job' = "paused"
    /\ UNCHANGED <<step, link, task, about, elder, chapter, gate, applied, requests, aborts, service>>

\* Mutant: the UPDATE without its "status = 'paused'".
ResumeAny(g) ==
    /\ at[g] = "idle"
    /\ UserTurn
    /\ jobLock = NoHandler
    /\ job' = "running"
    /\ Goto(g, "check")
    /\ UNCHANGED <<step, link, task, about, elder, chapter, gate, applied, mine, chosen, seen, write, jobLock, aborts, service>>

\* A job that is not paused is not updated, but dispatched all the same.
Resume(g) ==
    /\ at[g] = "idle"
    /\ UserTurn
    /\ jobLock = NoHandler
    /\ job' = IF job = "paused" THEN "running" ELSE job
    /\ Goto(g, "check")
    /\ UNCHANGED <<step, link, task, about, elder, chapter, gate, applied, mine, chosen, seen, write, jobLock, aborts, service>>

\* The job row is updated first, so the refresh at the end reads it as the
\* commit leaves it.
Cancel ==
    LET status == IF job \in {"queued", "running", "paused"} THEN "cancelled" ELSE job
        st == [s \in Steps |-> IF step[s] = "queued" THEN "cancelled" ELSE step[s]]
    IN
    /\ UserTurn
    /\ jobLock = NoHandler
    /\ \A s \in Steps : step[s] = "queued" => StepFree(s)
    /\ step' = st
    /\ job' = NextStatus(status, st)
    /\ gate' = GateFor(NextStatus(status, st), st)
    /\ UNCHANGED <<link, task, about, elder, chapter, applied, requests, aborts, service>>

Superseded(t) == \E n \in Tasks : about[n] = about[t] /\ t \in elder[n]

\* Mutant: the sweeper expires tasks and chapters but forgets the steps.
SweepTasksOnly(old) ==
    /\ UserTurn
    /\ \A t \in old : task[t] = "queued" /\ TaskFree(t)
    /\ task' = [t \in Tasks |-> IF t \in old THEN "failed" ELSE task[t]]
    /\ chapter' = [s \in Steps |->
            IF /\ chapter[s] = "generating"
               /\ \E t \in old : about[t] = s /\ ~Superseded(t)
            THEN "needs_fix" ELSE chapter[s]]
    /\ UNCHANGED <<job, step, link, about, elder, gate, applied, requests, aborts, service>>

\* ExpireInterruptedTasks: any queued task may be an hour old, and old is what
\* the query selects and locks; rows locked by others are skipped.
Sweep(old) ==
    /\ UserTurn
    /\ jobLock = NoHandler
    /\ \A t \in old : task[t] = "queued" /\ TaskFree(t)
    /\ \A t \in old, s \in Steps : link[s] = t => StepFree(s)
    /\ task' = [t \in Tasks |-> IF t \in old THEN "failed" ELSE task[t]]
    /\ chapter' = [s \in Steps |->
            IF /\ chapter[s] = "generating"
               /\ \E t \in old : about[t] = s /\ ~Superseded(t)
            THEN "needs_fix" ELSE chapter[s]]
    /\ step' = [s \in Steps |->
            IF link[s] \in old /\ step[s] \in {"queued", "running"} THEN "failed" ELSE step[s]]
    /\ job' = IF job \in {"queued", "running"} /\ \E s \in Steps : step'[s] = "failed"
              THEN "failed" ELSE job
    /\ UNCHANGED <<link, about, elder, gate, applied, requests, aborts, service>>

-----------------------------------------------------------------------------
\* The AI service on its own.
Service ==
    /\ \E t \in Tasks : AI!Settle(t) \/ \E v \in Verdicts : AI!Decide(t, v)
    /\ UNCHANGED <<tables, requests, aborts>>

Dispatch(g) ==
    Check(g) \/ Pick(g) \/ (\E t \in Tasks : Write(g, t)) \/ DispatchCommit(g) \/ RefreshCommit(g)

Submit(g) == SubmitOk(g) \/ SubmitFails(g) \/ Mark(g) \/ MarkCommit(g)

Next ==
    \/ \E g \in Handlers :
        \/ Dispatch(g)
        \/ Submit(g)
        \/ \E t \in Tasks : Callback(g, t)
        \/ CallbackCommit(g)
        \/ Resume(g)
        \/ Abort(g)
    \/ \E t \in Tasks : CallbackIgnored(t)
    \/ Pause
    \/ Cancel
    \/ \E old \in SUBSET Tasks : Sweep(old)
    \/ Service

Spec == Init /\ [][Next]_vars

(***************************************************************************)
(* Fairness: a request that has started goes on, and waits for its turn    *)
(* and its locks but not for ever (transactions are short); RunRecovery    *)
(* sweeps every thirty seconds for ever, so no task stays queued.  Nothing *)
(* is assumed of the AI service or of the users.                           *)
(***************************************************************************)
FairSpec ==
    /\ Spec
    /\ \A g \in Handlers : SF_vars(Dispatch(g) \/ Submit(g) \/ CallbackCommit(g))
    /\ \A t \in Tasks : SF_vars(Sweep({t}))

-----------------------------------------------------------------------------
\* A running step always has a live task behind it, so that a callback or
\* the sweeper can end it: no interleaving of dispatches, callbacks, failed
\* submissions and sweeps separates the step row from its task row.
StepFollowsTask ==
    \A s \in Steps : step[s] = "running" =>
        link[s] # NoTask /\ task[link[s]] = "queued" /\ about[link[s]] = s

\* Callbacks are at least once, their effects at most once: two handlers
\* serving the same callback never both apply it (lockTaskByExternalID and
\* ShouldApplyCallback).
AppliedOnce == \A t \in Tasks : applied[t] <= 1

\* A chapter shows "generating" only while a live task may still write it,
\* unless its job was cancelled under it.
GeneratingHasTask ==
    \A s \in Steps : chapter[s] = "generating" =>
        \/ \E t \in Tasks : about[t] = s /\ task[t] = "queued"
        \/ job = "cancelled"

\* Only one chapter task is dispatched at a time (API_SPEC.md:51).
OneStepRunning == \A r, s \in Steps : step[r] = "running" /\ step[s] = "running" => r = s

\* "The content has been generated": the reason pipelineGateReason gives
\* for a passed generate gate, cancelled or not.
GatePassedMeansWritten == gate = "passed" => \A s \in Steps : chapter[s] = "generated"

\* A job that says done has written every chapter it did not cancel.  The
\* generate gate, which export, check and approval rely on, is passed only
\* when every step is done, and unless the job was cancelled every chapter is
\* generated: no lost answer, sweep or refresh ends a job or passes it early.
DoneMeansWritten ==
    \A s \in Steps :
        /\ job = "done" => step[s] = "cancelled" \/ (step[s] = "done" /\ chapter[s] = "generated")
        /\ gate = "passed" => step[s] = "done" /\ (job = "cancelled" \/ chapter[s] = "generated")

\* Cancellation is final (STATE_MACHINES.md:23): nothing brings a cancelled
\* job back, and no step of it starts any more.
CancelIsFinal ==
    [][job = "cancelled" =>
        /\ job' = "cancelled"
        /\ \A s \in Steps : step'[s] = "running" => step[s] = "running"]_vars

\* Every job that runs is eventually finished, or waits for its user: the
\* chain of callbacks that dispatch, failures that are marked and tasks that
\* are swept never leaves it running with nothing under way.
JobSettles == job \in {"queued", "running"} ~> job \notin {"queued", "running"}

-----------------------------------------------------------------------------
(***************************************************************************)
(* The inductive invariant behind StepFollowsTask and AppliedOnce.         *)
(***************************************************************************)
\* What the rows say about each other, whoever is at work on them.
LinkOK(s) == link[s] # NoTask => task[link[s]] # "unused" /\ about[link[s]] = s

TaskOK(t) ==
    /\ phase[t] = "decided" => answer[t] \in Verdicts
    /\ applied[t] <= 1
    /\ task[t] \in {"unused", "queued"} => applied[t] = 0

\* What a handler's place says about the task it works for.
HandlerOK(g) ==
    /\ at[g] = "idle" => chosen[g] = 0
    /\ at[g] \in {"write", "dispatch", "submit", "mark", "marking"} => chosen[g] \in Steps
    /\ at[g] \in Holding \union {"submit", "mark"} => mine[g] \in Tasks
    /\ at[g] = "dispatch" => task[mine[g]] = "unused"
    /\ at[g] \in {"submit", "mark", "marking"} =>
        task[mine[g]] # "unused" /\ about[mine[g]] = chosen[g]
    /\ at[g] = "callback" =>
        /\ task[mine[g]] = "queued"
        /\ answer[mine[g]] \in Verdicts
        /\ chosen[g] = 0 => \A s \in Steps : link[s] # mine[g]
        /\ chosen[g] # 0 => about[mine[g]] = chosen[g]

\* No two transactions hold the same task row.
Apart(g, h) == at[g] \in Holding /\ at[h] \in Holding /\ g # h => mine[g] # mine[h]

IInv ==
    /\ TypeOK
    /\ StepFollowsTask
    /\ \A s \in Steps : LinkOK(s)
    /\ \A t \in Tasks : TaskOK(t)
    /\ \A g \in Handlers : HandlerOK(g)
    /\ \A g, h \in Handlers : Apart(g, h)
=============================================================================
