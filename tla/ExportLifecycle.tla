---------------------------- MODULE ExportLifecycle ----------------------------
(****************************************************************************)
(* backend/internal/platform/bid/store.go: the exports of one bid document. *)
(* CreateExport commits an export, its task and its file asset, submits the *)
(* task to the AI service, and then binds it or marks it failed, in a       *)
(* transaction of its own; the callback and the sweeper of                  *)
(* taskstatus/recovery.go end it.  All exports share one format gate.       *)
(*                                                                          *)
(* Every transaction locks or creates the task row first and keeps it until *)
(* it commits, so each is one step.  An export has one task and one file;   *)
(* all three have its name here.  The AI service is CallbackOutbox.         *)
(****************************************************************************)
EXTENDS Naturals, FiniteSets

CONSTANTS Exports,    \* bound: requests to export
          NoExport,   \* the gate has not been written
          MaxAborts,  \* bound: requests cut short
          LossyCalls, \* whether the answer to a submitted task may be lost
          Prompt      \* whether a task is bound before it is answered

ASSUME NoExportAssumption == NoExport \notin Exports
ASSUME AbortsAssumption   == MaxAborts \in Nat
ASSUME ModeAssumption     == LossyCalls \in BOOLEAN /\ Prompt \in BOOLEAN

Verdicts == {"done", "failed"}
NoAnswer == "none"

VARIABLES
    cleared,   \* generate and check gates passed, no factual objection
    export,    \* export[e]: bid_exports.status
    task,      \* task[e]: ai_tasks.status
    file,      \* file[e]: file_assets.status
    gate,      \* the format gate
    gateOf,    \* the export_id in the gate's metadata
    at,        \* at[e]: what the request that created e does next
    aborts,    \* requests cut short so far
    phase, answer, wanted, heard    \* the AI service, see CallbackOutbox

AI == INSTANCE CallbackOutbox WITH Jobs <- Exports

tables  == <<export, task, file, gate, gateOf>>
service == <<phase, answer, wanted, heard>>
vars    == <<cleared, tables, at, aborts, service>>

TypeOK ==
    /\ cleared \in BOOLEAN
    /\ export \in [Exports -> {"absent", "queued", "done", "failed"}]
    /\ task \in [Exports -> {"absent", "queued", "done", "failed"}]
    /\ file \in [Exports -> {"absent", "pending", "ready", "failed"}]
    /\ gate \in {"absent", "pending", "passed", "blocked"}
    /\ gateOf \in Exports \union {NoExport}
    /\ at \in [Exports -> {"idle", "submit", "bind", "mark"}]
    /\ aborts \in 0..MaxAborts
    /\ AI!TypeOK

Init ==
    /\ cleared = FALSE
    /\ export = [e \in Exports |-> "absent"]
    /\ task = [e \in Exports |-> "absent"]
    /\ file = [e \in Exports |-> "absent"]
    /\ gate = "absent"
    /\ gateOf = NoExport
    /\ at = [e \in Exports |-> "idle"]
    /\ aborts = 0
    /\ AI!Init

-----------------------------------------------------------------------------
\* What CreateExport requires of the rest of the bid comes and goes.
Regate == cleared' = ~cleared /\ UNCHANGED <<tables, at, aborts, service>>

GateBecomes(e, status) == gate' = status /\ gateOf' = e

Goto(e, place) == at' = [at EXCEPT ![e] = place]

Create(e) ==
    /\ cleared
    /\ task[e] = "absent"
    /\ export' = [export EXCEPT ![e] = "queued"]
    /\ task' = [task EXCEPT ![e] = "queued"]
    /\ file' = [file EXCEPT ![e] = "pending"]
    /\ GateBecomes(e, "pending")
    /\ Goto(e, "submit")
    /\ UNCHANGED <<cleared, aborts, service>>

SubmitOk(e) ==
    /\ at[e] = "submit"
    /\ AI!Accept(e, TRUE)
    /\ Goto(e, "bind")
    /\ UNCHANGED <<cleared, tables, aborts>>

\* The AI service never hears of the task, or accepts it and the answer is
\* lost.
SubmitFails(e) ==
    /\ at[e] = "submit"
    /\ UNCHANGED service \/ (LossyCalls /\ AI!Accept(e, TRUE))
    /\ Goto(e, "mark")
    /\ UNCHANGED <<cleared, tables, aborts>>

\* bindAcceptedTask spares a terminal task; the function it is given then
\* writes the status of the acceptance to the export all the same.
Bind(e) ==
    /\ at[e] = "bind"
    /\ export' = [export EXCEPT ![e] = "queued"]
    /\ Goto(e, "idle")
    /\ UNCHANGED <<cleared, task, file, gate, gateOf, aborts, service>>

FailUnlessReady(status) == IF status = "ready" THEN "ready" ELSE "failed"

\* markExportFailed
Mark(e) ==
    /\ at[e] = "mark"
    /\ task' = [task EXCEPT ![e] = "failed"]
    /\ file' = [file EXCEPT ![e] = FailUnlessReady(@)]
    /\ export' = [export EXCEPT ![e] = "failed"]
    /\ GateBecomes(e, "blocked")
    /\ Goto(e, "idle")
    /\ UNCHANGED <<cleared, aborts, service>>

\* The request ends early: the process dies, the caller hangs up, or the
\* database refuses the bind.
Abort(e) ==
    /\ at[e] # "idle"
    /\ aborts < MaxAborts
    /\ aborts' = aborts + 1
    /\ Goto(e, "idle")
    /\ UNCHANGED <<cleared, tables, service>>

-----------------------------------------------------------------------------
\* With Prompt, whatever ends a task comes after its bind: the AI service
\* needs longer than the request, and no request lasts an hour.
Bound(e) == Prompt => at[e] \notin {"submit", "bind"}

\* A callback that is not acknowledged is sent again.
Hear(e) == AI!Tell(e) \/ (phase[e] # "decided" /\ UNCHANGED service)

\* ShouldApplyCallback
Open(e) == task[e] = "queued"

\* ApplyCallback for a bid_export.
Callback(e) ==
    /\ phase[e] = "decided"
    /\ Bound(e)
    /\ Open(e)
    /\ task' = [task EXCEPT ![e] = answer[e]]
    /\ export' = [export EXCEPT ![e] = answer[e]]
    /\ file' = [file EXCEPT ![e] = IF answer[e] = "done" THEN "ready" ELSE FailUnlessReady(@)]
    /\ GateBecomes(e, IF answer[e] = "done" THEN "passed" ELSE "blocked")
    /\ Hear(e)
    /\ UNCHANGED <<cleared, at, aborts>>

CallbackIgnored(e) ==
    /\ phase[e] = "decided"
    /\ ~Open(e)
    /\ Hear(e)
    /\ UNCHANGED <<cleared, tables, at, aborts>>

\* Mutant: the sweeper's SELECT without its filter on the status.
SweepAnyTask(old) ==
    /\ \A e \in old : task[e] # "absent" /\ Bound(e)
    /\ task' = [e \in Exports |-> IF e \in old THEN "failed" ELSE task[e]]
    /\ export' = [e \in Exports |->
            IF e \in old /\ export[e] = "queued" THEN "failed" ELSE export[e]]
    /\ UNCHANGED <<cleared, file, gate, gateOf, at, aborts, service>>

\* Mutant: the sweeper leaves exports alone.
SweepTasksOnly(old) ==
    /\ \A e \in old : task[e] = "queued" /\ Bound(e)
    /\ task' = [e \in Exports |-> IF e \in old THEN "failed" ELSE task[e]]
    /\ UNCHANGED <<cleared, export, file, gate, gateOf, at, aborts, service>>

\* ExpireInterruptedTasks: any queued task may be an hour old.  No export has
\* a newer task, so the guard for superseded tasks never applies.
Sweep(old) ==
    /\ \A e \in old : task[e] = "queued" /\ Bound(e)
    /\ task' = [e \in Exports |-> IF e \in old THEN "failed" ELSE task[e]]
    /\ export' = [e \in Exports |->
            IF e \in old /\ export[e] = "queued" THEN "failed" ELSE export[e]]
    /\ UNCHANGED <<cleared, file, gate, gateOf, at, aborts, service>>

\* The AI service on its own.
Service ==
    /\ \E e \in Exports : AI!Settle(e) \/ \E v \in Verdicts : AI!Decide(e, v)
    /\ UNCHANGED <<cleared, tables, at, aborts>>

Request(e) == SubmitOk(e) \/ SubmitFails(e) \/ Bind(e) \/ Mark(e)

Next ==
    \/ Regate
    \/ \E e \in Exports :
        Create(e) \/ Request(e) \/ Abort(e) \/ Callback(e) \/ CallbackIgnored(e)
    \/ \E old \in SUBSET Exports : Sweep(old)
    \/ Service

Spec == Init /\ [][Next]_vars

(***************************************************************************)
(* Fairness: a request goes on, and the sweeper runs every thirty seconds   *)
(* for ever.  Nothing is assumed of the AI service or of the users.         *)
(***************************************************************************)
FairSpec ==
    /\ Spec
    /\ \A e \in Exports : WF_vars(Request(e)) /\ WF_vars(Sweep({e}))

-----------------------------------------------------------------------------
\* An export that says done can be downloaded, and its task says so too:
\* neither the sweeper nor a bind or a second callback tears them apart.
DoneHasFile == \A e \in Exports :
    export[e] = "done" => file[e] = "ready" /\ task[e] = "done"

\* The format gate is shared by all exports.  If it is passed, the export
\* its metadata names has a file, in whatever order they ended.
GatePassedHasFile == gate = "passed" => gateOf # NoExport /\ file[gateOf] = "ready"

\* A file a user may be downloading is never taken away again, although
\* its export may still be marked failed.
ReadyFileKept == [][\A e \in Exports : file[e] = "ready" => file'[e] = "ready"]_vars

\* A late answer does not revive a task that was expired or marked failed.
FailedStaysFailed ==
    [][\A e \in Exports : task[e] = "failed" =>
        /\ task'[e] = "failed"
        /\ export'[e] = "done" => export[e] = "done"
        /\ file'[e] = file[e] \/ file'[e] = "failed"]_vars

\* Every export ends: what the AI service does not answer is expired.
ExportEnds == \A e \in Exports : export[e] = "queued" ~> export[e] \in {"done", "failed"}

-----------------------------------------------------------------------------
(***************************************************************************)
(* The inductive invariant behind the safety properties.                    *)
(***************************************************************************)
\* What exists only together, and what the AI service may say.
ExportOK(e) ==
    /\ task[e] = "absent" => export[e] = "absent" /\ file[e] = "absent" /\ at[e] = "idle"
    /\ phase[e] = "decided" => answer[e] \in Verdicts

IInv ==
    /\ TypeOK
    /\ \A e \in Exports : ExportOK(e)
    /\ DoneHasFile
    /\ GatePassedHasFile
=============================================================================
