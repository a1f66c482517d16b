----------------------------- MODULE BidReview -----------------------------
(*****************************************************************************)
(* From written chapters to a submitted bid: chapter edits and AI tasks      *)
(* (bid/store.go), the review of facts (factualreview/), the gates generate, *)
(* check and format, the export, and the approval (approval/store.go).       *)
(*                                                                           *)
(* A transaction that locks what it reads, or whose statements commute with  *)
(* the others', is one step.  AcceptChapter and SubmitBid read without a     *)
(* lock and write later: each is two steps.  now() is the start of a         *)
(* transaction; LateCommits lets a chapter transaction that began before     *)
(* the last approval of a bid commit after it, with the earlier time.        *)
(*                                                                           *)
(* Compliance.tla says which result a check has; here a check without        *)
(* findings has any.  GenerationJob.tla says when a generation job ends and  *)
(* which gate its refresh leaves; here the tasks of several jobs write the   *)
(* same chapters.  Requests about one job take turns, and so do requests for *)
(* a task of one chapter.                                                    *)
(* Whether the chunks an audit cites are still in the knowledge base as they *)
(* were changes back and forth and is left open: a step that asks for it is  *)
(* one that may be taken, or not.                                            *)
(*****************************************************************************)
EXTENDS Naturals, FiniteSets

CONSTANTS Chapters,      \* chapter ids that may exist
          Bodies,        \* plain texts
          Unresolved,    \* those CheckText refuses
          Hint,          \* the text of a chapter the outline adds
          Requirements,  \* mandatory or scored requirement items
          MaxSteps,      \* bound: steps of an approval chain
          MaxTasks,      \* bound: chapter tasks
          MaxInstances,  \* bound: approval instances
          LateCommits    \* whether a write may be dated before a decision it follows

ASSUME BodyAssumption  == Unresolved \subseteq Bodies /\ Hint \in Bodies
ASSUME ModeAssumption  == LateCommits \in BOOLEAN
ASSUME BoundAssumption == MaxSteps \in Nat /\ MaxTasks \in Nat /\ MaxInstances \in Nat

Tasks     == 1..MaxTasks
Instances == 1..MaxInstances
Stages    == {"generate", "check", "format"}
NoText    == "no text"

ASSUME TextAssumption == NoText \notin Bodies

VARIABLES
    doc,        \* bid_documents.status; no guard tells draft, editing and archived
                \* apart: all are editing
    source,     \* bid_parse_results.status
    flagged,    \* requirement items with needs_review
    chapter,    \* bid_chapters with their latest evidence audit; open is pending
                \* or needs_fix, written is generated or edited
    accepting,  \* chapters an AcceptChapter has looked at and not yet written
    task,       \* ai_tasks of chapters
    gate,       \* bid_pipeline_gates: pending, needs_review and blocked are open
    cleared,    \* whether some compliance check was made without findings
    instance,   \* approval_instances: the steps left, and once decided the texts
                \* then and whether every chapter is dated before it
    submitting  \* requests SubmitBid that have read and not yet inserted

facts    == <<source, flagged>>
texts    == <<chapter, accepting, task>>
review   == <<gate, cleared>>
approval == <<instance, submitting>>
vars     == <<doc, facts, texts, review, approval>>

\* A chapter without an audit that passed against today's sources has NoAudit.
Audit     == [body : Bodies, covers : SUBSET Requirements]
NoAudit   == [body |-> NoText, covers |-> {}]
Chapter   == [status : {"open", "generating", "written", "accepted"},
              body : Bodies, audit : Audit \union {NoAudit}]
NoChapter == [status |-> "absent", body |-> Hint, audit |-> NoAudit]

\* A task is made by RegenerateChapter or ChapterAIAction, or for a step of a
\* generation job, which may be cancelled while the task is queued.  It is ended
\* by a callback, dropped if that wrote nothing since the job was cancelled, or
\* ended by the sweeper; refused if its submission failed.
Kind      == {"text", "self_check", "job", "cancelled"}
Task      == [status : {"queued"}, kind : Kind, chapter : Chapters, body : Bodies, fresh : BOOLEAN]
             \union [status : {"ended", "dropped", "refused"}, kind : {"text", "job"}, chapter : Chapters]
NoTask    == [status |-> "absent"]
Instance  == [status : {"pending"}, left : 1..MaxSteps]
             \union [status : {"approved"}, clean : BOOLEAN,
                     agreed : [Chapters -> Bodies \union {NoText}]]
             \union [status : {"rejected"}]
NoInstance == [status |-> "absent"]

TypeOK ==
    /\ doc \in {"editing", "in_review", "approved", "submitted"}
    /\ source \in {"queued", "ready", "confirmed"}
    /\ flagged \subseteq Requirements
    /\ chapter \in [Chapters -> Chapter \union {NoChapter}]
    /\ accepting \subseteq Chapters
    /\ task \in [Tasks -> Task \union {NoTask}]
    /\ gate \in [Stages -> {"absent", "open", "passed"}]
    /\ cleared \in BOOLEAN
    /\ instance \in [Instances -> Instance \union {NoInstance}]
    /\ submitting \in Instances \union {0}

-----------------------------------------------------------------------------
\* factualreview: what a reader of the current rows finds.
Present   == {c \in Chapters : chapter[c].status # "absent"}

AuditOk(c) == chapter[c].audit.body = chapter[c].body

ChapterFinding(c) ==
    source # "confirmed" \/ ~AuditOk(c) \/ chapter[c].body \in Unresolved

Covered == UNION {chapter[c].audit.covers : c \in {d \in Present : ~ChapterFinding(d)}}

Findings ==
    \/ Present = {}
    \/ \E c \in Present : ChapterFinding(c)
    \/ \E r \in Requirements : r \in flagged \/ r \notin Covered

RequireClear == ~Findings

AllAccepted == Present # {} /\ \A c \in Present : chapter[c].status = "accepted"

\* requirePipelineGatePassed: a missing generate gate is made from the chapters.
GeneratePasses ==
    \/ gate["generate"] = "passed"
    \/ /\ gate["generate"] = "absent" /\ Present # {}
       /\ \A c \in Present : chapter[c].status \in {"written", "accepted"}

\* requireBidReady
BidReady == RequireClear /\ AllAccepted /\ \A s \in Stages : gate[s] = "passed"

Texts == [c \in Chapters |-> IF c \in Present THEN chapter[c].body ELSE NoText]

-----------------------------------------------------------------------------
\* Every write of a chapter sets its updated_at, which is then later than the
\* completed_at of every decision made so far.
Touched ==
    [i \in Instances |-> IF instance[i].status = "approved"
                         THEN [instance[i] EXCEPT !.clean = FALSE] ELSE instance[i]]

\* Mutant: the row is written without a new updated_at.
WriteKeepsDate(c, row) ==
    /\ chapter' = [chapter EXCEPT ![c] = row]
    /\ instance' = instance

Write(c, row) ==
    /\ chapter' = [chapter EXCEPT ![c] = row]
    /\ instance' \in (IF LateCommits THEN {Touched, instance} ELSE {Touched})

Reopened(stages) ==
    [s \in Stages |-> IF s \in stages /\ gate[s] # "absent" THEN "open" ELSE gate[s]]

Reopen(stages) == gate' = Reopened(stages)

\* UpdateChapterContent
UpdateChapterContent(c, b) ==
    /\ c \in Present
    /\ Write(c, [chapter[c] EXCEPT !.status = "written", !.body = b])
    /\ Reopen({"check", "format"})
    /\ UNCHANGED <<doc, facts, accepting, task, cleared, submitting>>

\* AcceptChapter up to its check of the chapter ...
AcceptChapter(c) ==
    /\ c \in Present /\ ~ChapterFinding(c)
    /\ accepting' = accepting \union {c}
    /\ UNCHANGED <<doc, facts, chapter, task, review, approval>>

\* ... and its update of the status, by then perhaps of another text; dated by
\* its start, which may lie before a decision made since.
AcceptCommits(c) ==
    /\ c \in accepting
    /\ accepting' = accepting \ {c}
    /\ chapter' = [chapter EXCEPT ![c].status = "accepted"]
    /\ instance' \in {Touched, instance}
    /\ UNCHANGED <<doc, facts, task, review, submitting>>

\* UpdatePartOutline: renames a chapter or gives it a text, or adds one; an
\* accepted chapter stays accepted and no gate is reopened.
OutlineRow(c, b) ==
    IF c \in Present
    THEN [chapter[c] EXCEPT !.body = b,
                            !.status = IF @ = "accepted" THEN "accepted" ELSE "written"]
    ELSE [NoChapter EXCEPT !.status = "open", !.body = b]

UpdatePartOutline(c, b) ==
    /\ Write(c, OutlineRow(c, b))
    /\ UNCHANGED <<doc, facts, accepting, task, review, submitting>>

\* GenerateOutline: chapters are added, never removed.
GenerateOutline(added) ==
    /\ source = "confirmed" /\ added \subseteq Chapters \ Present
    /\ doc' = "editing"
    /\ chapter' = [c \in Chapters |-> IF c \in added THEN [NoChapter EXCEPT !.status = "open"]
                                      ELSE chapter[c]]
    /\ IF added = {} THEN UNCHANGED <<gate, instance>> ELSE Reopen(Stages) /\ instance' = Touched
    /\ UNCHANGED <<facts, accepting, task, cleared, submitting>>

-----------------------------------------------------------------------------
\* Chapter tasks.  RegenerateChapter, ChapterAIAction and the dispatch of a step
\* send the text and the source revision there were when the task was made; only
\* the answer to a self check is compared with that text again.  A dispatch also
\* refreshes its job and the generate gate.
RequestChapterTask(t, c, kind) ==
    /\ task[t] = NoTask /\ \A u \in Tasks : u < t => task[u] # NoTask
    /\ c \in Present
    /\ kind \in {"text", "self_check", "job"}
    /\ task' = [task EXCEPT ![t] = [status |-> "queued", kind |-> kind, chapter |-> c,
                                    body |-> IF kind = "self_check" THEN chapter[c].body ELSE Hint,
                                    fresh |-> source \in {"ready", "confirmed"}]]
    /\ Write(c, [chapter[c] EXCEPT !.status = "generating"])
    /\ IF kind = "job"
       THEN gate["generate"] # "absent" /\ gate' = [gate EXCEPT !["generate"] = "open"]
       ELSE UNCHANGED gate
    /\ UNCHANGED <<doc, facts, accepting, cleared, submitting>>

Queued(t)    == task[t].status = "queued"
SelfCheck(t) == task[t].kind = "self_check"

OfJob(t)     == task[t].kind \in {"job", "cancelled"}

TaskEnds(t, status) ==
    task' = [task EXCEPT ![t] = [status |-> status, chapter |-> task[t].chapter,
                                kind |-> IF OfJob(t) THEN "job" ELSE "text"]]

\* updateGenerationStepForTask and the refresh at its end, if a step has the
\* task: from the gates g, the generate gate gets one of the statuses.
JobRefreshed(t, statuses, g) ==
    gate' \in (IF OfJob(t) THEN {[g EXCEPT !["generate"] = status] : status \in statuses} ELSE {g})

\* CancelGenerationJob while the task of one of its steps is queued.
CancelGeneration(t) ==
    /\ Queued(t) /\ task[t].kind = "job"
    /\ task' = [task EXCEPT ![t].kind = "cancelled"]
    /\ gate' = [gate EXCEPT !["generate"] = "open"]
    /\ UNCHANGED <<doc, facts, chapter, accepting, cleared, approval>>

\* shouldApplyChapterTaskSideEffects
SideEffects(t) == task[t].kind # "cancelled"

Answered(t) == TaskEnds(t, IF SideEffects(t) THEN "ended" ELSE "dropped")

\* Mutant: the text reviewed is not compared with the text there is.
AppliesAlways(t, b) == SideEffects(t)

\* A late read-only review does not restore an older draft.
Applies(t, b) == SideEffects(t) /\ (SelfCheck(t) => chapter[task[t].chapter].body = b)

\* What the model says of the requirements: covered, for review, or nothing.
FlaggedAfter(covered, disputed) == (flagged \ covered) \union disputed

\* ApplyCallback of a chapter task that is done, with its audit.
ChapterDone(t, b, pass, covered, disputed) ==
    LET c == task[t].chapter IN
    /\ Queued(t)
    /\ SelfCheck(t) => b = task[t].body
    /\ covered \intersect disputed = {}
    /\ Answered(t)
    /\ IF Applies(t, b)
       THEN /\ Write(c, [status |-> "written", body |-> b,
                         audit |-> IF pass /\ task[t].fresh THEN [body |-> b, covers |-> covered]
                                   ELSE NoAudit])
            /\ flagged' = FlaggedAfter(covered, disputed)
            /\ JobRefreshed(t, {"open", "passed"}, Reopened({"check", "format"}))
       ELSE /\ UNCHANGED <<flagged, chapter, instance>>
            /\ JobRefreshed(t, {"open", "passed"}, gate)
    /\ UNCHANGED <<doc, source, accepting, cleared, submitting>>

\* ApplyCallback of a failure.
ChapterFailed(t) ==
    LET c == task[t].chapter IN
    /\ Queued(t)
    /\ Answered(t)
    /\ IF SideEffects(t) THEN Write(c, [chapter[c] EXCEPT !.status = "open"])
       ELSE UNCHANGED <<chapter, instance>>
    /\ JobRefreshed(t, {"open"}, gate)
    /\ UNCHANGED <<doc, facts, accepting, cleared, submitting>>

\* markChapterGenerateFailed and markGenerationStepFailed, after a submission
\* whose answer was lost: whatever has become of the task and of its job.
SubmissionFails(t) ==
    LET c == task[t].chapter IN
    /\ task[t].status \in {"queued", "ended", "dropped"}
    /\ TaskEnds(t, "refused")
    /\ Write(c, [chapter[c] EXCEPT !.status = "open"])
    /\ JobRefreshed(t, {"open"}, gate)
    /\ UNCHANGED <<doc, facts, accepting, cleared, submitting>>

\* Mutant: the task that is swept is not the newest one, and it is spared.
NewerOrEqual(t) == {u \in Tasks : u >= t /\ task[u] # NoTask /\ task[u].chapter = task[t].chapter}

\* ExpireInterruptedTasks
Newer(t) == {u \in Tasks : u > t /\ task[u] # NoTask /\ task[u].chapter = task[t].chapter}

ChapterSwept(t) ==
    LET c == task[t].chapter IN
    /\ Queued(t)
    /\ TaskEnds(t, "ended")
    /\ IF chapter[c].status = "generating" /\ Newer(t) = {}
       THEN Write(c, [chapter[c] EXCEPT !.status = "open"])
       ELSE UNCHANGED <<chapter, instance>>
    /\ UNCHANGED <<doc, facts, accepting, review, submitting>>

-----------------------------------------------------------------------------
\* The sources of the facts change: every audit made or asked for is of before.
SourceChanges ==
    /\ chapter' = [c \in Chapters |-> [chapter[c] EXCEPT !.audit = NoAudit]]
    /\ task' = [t \in Tasks |-> IF Queued(t) THEN [task[t] EXCEPT !.fresh = FALSE] ELSE task[t]]
    /\ UNCHANGED accepting

\* UploadTenderFile or ParseTender
ParseAgain ==
    /\ source' = "queued"
    /\ SourceChanges
    /\ UNCHANGED <<doc, flagged, review, approval>>

\* The parse callback: the bid is editing, whatever it was.
ParseDone(items) ==
    /\ source = "queued"
    /\ source' = "ready" /\ flagged' = items /\ doc' = "editing"
    /\ SourceChanges
    /\ UNCHANGED <<review, approval>>

\* ConfirmParseResult
ConfirmParse(items) ==
    /\ source \in {"ready", "confirmed"}
    /\ source' = "confirmed" /\ flagged' = items
    /\ SourceChanges
    /\ UNCHANGED <<doc, review, approval>>

\* UpdateRequirementCoverage and BatchUpdateRequirementCoverage
UpdateRequirementCoverage(items, doubt) ==
    /\ items # {}
    /\ flagged' = IF doubt THEN flagged \union items ELSE flagged \ items
    /\ UNCHANGED <<doc, source, texts, review, approval>>

-----------------------------------------------------------------------------
GateBecomes(s, status) == gate' = [gate EXCEPT ![s] = status]

\* GenerateBid; a job refreshes the gate also when none of its tasks changes (it
\* is paused, resumed or cancelled), and at any time, as a bid has many jobs.
GenerateBid ==
    /\ Present # {}
    /\ GateBecomes("generate", "open")
    /\ UNCHANGED <<doc, facts, texts, cleared, approval>>

GenerationEnds(status) ==
    /\ gate["generate"] # "absent" /\ status \in {"open", "passed"}
    /\ GateBecomes("generate", status)
    /\ UNCHANGED <<doc, facts, texts, cleared, approval>>

\* The gate a check may leave, after its issues are handled.
CheckGates(clear) == IF clear THEN {"open", "passed"} ELSE {"open"}

\* compliance CreateCheck
CreateCheck(status) ==
    /\ status \in CheckGates(~Findings)
    /\ cleared' = (cleared \/ ~Findings)
    /\ GateBecomes("check", status)
    /\ UNCHANGED <<doc, facts, texts, approval>>

\* compliance updateIssueStatus and ConfirmFailIssue, for an issue of any check
HandleIssue(status) ==
    /\ gate["check"] # "absent" /\ status \in CheckGates(cleared)
    /\ GateBecomes("check", status)
    /\ UNCHANGED <<doc, facts, texts, cleared, approval>>

\* CreateExport
CreateExport ==
    /\ RequireClear /\ GeneratePasses /\ gate["check"] = "passed"
    /\ gate' = [gate EXCEPT !["generate"] = "passed", !["format"] = "open"]
    /\ UNCHANGED <<doc, facts, texts, cleared, approval>>

\* The callback of an export; several may be under way, and each ends at any time.
ExportEnds(status) ==
    /\ gate["format"] # "absent" /\ status \in {"open", "passed"}
    /\ GateBecomes("format", status)
    /\ UNCHANGED <<doc, facts, texts, cleared, approval>>

-----------------------------------------------------------------------------
\* Approvals.  Approval.tla says who decides at which step.
Pending == {i \in Instances : instance[i].status = "pending"}
Unused  == {i \in Instances : instance[i] = NoInstance}

\* SubmitBid up to its insert ...
SubmitBid ==
    /\ submitting < Cardinality(Unused)
    /\ BidReady /\ Pending = {}
    /\ submitting' = submitting + 1
    /\ UNCHANGED <<doc, facts, texts, review, instance>>

\* ... and the insert and commit.
SubmitCommits(i, steps) ==
    /\ submitting > 0
    /\ i \in Unused /\ \A j \in Unused : i <= j
    /\ submitting' = submitting - 1
    /\ instance' = [instance EXCEPT ![i] = [status |-> "pending", left |-> steps]]
    /\ doc' = "in_review"
    /\ UNCHANGED <<facts, texts, review>>

Approve(i) ==
    /\ i \in Pending /\ BidReady
    /\ IF instance[i].left = 1
       THEN /\ instance' = [instance EXCEPT ![i] = [status |-> "approved", clean |-> TRUE,
                                                   agreed |-> Texts]]
            /\ doc' = "approved"
       ELSE /\ instance' = [instance EXCEPT ![i].left = @ - 1]
            /\ doc' = doc
    /\ UNCHANGED <<facts, texts, review, submitting>>

\* Mutant: the bid is left in review.
RejectKeepsDocument(i) ==
    /\ i \in Pending
    /\ instance' = [instance EXCEPT ![i] = [status |-> "rejected"]]
    /\ UNCHANGED <<doc, facts, texts, review, submitting>>

Reject(i) ==
    /\ i \in Pending
    /\ instance' = [instance EXCEPT ![i] = [status |-> "rejected"]]
    /\ doc' = "editing"
    /\ UNCHANGED <<facts, texts, review, submitting>>

-----------------------------------------------------------------------------
\* UpdateDocument to submitted
ApprovedSinceEdits == \E i \in Instances : instance[i].status = "approved" /\ instance[i].clean

SubmitDocument ==
    /\ doc = "approved"
    /\ RequireClear /\ AllAccepted /\ GeneratePasses
    /\ gate["check"] = "passed" /\ gate["format"] = "passed"
    /\ ApprovedSinceEdits
    /\ doc' = "submitted"
    /\ GateBecomes("generate", "passed")
    /\ UNCHANGED <<facts, texts, cleared, approval>>

\* DeleteDocument, or UpdateDocument to archived
Archive ==
    /\ doc' = "editing"
    /\ UNCHANGED <<facts, texts, review, approval>>

-----------------------------------------------------------------------------
\* CreateDocument, then a parsed and confirmed tender file: the default
\* chapters have the text of a hint, no gate of this part of the pipeline exists.
Init ==
    /\ doc = "editing" /\ source = "confirmed" /\ flagged = {}
    /\ \E default \in SUBSET Chapters :
          chapter = [c \in Chapters |-> IF c \in default THEN [NoChapter EXCEPT !.status = "open"]
                                        ELSE NoChapter]
    /\ accepting = {}
    /\ task = [t \in Tasks |-> NoTask]
    /\ gate = [s \in Stages |-> "absent"] /\ cleared = FALSE
    /\ instance = [i \in Instances |-> NoInstance] /\ submitting = 0

EditChapter ==
    \/ \E c \in Chapters, b \in Bodies : UpdateChapterContent(c, b) \/ UpdatePartOutline(c, b)
    \/ \E c \in Chapters : AcceptChapter(c) \/ AcceptCommits(c)
    \/ \E added \in SUBSET Chapters : GenerateOutline(added)

ChapterTask ==
    \/ \E t \in Tasks, c \in Chapters, kind \in Kind : RequestChapterTask(t, c, kind)
    \/ \E t \in Tasks, b \in Bodies, pass \in BOOLEAN, covered \in SUBSET Requirements, disputed \in SUBSET Requirements :
          ChapterDone(t, b, pass, covered, disputed)
    \/ \E t \in Tasks : \/ ChapterFailed(t) \/ SubmissionFails(t)
                        \/ ChapterSwept(t) \/ CancelGeneration(t)

Source ==
    \/ ParseAgain
    \/ \E items \in SUBSET Requirements : ParseDone(items) \/ ConfirmParse(items)
    \/ \E items \in SUBSET Requirements, doubt \in BOOLEAN : UpdateRequirementCoverage(items, doubt)

Gates ==
    \/ GenerateBid \/ CreateExport
    \/ \E status \in {"open", "passed"} :
          GenerationEnds(status) \/ CreateCheck(status) \/ HandleIssue(status) \/ ExportEnds(status)

Approval ==
    \/ SubmitBid
    \/ \E i \in Instances, steps \in 1..MaxSteps : SubmitCommits(i, steps)
    \/ \E i \in Instances : Approve(i) \/ Reject(i)

Next == EditChapter \/ ChapterTask \/ Source \/ Gates \/ Approval \/ SubmitDocument \/ Archive

Spec == Init /\ [][Next]_vars

-----------------------------------------------------------------------------
\* A bid is submitted with the very texts that the last approver of an
\* approved instance had before him, although neither texts nor instance keep
\* a reference to the other: UpdateDocument only compares dates.
SubmittedWasApproved ==
    [][doc # "submitted" /\ doc' = "submitted" =>
          \E i \in Instances : instance[i].status = "approved" /\ instance[i].agreed = Texts]_vars

\* The answer to a self check never changes the text of a chapter, however
\* late it comes (ApplyCallback: 'a late read-only review must not restore an
\* older draft').
LateReviewKeepsText ==
    [][\A t \in Tasks :
          Queued(t) /\ SelfCheck(t) /\ ~Queued(t)'
              => \A c \in Chapters : chapter'[c].body = chapter[c].body]_vars

\* A chapter in generating is waited for, and there is one way only to stay
\* there for ever: to be the chapter of a step whose job was cancelled before
\* the answer came, which then ends the task and leaves the chapter.  Otherwise
\* its newest task is queued, a self check of the very text it has: no order of
\* edits, other jobs, answers, failed submissions and sweeps leaves it behind.
WaitsUnlessCancelled ==
    \A c \in Chapters : chapter[c].status = "generating" =>
        \E t \in Tasks : /\ task[t] # NoTask /\ task[t].chapter = c /\ Newer(t) = {}
                         /\ \/ Queued(t) /\ (SelfCheck(t) => task[t].body = chapter[c].body)
                            \/ task[t].status = "dropped"

\* A bid in review has somebody to decide about it, also after two
\* submissions at the same time.
InReviewIsPending == doc = "in_review" => Pending # {}

=============================================================================
