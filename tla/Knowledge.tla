----------------------------- MODULE Knowledge -----------------------------
(***************************************************************************)
(* backend/internal/platform/knowledge/store.go with the files its         *)
(* documents are made of (file/service.go), the log of AI calls            *)
(* (aicall/store.go) and the callback handler of api/routes.go.            *)
(*                                                                         *)
(* A document is processed by an AI task: the backend commits the task,    *)
(* submits it, and the AI service calls back, once or several times, with  *)
(* the chunks of the document.  A callback locks the task, then the        *)
(* document, so it is one step; the log entry is a transaction of its own. *)
(* For this resource the AI service sends no callback but done and failed. *)
(***************************************************************************)
EXTENDS Naturals, FiniteSets

CONSTANTS Uploads,   \* files a user uploads
          Cases,     \* files generated for projects that were won
          Labels,    \* ids of knowledge_categories and knowledge_tags
          MaxDocs,   \* bound: documents, numbered as they are made
          MaxTasks   \* bound: AI tasks, numbered by created_at

ASSUME FilesAssumption  == Uploads \intersect Cases = {} /\ Cases \intersect Nat = {}
ASSUME BoundsAssumption == MaxDocs \in Nat /\ MaxTasks \in Nat

Files == Uploads \union Cases
Docs  == 1..MaxDocs
Tasks == 1..MaxTasks

VARIABLES
    file,    \* file_assets: status
    label,   \* the categories and tags there are
    doc,     \* knowledge_documents
    chunks,  \* chunks[d]: the tasks, or the case, the chunks of d are from
    task,    \* ai_tasks of type knowledge_process
    result,  \* what the AI service will call back with
    applied, \* callbacks being handled: applied, not yet in the log
    log,     \* the tasks there is an entry of in ai_call_logs
    acked    \* callbacks answered with success

vars == <<file, label, doc, chunks, task, result, applied, log, acked>>
docVars  == <<label, doc, chunks>>
taskVars == <<task, result, applied, log, acked>>

Absent  == [status |-> "absent"]
Deleted == [status |-> "deleted"]
Doc     == [file : Files, status : {"ready", "queued", "processed", "failed"}, labels : SUBSET Labels]
NoTask  == [status |-> "absent"]
Task    == [doc : Docs, status : {"open", "done", "failed"},
            waiting : BOOLEAN, \* the request that made it waits for the AI service
            sent : BOOLEAN]    \* the AI service has taken it
Ends    == {"done", "empty", "failed"}

TypeOK ==
    /\ file \in [Files -> {"absent", "pending", "ready"}]
    /\ label \subseteq Labels
    /\ doc \in [Docs -> Doc \union {Absent, Deleted}]
    /\ \A d \in Docs : doc[d] \in Doc => doc[d].labels \subseteq label
    /\ chunks \in [Docs -> SUBSET (Tasks \union Cases)]
    /\ task \in [Tasks -> Task \union {NoTask}]
    /\ result \in [Tasks -> Ends \union {"none"}]
    /\ applied \subseteq Tasks /\ log \subseteq Tasks /\ acked \subseteq Tasks

Live(d)     == doc[d] \notin {Absent, Deleted}
Fresh(d)    == doc[d] = Absent /\ \A e \in Docs : e < d => doc[e] # Absent
Of(f)       == {d \in Docs : Live(d) /\ doc[d].file = f}
SetDoc(d, status) == IF Live(d) THEN [doc EXCEPT ![d].status = status] ELSE doc

-----------------------------------------------------------------------------
\* Files.
PresignUpload(f) ==
    /\ f \in Uploads /\ file[f] = "absent"
    /\ file' = [file EXCEPT ![f] = "pending"]
    /\ UNCHANGED <<docVars, taskVars>>

\* The object in the store is of the size that was claimed.
ConfirmUpload(f) ==
    /\ file[f] = "pending"
    /\ file' = [file EXCEPT ![f] = "ready"]
    /\ UNCHANGED <<docVars, taskVars>>

\* The object is put before its row is written.
CreateGeneratedAsset(f) ==
    /\ f \in Cases /\ file[f] # "ready"
    /\ file' = [file EXCEPT ![f] = "ready"]
    /\ UNCHANGED <<docVars, taskVars>>

-----------------------------------------------------------------------------
\* Categories and tags.  CreateCategory; one that is there is returned.
CreateLabel(x) ==
    /\ label' = label \union {x}
    /\ UNCHANGED <<file, doc, chunks, taskVars>>

\* DeleteCategory
DeleteLabel(x) ==
    /\ x \in label
    /\ label' = label \ {x}
    /\ doc' = [d \in Docs |-> IF Live(d) THEN [doc[d] EXCEPT !.labels = @ \ {x}] ELSE doc[d]]
    /\ UNCHANGED <<file, chunks, taskVars>>

-----------------------------------------------------------------------------
\* Documents.  One row per file; a file that has one keeps it.
EnsureDocumentForFile(f, d) ==
    /\ file[f] = "ready" /\ Of(f) = {} /\ Fresh(d)
    /\ doc' = [doc EXCEPT ![d] = [file |-> f, status |-> "ready", labels |-> {}]]
    /\ UNCHANGED <<file, label, chunks, taskVars>>

\* UpdateDocument; a category or tag deleted meanwhile fails a foreign key.
UpdateDocument(d, labels) ==
    /\ Live(d) /\ labels \subseteq label
    /\ doc' = [doc EXCEPT ![d].labels = labels]
    /\ UNCHANGED <<file, label, chunks, taskVars>>

\* The tasks of the document stay.
DeleteDocument(d) ==
    /\ Live(d)
    /\ doc' = [doc EXCEPT ![d] = Deleted]
    /\ chunks' = [chunks EXCEPT ![d] = {}]
    /\ UNCHANGED <<file, label, taskVars>>

\* project/store.go ArchiveWonCase, of a project that was won.
ArchiveWonCase(f, d) ==
    /\ f \in Cases /\ file[f] = "ready"
    /\ IF Of(f) = {} THEN Fresh(d) ELSE d \in Of(f)
    /\ label' = Labels
    /\ doc' = [doc EXCEPT ![d] = [file |-> f, status |-> "processed", labels |-> Labels]]
    /\ chunks' = [chunks EXCEPT ![d] = {f}]
    /\ UNCHANGED <<file, taskVars>>

-----------------------------------------------------------------------------
\* ProcessDocument, its transaction
ProcessDocument(t, d) ==
    /\ Live(d) /\ file[doc[d].file] = "ready"
    /\ task[t] = NoTask /\ \A s \in Tasks : s < t => task[s] # NoTask
    /\ task' = [task EXCEPT ![t] = [doc |-> d, status |-> "open", waiting |-> TRUE, sent |-> FALSE]]
    /\ doc' = SetDoc(d, "queued")
    /\ UNCHANGED <<file, label, chunks, result, applied, log, acked>>

\* submitKnowledgeProcess: the AI service takes the task.
SubmitKnowledgeProcess(t) ==
    /\ task[t] # NoTask /\ task[t].waiting /\ ~task[t].sent
    /\ task' = [task EXCEPT ![t].sent = TRUE]
    /\ UNCHANGED <<file, docVars, result, applied, log, acked>>

\* applyAcceptedKnowledgeTask: a status that is final is kept.
ApplyAcceptedKnowledgeTask(t) ==
    /\ task[t] # NoTask /\ task[t].waiting /\ task[t].sent
    /\ task' = [task EXCEPT ![t].waiting = FALSE]
    /\ UNCHANGED <<file, docVars, result, applied, log, acked>>

\* The call failed, or its answer did not come in time: the task may have been
\* taken, and may even be done.
MarkKnowledgeProcessFailed(t) ==
    /\ task[t] # NoTask /\ task[t].waiting
    /\ task' = [task EXCEPT ![t].status = "failed", ![t].waiting = FALSE]
    /\ doc' = SetDoc(task[t].doc, "failed")
    /\ UNCHANGED <<file, label, chunks, result, applied, log, acked>>

\* The AI service ends the task; it may also lose it.
WorkerEnds(t, end) ==
    /\ task[t] # NoTask /\ task[t].sent /\ result[t] = "none"
    /\ result' = [result EXCEPT ![t] = end]
    /\ UNCHANGED <<file, docVars, task, applied, log, acked>>

\* Mutant: the chunks that were there stay.
AddsChunks(d, t) == [chunks EXCEPT ![d] = @ \union {t}]

\* The rows are written whether or not the document is still there.
ReplaceChunks(d, t) == [chunks EXCEPT ![d] = {t}]

\* taskstatus.ShouldApplyCallback, of a status done or failed
ShouldApplyCallback(status) == status = "open"

\* validateKnowledgeChunks refuses a document done without any usable chunk.
Valid(end) == end \in {"done", "failed"}

\* ApplyCallback; a delivery is repeated until it is answered, and after.
ApplyCallback(t) ==
    /\ Valid(result[t]) /\ t \notin applied
    /\ IF ShouldApplyCallback(task[t].status)
         THEN /\ task' = [task EXCEPT ![t].status = result[t]]
              /\ doc' = SetDoc(task[t].doc, IF result[t] = "done" THEN "processed" ELSE "failed")
              /\ chunks' = IF result[t] = "done" THEN ReplaceChunks(task[t].doc, t) ELSE chunks
         ELSE UNCHANGED <<task, doc, chunks>>
    /\ applied' = applied \union {t}
    /\ UNCHANGED <<file, label, result, log, acked>>

\* aicall Record: an entry is made once and, its status being final, kept.
Record(t) == log \union {t}

\* recordTaskCallback, and the answer to the callback
RecordTaskCallback(t, logged) ==
    /\ t \in applied
    /\ log' = IF logged THEN Record(t) ELSE log
    /\ acked' = IF logged THEN acked \union {t} ELSE acked
    /\ applied' = applied \ {t}
    /\ UNCHANGED <<file, docVars, task, result>>

\* The guard of the sweep: a newer request for the document is not overwritten.
Newer(t) == {s \in Tasks : s > t /\ task[s] # NoTask /\ task[s].doc = task[t].doc}

\* Mutant: the sweep ends the task and forgets its document.
ExpiresTaskOnly(t) ==
    /\ task[t] # NoTask /\ task[t].status = "open"
    /\ task' = [task EXCEPT ![t].status = "failed"]
    /\ UNCHANGED <<file, docVars, result, applied, log, acked>>

\* taskstatus ExpireInterruptedTasks, for a task of a document
ExpireInterruptedTask(t) ==
    /\ task[t] # NoTask /\ task[t].status = "open"
    /\ task' = [task EXCEPT ![t].status = "failed"]
    /\ doc' = IF Live(task[t].doc) /\ doc[task[t].doc].status = "queued" /\ Newer(t) = {}
                THEN SetDoc(task[t].doc, "failed") ELSE doc
    /\ UNCHANGED <<file, label, chunks, result, applied, log, acked>>

-----------------------------------------------------------------------------
Init ==
    /\ file = [f \in Files |-> "absent"]
    /\ label = {} /\ doc = [d \in Docs |-> Absent] /\ chunks = [d \in Docs |-> {}]
    /\ task = [t \in Tasks |-> NoTask] /\ result = [t \in Tasks |-> "none"]
    /\ applied = {} /\ log = {} /\ acked = {}

Next ==
    \/ \E f \in Files :
          \/ PresignUpload(f) \/ ConfirmUpload(f) \/ CreateGeneratedAsset(f)
          \/ \E d \in Docs : EnsureDocumentForFile(f, d) \/ ArchiveWonCase(f, d)
    \/ \E x \in Labels : CreateLabel(x) \/ DeleteLabel(x)
    \/ \E d \in Docs :
          \/ DeleteDocument(d)
          \/ \E labels \in SUBSET Labels : UpdateDocument(d, labels)
    \/ \E t \in Tasks :
          \/ SubmitKnowledgeProcess(t) \/ ApplyAcceptedKnowledgeTask(t) \/ MarkKnowledgeProcessFailed(t) \/ ExpireInterruptedTask(t)
          \/ \E d \in Docs : ProcessDocument(t, d)
          \/ \E end \in Ends : WorkerEnds(t, end)
          \/ ApplyCallback(t)
          \/ \E logged \in BOOLEAN : RecordTaskCallback(t, logged)

\* RunRecovery sweeps every half minute.
Spec == Init /\ [][Next]_vars /\ \A t \in Tasks : WF_vars(ExpireInterruptedTask(t))

-----------------------------------------------------------------------------
\* A document called processed has the chunks of exactly one run, or of its
\* case: late, repeated and overlapping callbacks never mix them, and none
\* leaves it without any.  An answer may come after the document was deleted,
\* archived or submitted again.
ProcessedHasOneRun ==
    \A d \in Docs : Live(d) /\ doc[d].status = "processed" =>
        \E x \in Tasks \union Cases :
            /\ chunks[d] = {x}
            /\ x \in Tasks => task[x] # NoTask /\ task[x].doc = d

\* A document that is queued is waited for: the task made last for it is open,
\* so that its callback or the sweep will end the wait.
QueuedIsAwaited ==
    \A d \in Docs : Live(d) /\ doc[d].status = "queued" =>
        \E t \in Tasks : /\ task[t] # NoTask /\ task[t].doc = d /\ task[t].status = "open"
                         /\ Newer(t) = {}

\* The AI service gives up repeating a callback only once its call is in the
\* log of AI calls, although the log is written after the result.
AnswersAreLogged == acked \subseteq log

\* No document stays queued, whatever is lost between backend and AI service.
QueuedEnds ==
    \A d \in Docs : (Live(d) /\ doc[d].status = "queued")
                        ~> (~Live(d) \/ doc[d].status # "queued")
=============================================================================
