-------------------------- MODULE KnowledgeProofs --------------------------
(****************************************************************************)
(* Proofs about Knowledge for any files, labels and number of documents and *)
(* tasks, with calls that are lost, callbacks that are repeated, and        *)
(* documents deleted, archived or submitted again under a running task.     *)
(****************************************************************************)
EXTENDS Knowledge, TLAPS

USE FilesAssumption, BoundsAssumption

\* Tasks are numbered as they are made.
TasksInOrder ==
    \A t \in Tasks : task[t] = NoTask => \A s \in Tasks : s > t => task[s] = NoTask

IInv == TypeOK /\ TasksInOrder /\ ProcessedHasOneRun /\ QueuedIsAwaited /\ AnswersAreLogged

\* t is the last task made for d, and it is open.
Awaits(t, d) ==
    /\ task[t] # NoTask /\ task[t].doc = d /\ task[t].status = "open"
    /\ \A s \in Tasks : s > t /\ task[s] # NoTask => task[s].doc # d

\* The chunks of d are those of x.
RunOf(x, d) == chunks[d] = {x} /\ (x \in Tasks => task[x] # NoTask /\ task[x].doc = d)

Processed(d) == Live(d) /\ doc[d].status = "processed"
Queued(d)    == Live(d) /\ doc[d].status = "queued"

-----------------------------------------------------------------------------
\* QueuedIsAwaited by Awaits, ProcessedHasOneRun by RunOf.
LEMMA Reformulated ==
    /\ QueuedIsAwaited <=> \A d \in Docs : Queued(d) => \E t \in Tasks : Awaits(t, d)
    /\ ProcessedHasOneRun <=> \A d \in Docs : Processed(d) => \E x \in Tasks \union Cases : RunOf(x, d)
<1>1. \A d \in Docs, t \in Tasks :
        Awaits(t, d) <=> /\ task[t] # NoTask /\ task[t].doc = d /\ task[t].status = "open"
                         /\ Newer(t) = {}
  BY DEF Awaits, Newer
<1>2. QueuedIsAwaited <=> \A d \in Docs : Queued(d) => \E t \in Tasks : Awaits(t, d)
  BY <1>1 DEF QueuedIsAwaited, Queued
<1>3. ProcessedHasOneRun <=> \A d \in Docs : Processed(d) => \E x \in Tasks \union Cases : RunOf(x, d)
  BY DEF ProcessedHasOneRun, Processed, RunOf
<1> QED
  BY <1>2, <1>3

\* The same of the state after a step.
LEMMA ReformulatedNext ==
    /\ QueuedIsAwaited' <=> \A d \in Docs : Queued(d)' => \E t \in Tasks : Awaits(t, d)'
    /\ ProcessedHasOneRun' <=> \A d \in Docs : Processed(d)' => \E x \in Tasks \union Cases : RunOf(x, d)'
<1>1. \A d \in Docs, t \in Tasks :
        Awaits(t, d)' <=> /\ task'[t] # NoTask /\ task'[t].doc = d /\ task'[t].status = "open"
                          /\ Newer(t)' = {}
  BY DEF Awaits, Newer
<1>2. QueuedIsAwaited' <=> \A d \in Docs : Queued(d)' => \E t \in Tasks : Awaits(t, d)'
  BY <1>1 DEF QueuedIsAwaited, Queued
<1>3. ProcessedHasOneRun' <=> \A d \in Docs : Processed(d)' => \E x \in Tasks \union Cases : RunOf(x, d)'
  BY DEF ProcessedHasOneRun, Processed, RunOf
<1> QED
  BY <1>2, <1>3

\* A live document has a row.
LEMMA LiveRow == ASSUME TypeOK, NEW d \in Docs PROVE Live(d) <=> doc[d] \in Doc
<1>1. doc[d] \in Doc => doc[d] \notin {Absent, Deleted}
  BY DEF Doc, Absent, Deleted
<1> QED
  BY <1>1 DEF TypeOK, Live

\* A task is told from NoTask by its status.
LEMMA TaskRow == ASSUME TypeOK, NEW t \in Tasks, task[t] # NoTask PROVE task[t] \in Task
BY DEF TypeOK

LEMMA TaskIsRow == ASSUME NEW row \in Task PROVE row # NoTask
BY DEF Task, NoTask

\* The initial state has neither files nor documents nor tasks.
LEMMA InitIInv == Init => IInv
<1> SUFFICES ASSUME Init PROVE IInv
  OBVIOUS
<1>1. \A d \in Docs : ~Live(d) /\ doc[d] \notin Doc
  BY DEF Init, Live, Absent, Doc
<1>2. TypeOK
  BY <1>1 DEF Init, TypeOK
<1>3. TasksInOrder /\ AnswersAreLogged
  BY DEF Init, TasksInOrder, AnswersAreLogged
<1>4. ProcessedHasOneRun /\ QueuedIsAwaited
  BY <1>1 DEF ProcessedHasOneRun, QueuedIsAwaited
<1> QED
  BY <1>2, <1>3, <1>4 DEF IInv

-----------------------------------------------------------------------------
\* Steps that leave every task as far as it is.
TasksKept ==
    \A t \in Tasks : /\ task'[t] # NoTask <=> task[t] # NoTask
                     /\ task[t] # NoTask => task'[t].doc = task[t].doc /\ task'[t].status = task[t].status

\* Document d does not begin to wait, nor to be called processed.
DocKept(d) ==
    /\ Queued(d)' => Queued(d)
    /\ Processed(d)' => Processed(d) /\ chunks'[d] = chunks[d]

LEMMA KeptByBoth ==
  ASSUME IInv, TasksKept, \A d \in Docs : DocKept(d)
  PROVE  (TasksInOrder /\ ProcessedHasOneRun /\ QueuedIsAwaited)'
<1>1. TasksInOrder'
  BY DEF IInv, TasksInOrder, TasksKept
<1>2. QueuedIsAwaited'
  <2> SUFFICES ASSUME NEW d \in Docs, Queued(d)' PROVE \E t \in Tasks : Awaits(t, d)'
    BY ReformulatedNext
  <2>1. PICK t \in Tasks : Awaits(t, d)
    BY Reformulated DEF IInv, DocKept
  <2> QED
    BY <2>1 DEF TasksKept, Awaits
<1>3. ProcessedHasOneRun'
  <2> SUFFICES ASSUME NEW d \in Docs, Processed(d)' PROVE \E x \in Tasks \union Cases : RunOf(x, d)'
    BY ReformulatedNext
  <2>1. PICK x \in Tasks \union Cases : RunOf(x, d)
    BY Reformulated DEF IInv, DocKept
  <2>2. chunks'[d] = chunks[d]
    BY DEF DocKept
  <2> QED
    BY <2>1, <2>2 DEF TasksKept, RunOf
<1> QED
  BY <1>1, <1>2, <1>3

\* Files and labels come and go, and documents get other labels.
LEMMA FileKeepsIInv ==
  ASSUME IInv, NEW f \in Files, PresignUpload(f) \/ ConfirmUpload(f) \/ CreateGeneratedAsset(f)
  PROVE  IInv'
<1>1. TypeOK'
  BY DEF PresignUpload, ConfirmUpload, CreateGeneratedAsset, IInv, TypeOK, docVars, taskVars
<1>2. UNCHANGED <<docVars, taskVars>>
  BY DEF PresignUpload, ConfirmUpload, CreateGeneratedAsset
<1>3. TasksKept /\ \A d \in Docs : DocKept(d)
  BY <1>2 DEF TasksKept, DocKept, Queued, Processed, Live, docVars, taskVars
<1> QED
  BY <1>1, <1>2, <1>3, KeptByBoth DEF IInv, AnswersAreLogged, taskVars

LEMMA LabelKeepsIInv ==
  ASSUME IInv, NEW x \in Labels, CreateLabel(x) \/ DeleteLabel(x)
  PROVE  IInv'
<1>1. CASE CreateLabel(x)
  <2>1. TypeOK'
    BY <1>1 DEF CreateLabel, IInv, TypeOK, taskVars
  <2>2. TasksKept /\ \A d \in Docs : DocKept(d)
    BY <1>1 DEF CreateLabel, TasksKept, DocKept, Queued, Processed, Live, taskVars
  <2> QED
    BY <1>1, <2>1, <2>2, KeptByBoth DEF CreateLabel, IInv, AnswersAreLogged, taskVars
<1>2. CASE DeleteLabel(x)
  <2>1. \A d \in Docs : /\ Live(d) => /\ doc'[d] = [doc[d] EXCEPT !.labels = @ \ {x}]
                                      /\ doc[d] \in Doc /\ doc'[d] \in Doc
                                      /\ doc'[d].status = doc[d].status
                                      /\ doc'[d].labels = doc[d].labels \ {x}
                        /\ ~Live(d) => doc'[d] = doc[d] /\ doc[d] \notin Doc
    <3> SUFFICES ASSUME NEW d \in Docs
                 PROVE  /\ Live(d) => /\ doc'[d] = [doc[d] EXCEPT !.labels = @ \ {x}]
                                      /\ doc[d] \in Doc /\ doc'[d] \in Doc
                                      /\ doc'[d].status = doc[d].status
                                      /\ doc'[d].labels = doc[d].labels \ {x}
                        /\ ~Live(d) => doc'[d] = doc[d] /\ doc[d] \notin Doc
      OBVIOUS
    <3>1. TypeOK
      BY DEF IInv
    <3>2. doc'[d] = IF Live(d) THEN [doc[d] EXCEPT !.labels = @ \ {x}] ELSE doc[d]
      BY <1>2 DEF DeleteLabel
    <3> QED
      BY <3>1, <3>2, LiveRow DEF Doc
  <2>2. TypeOK'
    <3>1. doc' \in [Docs -> Doc \union {Absent, Deleted}]
      <4>1. \A d \in Docs : doc'[d] \in Doc \union {Absent, Deleted}
        BY <2>1 DEF IInv, TypeOK
      <4>2. doc' = [d \in Docs |-> doc'[d]]
        BY <1>2 DEF DeleteLabel
      <4> QED
        BY <4>1, <4>2
    <3>2. \A d \in Docs : doc'[d] \in Doc => doc'[d].labels \subseteq label'
      BY <1>2, <2>1 DEF DeleteLabel, IInv, TypeOK
    <3> QED
      BY <1>2, <3>1, <3>2 DEF DeleteLabel, IInv, TypeOK, taskVars
  <2>3. \A d \in Docs : DocKept(d)
    <3> SUFFICES ASSUME NEW d \in Docs PROVE DocKept(d)
      OBVIOUS
    <3>1. Live(d)' => Live(d)
      BY <2>1 DEF Live
    <3> QED
      BY <1>2, <2>1, <3>1 DEF DeleteLabel, DocKept, Queued, Processed
  <2>4. TasksKept
    BY <1>2 DEF DeleteLabel, TasksKept, taskVars
  <2> QED
    BY <1>2, <2>2, <2>3, <2>4, KeptByBoth DEF DeleteLabel, IInv, AnswersAreLogged, taskVars
<1> QED
  BY <1>1, <1>2

\* What a write of one document's row changes.
LEMMA DocWritten ==
  ASSUME TypeOK, NEW d \in Docs, NEW row \in Doc \union {Deleted},
         doc' = [doc EXCEPT ![d] = row]
  PROVE  /\ doc' \in [Docs -> Doc \union {Absent, Deleted}]
         /\ doc'[d] = row /\ (Live(d)' <=> row \in Doc)
         /\ \A e \in Docs : e # d => doc'[e] = doc[e] /\ (Live(e)' <=> Live(e))
<1>1. doc \in [Docs -> Doc \union {Absent, Deleted}]
  BY DEF TypeOK
<1>2. doc' \in [Docs -> Doc \union {Absent, Deleted}] /\ doc'[d] = row
  BY <1>1
<1>3. \A e \in Docs : e # d => doc'[e] = doc[e]
  BY <1>1
<1>4. row \in Doc <=> row \notin {Absent, Deleted}
  BY DEF Doc, Absent, Deleted
<1> QED
  BY <1>2, <1>3, <1>4 DEF Live

\* A document that is new, relabelled or deleted waits for nothing new.
LEMMA DocumentKeepsIInv ==
  ASSUME IInv, NEW d \in Docs,
         doc' \in [Docs -> Doc \union {Absent, Deleted}],
         \A e \in Docs : e # d => doc'[e] = doc[e] /\ (Live(e)' <=> Live(e)),
         Live(d)' => doc'[d].labels \subseteq label,
         Live(d)' => doc'[d].status = "ready" \/ (Live(d) /\ doc'[d].status = doc[d].status),
         chunks' = chunks \/ (~Live(d)' /\ chunks' = [chunks EXCEPT ![d] = {}]),
         UNCHANGED <<file, label, taskVars>>
  PROVE  IInv'
<1>1. TypeOK
  BY DEF IInv
<1>2. /\ chunks' \in [Docs -> SUBSET (Tasks \union Cases)]
      /\ \A e \in Docs : e # d => chunks'[e] = chunks[e]
      /\ Live(d)' => chunks'[d] = chunks[d]
  BY <1>1 DEF TypeOK
<1>3. TypeOK'
  <2>1. Live(d)' <=> doc'[d] \in Doc
    BY DEF Live, Doc, Absent, Deleted
  <2>2. \A e \in Docs : doc'[e] \in Doc => doc'[e].labels \subseteq label'
    BY <1>1, <2>1 DEF TypeOK
  <2> QED
    BY <1>1, <1>2, <2>2 DEF TypeOK, taskVars
<1>4. \A e \in Docs : DocKept(e)
  <2> SUFFICES ASSUME NEW e \in Docs PROVE DocKept(e)
    OBVIOUS
  <2>1. CASE e = d
    BY <1>2, <2>1 DEF DocKept, Queued, Processed
  <2>2. CASE e # d
    BY <1>2, <2>2 DEF DocKept, Queued, Processed
  <2> QED
    BY <2>1, <2>2
<1>5. TasksKept
  BY DEF TasksKept, taskVars
<1> QED
  BY <1>3, <1>4, <1>5, KeptByBoth DEF IInv, AnswersAreLogged, taskVars

LEMMA DocumentStepKeepsIInv ==
  ASSUME IInv, NEW d \in Docs,
         \/ DeleteDocument(d)
         \/ \E labels \in SUBSET Labels : UpdateDocument(d, labels)
         \/ \E f \in Files : EnsureDocumentForFile(f, d)
  PROVE  IInv'
<1>0. TypeOK
  BY DEF IInv
<1>1. CASE DeleteDocument(d)
  <2>1. /\ doc' = [doc EXCEPT ![d] = Deleted] /\ chunks' = [chunks EXCEPT ![d] = {}]
        /\ UNCHANGED <<file, label, taskVars>> /\ Deleted \notin Doc
    BY <1>1 DEF DeleteDocument, Deleted, Doc
  <2>2. /\ doc' \in [Docs -> Doc \union {Absent, Deleted}] /\ ~Live(d)'
        /\ \A e \in Docs : e # d => doc'[e] = doc[e] /\ (Live(e)' <=> Live(e))
    BY <1>0, <2>1, DocWritten
  <2> QED
    BY <2>1, <2>2, DocumentKeepsIInv
<1>2. ASSUME NEW labels \in SUBSET Labels, UpdateDocument(d, labels) PROVE IInv'
  <2>1. /\ Live(d) /\ doc[d] \in Doc /\ labels \subseteq label
        /\ doc' = [doc EXCEPT ![d] = [doc[d] EXCEPT !.labels = labels]]
        /\ chunks' = chunks /\ UNCHANGED <<file, label, taskVars>>
    BY <1>0, <1>2, LiveRow DEF UpdateDocument
  <2>2. PICK row \in Doc : row = [doc[d] EXCEPT !.labels = labels]
    BY <2>1 DEF Doc
  <2>3. row.labels = labels /\ row.status = doc[d].status
    BY <2>1, <2>2 DEF Doc
  <2>4. /\ doc' \in [Docs -> Doc \union {Absent, Deleted}] /\ doc'[d] = row
        /\ \A e \in Docs : e # d => doc'[e] = doc[e] /\ (Live(e)' <=> Live(e))
    BY <1>0, <2>1, <2>2, DocWritten
  <2> QED
    BY <2>1, <2>3, <2>4, DocumentKeepsIInv
<1>3. ASSUME NEW f \in Files, EnsureDocumentForFile(f, d) PROVE IInv'
  <2>1. PICK row \in Doc : row = [file |-> f, status |-> "ready", labels |-> {}]
    BY DEF Doc
  <2>2. doc' = [doc EXCEPT ![d] = row] /\ chunks' = chunks /\ UNCHANGED <<file, label, taskVars>>
    BY <1>3, <2>1 DEF EnsureDocumentForFile
  <2>3. /\ doc' \in [Docs -> Doc \union {Absent, Deleted}] /\ doc'[d] = row
        /\ \A e \in Docs : e # d => doc'[e] = doc[e] /\ (Live(e)' <=> Live(e))
    BY <1>0, <2>2, DocWritten
  <2>4. row.labels \subseteq label /\ row.status = "ready"
    BY <2>1
  <2> QED
    BY <2>2, <2>3, <2>4, DocumentKeepsIInv
<1> QED
  BY <1>1, <1>2, <1>3

\* A case that is archived has the chunks of its file and of no task.
LEMMA ArchiveKeepsIInv ==
  ASSUME IInv, NEW f \in Files, NEW d \in Docs, ArchiveWonCase(f, d)
  PROVE  IInv'
<1> DEFINE row == [file |-> f, status |-> "processed", labels |-> Labels]
<1>0. TypeOK
  BY DEF IInv
<1>1. /\ row \in Doc /\ row.labels = Labels /\ row.status = "processed"
      /\ f \in Cases /\ f \notin Tasks
      /\ doc' = [doc EXCEPT ![d] = row] /\ chunks' = [chunks EXCEPT ![d] = {f}]
      /\ label' = Labels /\ UNCHANGED <<file, taskVars>>
  BY DEF ArchiveWonCase, Doc, Tasks
<1> HIDE DEF row
<1>2. /\ doc' \in [Docs -> Doc \union {Absent, Deleted}]
      /\ doc'[d] = row /\ Live(d)'
      /\ \A e \in Docs : e # d => doc'[e] = doc[e] /\ (Live(e)' <=> Live(e))
  BY <1>0, <1>1, DocWritten
<1>3. /\ chunks' \in [Docs -> SUBSET (Tasks \union Cases)]
      /\ chunks'[d] = {f} /\ \A e \in Docs : e # d => chunks'[e] = chunks[e]
  BY <1>0, <1>1 DEF TypeOK
<1>4. TypeOK'
  <2>1. \A e \in Docs : doc'[e] \in Doc => doc'[e].labels \subseteq label'
    BY <1>0, <1>1, <1>2 DEF TypeOK, Doc
  <2> QED
    BY <1>0, <1>1, <1>2, <1>3, <2>1 DEF TypeOK, taskVars
<1>5. UNCHANGED <<task, acked, log>>
  BY <1>1 DEF taskVars
<1>6. QueuedIsAwaited'
  <2> SUFFICES ASSUME NEW e \in Docs, Queued(e)' PROVE \E t \in Tasks : Awaits(t, e)'
    BY ReformulatedNext
  <2>1. e # d /\ Queued(e)
    BY <1>1, <1>2 DEF Queued
  <2>2. PICK t \in Tasks : Awaits(t, e)
    BY <2>1, Reformulated DEF IInv
  <2> QED
    BY <1>5, <2>2 DEF Awaits
<1>7. ProcessedHasOneRun'
  <2> SUFFICES ASSUME NEW e \in Docs, Processed(e)' PROVE \E x \in Tasks \union Cases : RunOf(x, e)'
    BY ReformulatedNext
  <2>1. CASE e = d
    BY <1>1, <1>3, <2>1 DEF RunOf
  <2>2. CASE e # d
    <3>1. PICK x \in Tasks \union Cases : RunOf(x, e)
      BY <1>2, <2>2, Reformulated DEF IInv, Processed
    <3> QED
      BY <1>3, <1>5, <2>2, <3>1 DEF RunOf
  <2> QED
    BY <2>1, <2>2
<1> QED
  BY <1>4, <1>5, <1>6, <1>7 DEF IInv, TasksInOrder, AnswersAreLogged

-----------------------------------------------------------------------------
\* SetDoc leaves every document but d alone, and only its status may change.
LEMMA SetDocEffect ==
  ASSUME TypeOK, NEW d \in Docs, NEW status \in {"queued", "processed", "failed"},
         doc' = SetDoc(d, status)
  PROVE  /\ doc' \in [Docs -> Doc \union {Absent, Deleted}]
         /\ \A e \in Docs : doc'[e] \in Doc => doc'[e].labels \subseteq label
         /\ \A e \in Docs : Live(e)' <=> Live(e)
         /\ Live(d) => doc'[d].status = status
         /\ \A e \in Docs : e # d => doc'[e] = doc[e]
<1>1. CASE Live(d)
  <2> DEFINE row == [doc[d] EXCEPT !.status = status]
  <2>1. doc[d] \in Doc
    BY <1>1, LiveRow
  <2>2. row \in Doc /\ row.status = status /\ row.labels = doc[d].labels
    BY <2>1 DEF Doc
  <2>3. doc' = [doc EXCEPT ![d] = row]
    BY <1>1 DEF SetDoc
  <2> HIDE DEF row
  <2> QED
    BY <1>1, <2>1, <2>2, <2>3, DocWritten DEF TypeOK
<1>2. CASE ~Live(d)
  BY <1>2 DEF SetDoc, TypeOK, Live
<1> QED
  BY <1>1, <1>2

\* The request commits: the new task is the last one of its document.
LEMMA ProcessKeepsIInv ==
  ASSUME IInv, NEW t \in Tasks, NEW d \in Docs, ProcessDocument(t, d)
  PROVE  IInv'
<1> DEFINE row == [doc |-> d, status |-> "open", waiting |-> TRUE, sent |-> FALSE]
<1>0. TypeOK
  BY DEF IInv
<1>1. /\ task' = [task EXCEPT ![t] = row] /\ doc' = SetDoc(d, "queued")
      /\ Live(d) /\ task[t] = NoTask /\ \A s \in Tasks : s < t => task[s] # NoTask
      /\ UNCHANGED <<file, label, chunks, result, applied, log, acked>>
  BY DEF ProcessDocument
<1>2. row \in Task /\ row # NoTask /\ row.doc = d /\ row.status = "open"
  BY TaskIsRow DEF Task
<1> HIDE DEF row
<1>3. /\ doc' \in [Docs -> Doc \union {Absent, Deleted}]
      /\ \A e \in Docs : doc'[e] \in Doc => doc'[e].labels \subseteq label
      /\ \A e \in Docs : Live(e)' <=> Live(e)
      /\ doc'[d].status = "queued"
      /\ \A e \in Docs : e # d => doc'[e] = doc[e]
  BY <1>0, <1>1, SetDocEffect
<1>4. task' \in [Tasks -> Task \union {NoTask}] /\ task'[t] = row
      /\ \A s \in Tasks : s # t => task'[s] = task[s]
  BY <1>0, <1>1, <1>2 DEF TypeOK
<1>5. TypeOK'
  BY <1>0, <1>1, <1>3, <1>4 DEF TypeOK
<1>6. \A s \in Tasks : s > t => task[s] = NoTask
  BY <1>1 DEF IInv, TasksInOrder
<1>7. TasksInOrder'
  <2> SUFFICES ASSUME NEW s \in Tasks, task'[s] = NoTask, NEW u \in Tasks, u > s
               PROVE  task'[u] = NoTask
    BY DEF TasksInOrder
  <2>1. s # t /\ task[s] = NoTask /\ ~(s < t)
    BY <1>1, <1>2, <1>4
  <2>2. u # t
    BY <2>1 DEF Tasks
  <2> QED
    BY <1>4, <2>1, <2>2 DEF IInv, TasksInOrder
<1>8. QueuedIsAwaited'
  <2> SUFFICES ASSUME NEW e \in Docs, Queued(e)' PROVE \E s \in Tasks : Awaits(s, e)'
    BY ReformulatedNext
  <2>1. CASE e = d
    <3>1. \A s \in Tasks : s > t => task'[s] = NoTask
      BY <1>4, <1>6 DEF Tasks
    <3>2. Awaits(t, e)'
      BY <1>2, <1>4, <2>1, <3>1 DEF Awaits
    <3> QED
      BY <3>2
  <2>2. CASE e # d
    <3>1. Queued(e)
      BY <1>3, <2>2 DEF Queued
    <3>2. PICK s \in Tasks : Awaits(s, e)
      BY <3>1, Reformulated DEF IInv
    <3>3. s # t
      BY <1>1, <3>2 DEF Awaits
    <3> QED
      BY <1>2, <1>4, <2>2, <3>2, <3>3 DEF Awaits
  <2> QED
    BY <2>1, <2>2
<1>9. ProcessedHasOneRun'
  <2> SUFFICES ASSUME NEW e \in Docs, Processed(e)' PROVE \E x \in Tasks \union Cases : RunOf(x, e)'
    BY ReformulatedNext
  <2>1. e # d /\ Processed(e)
    BY <1>3 DEF Processed
  <2>2. PICK x \in Tasks \union Cases : RunOf(x, e)
    BY <2>1, Reformulated DEF IInv
  <2> QED
    BY <1>1, <1>4, <2>2 DEF RunOf
<1> QED
  BY <1>1, <1>5, <1>7, <1>8, <1>9 DEF IInv, AnswersAreLogged

\* What the AI service and the log do leaves documents and tasks as far as they are.
LEMMA ServiceKeepsIInv ==
  ASSUME IInv, NEW t \in Tasks,
         \/ SubmitKnowledgeProcess(t) \/ ApplyAcceptedKnowledgeTask(t)
         \/ \E end \in Ends : WorkerEnds(t, end)
         \/ \E logged \in BOOLEAN : RecordTaskCallback(t, logged)
  PROVE  IInv'
<1>0. TypeOK
  BY DEF IInv
<1>1. UNCHANGED <<file, docVars>>
  BY DEF SubmitKnowledgeProcess, ApplyAcceptedKnowledgeTask, WorkerEnds, RecordTaskCallback
<1>2. TasksKept /\ task' \in [Tasks -> Task \union {NoTask}]
  <2>1. CASE SubmitKnowledgeProcess(t) \/ ApplyAcceptedKnowledgeTask(t)
    <3>1. PICK row \in Task : /\ task' = [task EXCEPT ![t] = row] /\ task[t] # NoTask
                              /\ row.doc = task[t].doc /\ row.status = task[t].status
      <4>1. task[t] \in Task
        BY <1>0, <2>1, TaskRow DEF SubmitKnowledgeProcess, ApplyAcceptedKnowledgeTask
      <4>2. CASE SubmitKnowledgeProcess(t)
        <5>1. [task[t] EXCEPT !.sent = TRUE] \in Task
          BY <4>1 DEF Task
        <5> QED
          BY <4>1, <4>2, <5>1 DEF SubmitKnowledgeProcess, Task
      <4>3. CASE ApplyAcceptedKnowledgeTask(t)
        <5>1. [task[t] EXCEPT !.waiting = FALSE] \in Task
          BY <4>1 DEF Task
        <5> QED
          BY <4>1, <4>3, <5>1 DEF ApplyAcceptedKnowledgeTask, Task
      <4> QED
        BY <2>1, <4>2, <4>3
    <3>2. row # NoTask
      BY TaskIsRow
    <3> QED
      BY <1>0, <3>1, <3>2 DEF TypeOK, TasksKept
  <2>2. CASE UNCHANGED task
    BY <1>0, <2>2 DEF TypeOK, TasksKept
  <2> QED
    BY <2>1, <2>2 DEF WorkerEnds, RecordTaskCallback
<1>3. TypeOK'
  BY <1>0, <1>1, <1>2 DEF TypeOK, docVars, SubmitKnowledgeProcess, ApplyAcceptedKnowledgeTask,
                          WorkerEnds, RecordTaskCallback, Record
<1>4. \A d \in Docs : DocKept(d)
  BY <1>1 DEF DocKept, Queued, Processed, Live, docVars
<1>5. AnswersAreLogged'
  BY DEF IInv, AnswersAreLogged, SubmitKnowledgeProcess, ApplyAcceptedKnowledgeTask,
         WorkerEnds, RecordTaskCallback, Record
<1> QED
  BY <1>2, <1>3, <1>4, <1>5, KeptByBoth DEF IInv

-----------------------------------------------------------------------------
\* A task ends.  Its document is told, unless a newer task of the document is waited for.
LEMMA EndKeepsIInv ==
  ASSUME IInv, NEW t \in Tasks, NEW row \in Task, task[t] # NoTask,
         task' = [task EXCEPT ![t] = row], row.doc = task[t].doc,
         NEW status \in {"processed", "failed"},
         \/ doc' = SetDoc(task[t].doc, status)
         \/ /\ doc' = doc
            /\ ~(Queued(task[t].doc) /\ Awaits(t, task[t].doc)),
         status = "processed" => chunks' = [chunks EXCEPT ![task[t].doc] = {t}],
         status # "processed" => chunks' = chunks,
         UNCHANGED <<file, label, result, log, acked>>, applied' \subseteq Tasks
  PROVE  IInv'
<1> DEFINE d == task[t].doc
<1>0. TypeOK /\ d \in Docs /\ row # NoTask
  BY TaskRow, TaskIsRow DEF IInv, Task
<1> HIDE DEF d
<1>1. /\ doc' \in [Docs -> Doc \union {Absent, Deleted}]
      /\ \A e \in Docs : doc'[e] \in Doc => doc'[e].labels \subseteq label
      /\ \A e \in Docs : Live(e)' <=> Live(e)
      /\ \A e \in Docs : e # d => doc'[e] = doc[e]
  <2>1. CASE doc' = SetDoc(d, status)
    BY <1>0, <2>1, SetDocEffect
  <2>2. CASE doc' = doc
    BY <1>0, <2>2 DEF TypeOK, Live
  <2> QED
    BY <2>1, <2>2 DEF d
<1>2. task' \in [Tasks -> Task \union {NoTask}] /\ task'[t] = row
      /\ \A s \in Tasks : s # t => task'[s] = task[s]
  BY <1>0 DEF TypeOK
<1>3. chunks' \in [Docs -> SUBSET (Tasks \union Cases)]
      /\ (\A e \in Docs : e # d => chunks'[e] = chunks[e])
      /\ (status = "processed" => chunks'[d] = {t})
  BY <1>0 DEF TypeOK, d
<1>4. TypeOK'
  BY <1>0, <1>1, <1>2, <1>3 DEF TypeOK
<1>5. TasksInOrder'
  BY <1>0, <1>2 DEF IInv, TasksInOrder
<1>6. QueuedIsAwaited'
  <2> SUFFICES ASSUME NEW e \in Docs, Queued(e)' PROVE \E s \in Tasks : Awaits(s, e)'
    BY ReformulatedNext
  <2>1. Queued(e) /\ ~(e = d /\ Awaits(t, d))
    <3>1. CASE e # d
      BY <1>1, <3>1 DEF Queued
    <3>2. CASE e = d /\ doc' = SetDoc(d, status)
      BY <1>0, <1>1, <3>2, SetDocEffect DEF Queued
    <3>3. CASE e = d /\ doc' = doc /\ ~(Queued(d) /\ Awaits(t, d))
      BY <1>1, <3>3 DEF Queued
    <3> QED
      BY <3>1, <3>2, <3>3 DEF d
  <2>2. PICK s \in Tasks : Awaits(s, e)
    BY <2>1, Reformulated DEF IInv
  <2>3. s # t
    BY <2>1, <2>2 DEF Awaits, d
  <2> QED
    BY <1>0, <1>2, <2>2, <2>3 DEF Awaits
<1>7. ProcessedHasOneRun'
  <2> SUFFICES ASSUME NEW e \in Docs, Processed(e)' PROVE \E x \in Tasks \union Cases : RunOf(x, e)'
    BY ReformulatedNext
  <2>1. CASE e = d /\ status = "processed"
    BY <1>0, <1>2, <1>3, <2>1 DEF RunOf, d
  <2>2. CASE e # d \/ status = "failed"
    <3>1. Processed(e) /\ chunks'[e] = chunks[e]
      <4>1. CASE e # d
        BY <1>1, <1>3, <4>1 DEF Processed
      <4>2. CASE e = d /\ doc' = SetDoc(d, status)
        BY <1>0, <1>1, <2>2, <4>2, SetDocEffect DEF Processed
      <4>3. CASE e = d /\ doc' = doc
        BY <1>1, <2>2, <4>3 DEF Processed
      <4> QED
        BY <4>1, <4>2, <4>3 DEF d
    <3>2. PICK x \in Tasks \union Cases : RunOf(x, e)
      BY <3>1, Reformulated DEF IInv
    <3> QED
      BY <1>0, <1>2, <3>1, <3>2 DEF RunOf
  <2> QED
    BY <2>1, <2>2
<1> QED
  BY <1>4, <1>5, <1>6, <1>7 DEF IInv, AnswersAreLogged

LEMMA EndStepKeepsIInv ==
  ASSUME IInv, NEW t \in Tasks,
         MarkKnowledgeProcessFailed(t) \/ ExpireInterruptedTask(t)
  PROVE  IInv'
<1>0. TypeOK /\ task[t] # NoTask /\ task[t] \in Task
  BY TaskRow DEF IInv, MarkKnowledgeProcessFailed, ExpireInterruptedTask
<1>1. CASE MarkKnowledgeProcessFailed(t)
  <2> DEFINE row == [task[t] EXCEPT !.status = "failed", !.waiting = FALSE]
  <2>1. row \in Task /\ row.doc = task[t].doc
    BY <1>0 DEF Task
  <2>2. /\ task' = [task EXCEPT ![t] = row] /\ doc' = SetDoc(task[t].doc, "failed")
        /\ UNCHANGED <<file, label, chunks, result, applied, log, acked>>
    BY <1>0, <1>1 DEF MarkKnowledgeProcessFailed, TypeOK
  <2>3. applied' \subseteq Tasks
    BY <1>0, <2>2 DEF TypeOK
  <2> HIDE DEF row
  <2> QED
    BY <1>0, <2>1, <2>2, <2>3, EndKeepsIInv
<1>2. CASE ExpireInterruptedTask(t)
  <2> DEFINE row == [task[t] EXCEPT !.status = "failed"]
             d == task[t].doc
  <2>1. row \in Task /\ row.doc = task[t].doc
    BY <1>0 DEF Task
  <2>2. /\ task' = [task EXCEPT ![t] = row]
        /\ doc' = IF Live(d) /\ doc[d].status = "queued" /\ Newer(t) = {} THEN SetDoc(d, "failed") ELSE doc
        /\ UNCHANGED <<file, label, chunks, result, applied, log, acked>>
    BY <1>2 DEF ExpireInterruptedTask
  <2>3. applied' \subseteq Tasks
    BY <1>0, <2>2 DEF TypeOK
  <2>4. Awaits(t, d) => Newer(t) = {}
    BY DEF Awaits, Newer
  <2>5. doc' = SetDoc(d, "failed") \/ (doc' = doc /\ ~(Queued(d) /\ Awaits(t, d)))
    BY <2>2, <2>4 DEF Queued
  <2> HIDE DEF row
  <2> QED
    BY <1>0, <2>1, <2>2, <2>3, <2>5, EndKeepsIInv
<1> QED
  BY <1>1, <1>2

\* A callback replaces the chunks of its document, or finds its task ended and nothing
\* to do.
LEMMA CallbackKeepsIInv ==
  ASSUME IInv, NEW t \in Tasks, ApplyCallback(t)
  PROVE  IInv'
<1>0. TypeOK /\ result[t] \in {"done", "failed"} /\ applied' = applied \union {t}
      /\ UNCHANGED <<file, label, result, log, acked>> /\ applied' \subseteq Tasks
  BY DEF IInv, TypeOK, ApplyCallback, Valid
<1>1. CASE task[t].status = "open"
  <2> DEFINE row == [task[t] EXCEPT !.status = result[t]]
             status == IF result[t] = "done" THEN "processed" ELSE "failed"
  <2>1. task[t] # NoTask /\ task[t] \in Task
    <3>1. NoTask.status # "open"
      BY DEF NoTask
    <3> QED
      BY <1>0, <1>1, <3>1, TaskRow
  <2>2. row \in Task /\ row.doc = task[t].doc
    BY <1>0, <2>1 DEF Task
  <2>3. /\ task' = [task EXCEPT ![t] = row] /\ doc' = SetDoc(task[t].doc, status)
        /\ status = "processed" => chunks' = [chunks EXCEPT ![task[t].doc] = {t}]
        /\ status # "processed" => chunks' = chunks
        /\ status \in {"processed", "failed"}
    BY <1>0, <1>1 DEF ApplyCallback, ShouldApplyCallback, ReplaceChunks
  <2> HIDE DEF row, status
  <2> QED
    BY <1>0, <2>1, <2>2, <2>3, EndKeepsIInv
<1>2. CASE task[t].status # "open"
  <2>1. UNCHANGED <<task, doc, chunks>>
    BY <1>2 DEF ApplyCallback, ShouldApplyCallback
  <2>2. TypeOK'
    BY <1>0, <2>1 DEF TypeOK
  <2>3. TasksKept /\ \A d \in Docs : DocKept(d)
    BY <2>1 DEF TasksKept, DocKept, Queued, Processed, Live
  <2> QED
    BY <1>0, <2>2, <2>3, KeptByBoth DEF IInv, AnswersAreLogged
<1> QED
  BY <1>1, <1>2

-----------------------------------------------------------------------------
LEMMA StepIInv == IInv /\ [Next]_vars => IInv'
<1> SUFFICES ASSUME IInv, [Next]_vars PROVE IInv'
  OBVIOUS
<1>1. CASE \E f \in Files :
             \/ PresignUpload(f) \/ ConfirmUpload(f) \/ CreateGeneratedAsset(f)
             \/ \E d \in Docs : EnsureDocumentForFile(f, d) \/ ArchiveWonCase(f, d)
  BY <1>1, FileKeepsIInv, DocumentStepKeepsIInv, ArchiveKeepsIInv
<1>2. CASE \E x \in Labels : CreateLabel(x) \/ DeleteLabel(x)
  BY <1>2, LabelKeepsIInv
<1>3. CASE \E d \in Docs : \/ DeleteDocument(d)
                           \/ \E labels \in SUBSET Labels : UpdateDocument(d, labels)
  BY <1>3, DocumentStepKeepsIInv
<1>4. ASSUME NEW t \in Tasks,
             \/ SubmitKnowledgeProcess(t) \/ ApplyAcceptedKnowledgeTask(t)
             \/ MarkKnowledgeProcessFailed(t) \/ ExpireInterruptedTask(t)
             \/ \E d \in Docs : ProcessDocument(t, d)
             \/ \E end \in Ends : WorkerEnds(t, end)
             \/ ApplyCallback(t)
             \/ \E logged \in BOOLEAN : RecordTaskCallback(t, logged)
      PROVE  IInv'
  BY <1>4, ServiceKeepsIInv, EndStepKeepsIInv, ProcessKeepsIInv, CallbackKeepsIInv
<1>5. CASE UNCHANGED vars
  <2>1. TypeOK'
    BY <1>5 DEF vars, IInv, TypeOK
  <2>2. TasksKept /\ \A d \in Docs : DocKept(d)
    BY <1>5 DEF vars, TasksKept, DocKept, Queued, Processed, Live
  <2> QED
    BY <1>5, <2>1, <2>2, KeptByBoth DEF vars, IInv, AnswersAreLogged
<1> QED
  BY <1>1, <1>2, <1>3, <1>4, <1>5 DEF Next

-----------------------------------------------------------------------------
\* Files, documents, tasks and the log hold the rows their operations write; a document
\* has only labels there are.
THEOREM TypeCorrect == Spec => []TypeOK
<1>1. IInv => TypeOK
  BY DEF IInv
<1> QED
  BY <1>1, InitIInv, StepIInv, PTL DEF Spec

\* The chunks of a processed document are those of one run of its own, or of its case.
THEOREM ProcessedIsOneRun == Spec => []ProcessedHasOneRun
<1>1. IInv => ProcessedHasOneRun
  BY DEF IInv
<1> QED
  BY <1>1, InitIInv, StepIInv, PTL DEF Spec

\* A queued document is waited for by an open task, the last that was made for it.
THEOREM QueuedHasTask == Spec => []QueuedIsAwaited
<1>1. IInv => QueuedIsAwaited
  BY DEF IInv
<1> QED
  BY <1>1, InitIInv, StepIInv, PTL DEF Spec

\* A callback that was answered has its entry in the log of AI calls.
THEOREM AnsweredIsLogged == Spec => []AnswersAreLogged
<1>1. IInv => AnswersAreLogged
  BY DEF IInv
<1> QED
  BY <1>1, InitIInv, StepIInv, PTL DEF Spec
=============================================================================
