-------------------------- MODULE BidReviewProofs --------------------------
(***************************************************************************)
(* Proofs about BidReview for any chapters, texts, requirements, tasks and *)
(* approval instances.  A chapter that waits is awaited by the newest task *)
(* it ever had, unless a cancelled job dropped the answer of that one; and *)
(* while no write is dated before the decision it follows (LateCommits),   *)
(* an approval that is newer than every chapter agreed to the very texts   *)
(* there are.                                                              *)
(***************************************************************************)
EXTENDS BidReview, FiniteSetTheorems, TLAPS

USE BodyAssumption, ModeAssumption, BoundAssumption, TextAssumption

-----------------------------------------------------------------------------
\* Task t is the newest of chapter c, and is queued or was dropped.
Explains(t, c) ==
    /\ task[t] # NoTask /\ task[t].chapter = c /\ Newer(t) = {}
    /\ \/ Queued(t) /\ (SelfCheck(t) => task[t].body = chapter[c].body)
       \/ task[t].status = "dropped"

\* What WaitsUnlessCancelled says of one chapter.
Awaited(c) == chapter[c].status = "generating" => \E t \in Tasks : Explains(t, c)

TasksInOrder == \A t, u \in Tasks : u < t /\ task[t] # NoTask => task[u] # NoTask

\* An approval dated after every chapter agreed to what the chapters say.
AgreedOK(i) ==
    instance[i].status = "approved" /\ instance[i].clean => instance[i].agreed = Texts

ReviewIInv ==
    /\ TypeOK
    /\ TasksInOrder
    /\ accepting \subseteq Present
    /\ \A c \in Chapters : Awaited(c)
    /\ InReviewIsPending
    /\ ~LateCommits => \A i \in Instances : AgreedOK(i)

LEMMA InitReviewIInv == Init => ReviewIInv
<1> SUFFICES ASSUME Init PROVE ReviewIInv
  OBVIOUS
<1>1. TypeOK
  <2>1. \A c \in Chapters : chapter[c] \in Chapter \union {NoChapter}
    BY DEF Init, NoChapter, NoAudit, Chapter, Audit
  <2>2. chapter \in [Chapters -> Chapter \union {NoChapter}]
    BY <2>1 DEF Init
  <2> QED
    BY <2>2 DEF Init, TypeOK, Instances, Tasks, Stages
<1>2. \A t \in Tasks : task[t] = NoTask
  BY DEF Init
<1>3. \A c \in Chapters : chapter[c].status \in {"open", "absent"}
  BY DEF Init, NoChapter
<1>4. \A i \in Instances : instance[i].status = "absent"
  BY DEF Init, NoInstance
<1> QED
  BY <1>1, <1>2, <1>3, <1>4
     DEF Init, ReviewIInv, TasksInOrder, Awaited, InReviewIsPending, AgreedOK

-----------------------------------------------------------------------------
(* Types *)

ChapterTyped  == chapter \in [Chapters -> Chapter \union {NoChapter}]
TaskTyped     == task \in [Tasks -> Task \union {NoTask}]
InstanceTyped == instance \in [Instances -> Instance \union {NoInstance}]
GateTyped     == gate \in [Stages -> {"absent", "open", "passed"}]
RestTyped ==
    /\ doc \in {"editing", "in_review", "approved", "submitted"}
    /\ source \in {"queued", "ready", "confirmed"}
    /\ flagged \subseteq Requirements
    /\ accepting \subseteq Chapters
    /\ cleared \in BOOLEAN
    /\ submitting \in Instances \union {0}

LEMMA TypeParts ==
  /\ TypeOK => ChapterTyped /\ TaskTyped /\ InstanceTyped /\ GateTyped /\ RestTyped
  /\ ChapterTyped' /\ TaskTyped' /\ InstanceTyped' /\ GateTyped' /\ RestTyped' => TypeOK'
BY Zenon DEF TypeOK, ChapterTyped, TaskTyped, InstanceTyped, GateTyped, RestTyped

\* A new date only takes the approvals their "clean".
Aged(new) ==
    /\ new \in [Instances -> Instance \union {NoInstance}]
    /\ \A i \in Instances :
         /\ new[i].status = instance[i].status
         /\ ~(new[i].status = "approved" /\ new[i].clean)

LEMMA TouchedAges == ASSUME InstanceTyped PROVE Aged(Touched)
<1>1. ASSUME NEW i \in Instances
      PROVE  /\ Touched[i] \in Instance \union {NoInstance}
             /\ Touched[i].status = instance[i].status
             /\ ~(Touched[i].status = "approved" /\ Touched[i].clean)
  <2>1. CASE instance[i].status = "approved"
    <3>1. instance[i] \in [status : {"approved"}, clean : BOOLEAN,
                           agreed : [Chapters -> Bodies \union {NoText}]]
      BY <2>1 DEF InstanceTyped, Instance, NoInstance
    <3>2. Touched[i] = [instance[i] EXCEPT !.clean = FALSE]
      BY <2>1 DEF Touched
    <3> QED
      BY <2>1, <3>1, <3>2 DEF Instance
  <2>2. CASE instance[i].status # "approved"
    <3>1. Touched[i] = instance[i]
      BY <2>2 DEF Touched
    <3> QED
      BY <2>2, <3>1 DEF InstanceTyped
  <2> QED
    BY <2>1, <2>2
<1>2. Touched \in [Instances -> Instance \union {NoInstance}]
  BY <1>1 DEF Touched
<1> QED
  BY <1>1, <1>2 DEF Aged

\* What a write of a chapter row leaves.
LEMMA WriteKeeps ==
  ASSUME TypeOK, NEW c \in Chapters, NEW row \in Chapter, Write(c, row)
  PROVE  /\ ChapterTyped' /\ chapter'[c] = row
         /\ \A d \in Chapters \ {c} : chapter'[d] = chapter[d]
         /\ InstanceTyped'
         /\ instance' = instance \/ Aged(instance')
         /\ ~LateCommits => Aged(instance')
<1>1. ChapterTyped /\ InstanceTyped
  BY TypeParts
<1>2. instance' \in {Touched, instance} /\ (~LateCommits => instance' = Touched)
  BY DEF Write
<1> QED
  BY <1>1, <1>2, TouchedAges DEF Write, Aged, ChapterTyped, InstanceTyped

LEMMA RowFields ==
  ASSUME ChapterTyped, NEW c \in Chapters
  PROVE  /\ chapter[c].body \in Bodies /\ chapter[c].audit \in Audit \union {NoAudit}
         /\ c \in Present => chapter[c] \in Chapter
BY DEF ChapterTyped, Chapter, NoChapter, Present

LEMMA TaskFields ==
  ASSUME TaskTyped, NEW t \in Tasks
  PROVE  /\ task[t] # NoTask => task[t].chapter \in Chapters
         /\ Queued(t) => /\ task[t] # NoTask /\ task[t].kind \in Kind
                         /\ task[t].body \in Bodies /\ task[t].fresh \in BOOLEAN
BY DEF TaskTyped, Task, NoTask, Queued

-----------------------------------------------------------------------------
(* What the parts of the invariant rest on *)

\* Nobody becomes pending or stops being so; nothing comes into review.
LEMMA ReviewStays ==
  ASSUME InReviewIsPending, doc' = doc \/ doc' # "in_review",
         \A i \in Instances : instance'[i].status = instance[i].status
  PROVE  InReviewIsPending'
BY DEF InReviewIsPending, Pending

\* An approval keeps to its texts while they stay, and loses its date with them.
LEMMA AgreedStays ==
  ASSUME \A i \in Instances : AgreedOK(i),
         Aged(instance') \/ (instance' = instance /\ Texts' = Texts)
  PROVE  \A i \in Instances : AgreedOK(i)'
BY DEF AgreedOK, Aged

LEMMA OrderStays ==
  ASSUME TasksInOrder, \A t \in Tasks : (task'[t] = NoTask) = (task[t] = NoTask)
  PROVE  TasksInOrder'
BY DEF TasksInOrder

\* The tasks of chapter c: none new, and each of the same status and text.
KeepsTasksOf(c) ==
    \A t \in Tasks :
        /\ task'[t] # NoTask /\ task'[t].chapter = c => task[t] # NoTask /\ task[t].chapter = c
        /\ task[t] # NoTask /\ task[t].chapter = c =>
             /\ task'[t] # NoTask /\ task'[t].chapter = c /\ task'[t].status = task[t].status
             /\ SelfCheck(t)' = SelfCheck(t)
             /\ Queued(t) => task'[t].body = task[t].body

\* The chapter still waits, for the same task.
LEMMA AwaitedStays ==
  ASSUME NEW c \in Chapters, Awaited(c), KeepsTasksOf(c),
         chapter'[c].status = chapter[c].status, chapter'[c].body = chapter[c].body
  PROVE  Awaited(c)'
<1> SUFFICES ASSUME chapter'[c].status = "generating" PROVE \E t \in Tasks : Explains(t, c)'
  BY DEF Awaited
<1>1. PICK t \in Tasks : Explains(t, c)
  BY DEF Awaited
<1>2. /\ task'[t] # NoTask /\ task'[t].chapter = c /\ task'[t].status = task[t].status
      /\ SelfCheck(t)' = SelfCheck(t)
      /\ Queued(t) => task'[t].body = task[t].body
  BY <1>1 DEF KeepsTasksOf, Explains
<1>3. Newer(t)' = {}
  BY <1>1, <1>2 DEF Newer, KeepsTasksOf, Explains
<1>4. Explains(t, c)'
  BY <1>1, <1>2, <1>3 DEF Explains, Queued
<1> QED
  BY <1>4

LEMMA UnchangedTasks == ASSUME UNCHANGED task, NEW c PROVE KeepsTasksOf(c) /\ (TaskTyped => TaskTyped')
BY DEF KeepsTasksOf, Queued, SelfCheck, TaskTyped

\* A task that ends leaves those of other chapters alone.
LEMMA EndedTask ==
  ASSUME TaskTyped, NEW t \in Tasks, task[t] # NoTask,
         NEW status \in {"ended", "dropped", "refused"}, TaskEnds(t, status)
  PROVE  /\ TaskTyped'
         /\ TasksInOrder => TasksInOrder'
         /\ \A d \in Chapters : d # task[t].chapter => KeepsTasksOf(d)
         /\ \A u \in Tasks : u # t => task'[u] = task[u]
         /\ \A u \in Tasks : task'[u].chapter = task[u].chapter
         /\ \A u \in Tasks : (task'[u] = NoTask) = (task[u] = NoTask)
         /\ task'[t].status = status
<1>1. task[t].chapter \in Chapters
  BY TaskFields
<1> DEFINE kind == IF OfJob(t) THEN "job" ELSE "text"
<1>2. task'[t] = [status |-> status, chapter |-> task[t].chapter, kind |-> kind]
      /\ \A u \in Tasks : u # t => task'[u] = task[u]
  BY DEF TaskEnds, TaskTyped
<1>3. kind \in {"text", "job"}
  OBVIOUS
<1> HIDE DEF kind
<1>4. task'[t] \in Task /\ task'[t] # NoTask /\ task'[t].status = status
      /\ task'[t].chapter = task[t].chapter
  BY <1>1, <1>2, <1>3 DEF Task, NoTask
<1>5. TaskTyped'
  <2>1. \A u \in Tasks : task'[u] \in Task \union {NoTask}
    BY <1>2, <1>4 DEF TaskTyped
  <2> QED
    BY <2>1 DEF TaskEnds, TaskTyped
<1>6. \A u \in Tasks : (task'[u] = NoTask) = (task[u] = NoTask)
  BY <1>2, <1>4
<1>7. \A u \in Tasks : task'[u].chapter = task[u].chapter
  BY <1>2, <1>4
<1>8. \A d \in Chapters : d # task[t].chapter => KeepsTasksOf(d)
  BY <1>1, <1>2, <1>4 DEF KeepsTasksOf, Queued, SelfCheck
<1> QED
  BY <1>2, <1>4, <1>5, <1>6, <1>7, <1>8, OrderStays

\* A step that writes one chapter keeps the invariant if the chapter and its
\* tasks fit together afterwards.
LEMMA WriteStep ==
  ASSUME ReviewIInv, NEW c \in Chapters, NEW row \in Chapter, Write(c, row),
         TaskTyped', TasksInOrder', GateTyped', RestTyped', UNCHANGED <<doc, accepting>>,
         \A d \in Chapters \ {c} : KeepsTasksOf(d), Awaited(c)'
  PROVE  ReviewIInv'
<1>1. TypeOK
  BY DEF ReviewIInv
<1>2. /\ ChapterTyped' /\ chapter'[c] = row /\ InstanceTyped'
      /\ \A d \in Chapters \ {c} : chapter'[d] = chapter[d]
      /\ instance' = instance \/ Aged(instance')
      /\ ~LateCommits => Aged(instance')
  BY <1>1, WriteKeeps
<1>3. TypeOK'
  BY <1>2, TypeParts
<1>4. \A d \in Chapters : Awaited(d)'
  BY <1>2, AwaitedStays DEF ReviewIInv
<1>5. accepting' \subseteq Present'
  <2>1. row.status # "absent"
    BY DEF Chapter
  <2> QED
    BY <1>2, <2>1 DEF ReviewIInv, Present
<1>6. InReviewIsPending'
  BY <1>2, ReviewStays DEF ReviewIInv, Aged
<1>7. ~LateCommits => \A i \in Instances : AgreedOK(i)'
  BY <1>2, AgreedStays DEF ReviewIInv
<1> QED
  BY <1>3, <1>4, <1>5, <1>6, <1>7 DEF ReviewIInv

\* A step that leaves all texts, tasks and instances.
LEMMA SameTexts ==
  ASSUME UNCHANGED chapter PROVE Texts' = Texts /\ Present' = Present
BY DEF Texts, Present

LEMMA ReopenType == ASSUME GateTyped, NEW stages, Reopen(stages) PROVE GateTyped'
BY DEF GateTyped, Reopen, Reopened

-----------------------------------------------------------------------------
(* Chapters and their tasks *)

LEMMA UpdateChapterContentStep ==
  ASSUME ReviewIInv, NEW c \in Chapters, NEW b \in Bodies, UpdateChapterContent(c, b)
  PROVE  ReviewIInv'
<1>0. ChapterTyped /\ TaskTyped /\ GateTyped /\ RestTyped
  BY TypeParts DEF ReviewIInv
<1> DEFINE row == [chapter[c] EXCEPT !.status = "written", !.body = b]
<1>1. row \in Chapter /\ row.status = "written"
  BY <1>0, RowFields DEF UpdateChapterContent, Chapter
<1>2. Write(c, row) /\ GateTyped' /\ RestTyped' /\ UNCHANGED <<doc, accepting, task>>
  BY <1>0, ReopenType DEF UpdateChapterContent, RestTyped, facts
<1>3. Awaited(c)'
  BY <1>0, <1>1, <1>2 DEF Awaited, Write, ChapterTyped
<1> HIDE DEF row
<1> QED
  BY <1>0, <1>1, <1>2, <1>3, WriteStep, UnchangedTasks, OrderStays DEF ReviewIInv

LEMMA UpdatePartOutlineStep ==
  ASSUME ReviewIInv, NEW c \in Chapters, NEW b \in Bodies, UpdatePartOutline(c, b)
  PROVE  ReviewIInv'
<1>0. ChapterTyped /\ TaskTyped /\ GateTyped /\ RestTyped
  BY TypeParts DEF ReviewIInv
<1>1. OutlineRow(c, b) \in Chapter /\ OutlineRow(c, b).status # "generating"
  <2>1. CASE c \in Present
    BY <1>0, <2>1, RowFields DEF OutlineRow, Chapter
  <2>2. CASE c \notin Present
    BY <2>2 DEF OutlineRow, NoChapter, Chapter
  <2> QED
    BY <2>1, <2>2
<1>2. Write(c, OutlineRow(c, b)) /\ GateTyped' /\ RestTyped' /\ UNCHANGED <<doc, accepting, task>>
  BY <1>0 DEF UpdatePartOutline, GateTyped, RestTyped, facts, review
<1>3. Awaited(c)'
  BY <1>0, <1>1, <1>2 DEF Awaited, Write, ChapterTyped
<1> QED
  BY <1>0, <1>1, <1>2, <1>3, WriteStep, UnchangedTasks, OrderStays DEF ReviewIInv

LEMMA AcceptStep ==
  ASSUME ReviewIInv, NEW c \in Chapters, AcceptChapter(c) \/ AcceptCommits(c)
  PROVE  ReviewIInv'
<1>0. ChapterTyped /\ TaskTyped /\ InstanceTyped /\ GateTyped /\ RestTyped
  BY TypeParts DEF ReviewIInv
<1>1. /\ UNCHANGED <<doc, facts, task, review, submitting>>
      /\ accepting' \subseteq Present /\ accepting' \subseteq Chapters
      /\ instance' = instance \/ instance' = Touched
      /\ chapter' = chapter \/ (c \in Present /\ chapter' = [chapter EXCEPT ![c].status = "accepted"])
  BY <1>0 DEF AcceptChapter, AcceptCommits, approval, ReviewIInv, RestTyped
<1>2. instance' = instance \/ Aged(instance')
  BY <1>0, <1>1, TouchedAges
<1>3. /\ ChapterTyped'
      /\ \A d \in Chapters : chapter'[d].body = chapter[d].body /\ (d \in Present <=> d \in Present')
      /\ \A d \in Chapters : chapter'[d].status \in {chapter[d].status, "accepted"}
  <2>1. CASE UNCHANGED chapter
    BY <1>0, <2>1 DEF ChapterTyped, Present
  <2>2. CASE c \in Present /\ chapter' = [chapter EXCEPT ![c].status = "accepted"]
    <3>1. chapter[c] \in Chapter /\ chapter'[c] = [chapter[c] EXCEPT !.status = "accepted"]
          /\ \A d \in Chapters \ {c} : chapter'[d] = chapter[d]
      BY <1>0, <2>2, RowFields DEF ChapterTyped
    <3>2. chapter'[c] \in Chapter /\ chapter'[c].body = chapter[c].body /\ chapter'[c].status = "accepted"
      BY <3>1 DEF Chapter
    <3> QED
      BY <1>0, <2>2, <3>1, <3>2 DEF ChapterTyped, Present
  <2> QED
    BY <1>1, <2>1, <2>2
<1>4. Texts' = Texts /\ accepting' \subseteq Present'
  BY <1>1, <1>3 DEF Texts, Present
<1>5. \A d \in Chapters : Awaited(d)'
  <2> SUFFICES ASSUME NEW d \in Chapters PROVE Awaited(d)'
    OBVIOUS
  <2>1. CASE chapter'[d].status = chapter[d].status
    BY <1>1, <1>3, <2>1, AwaitedStays, UnchangedTasks DEF ReviewIInv
  <2>2. CASE chapter'[d].status = "accepted"
    BY <2>2 DEF Awaited
  <2> QED
    BY <1>3, <2>1, <2>2
<1>6. TypeOK'
  BY <1>0, <1>1, <1>2, <1>3, TypeParts
     DEF Aged, TaskTyped, InstanceTyped, GateTyped, RestTyped, facts, review
<1>7. InReviewIsPending' /\ TasksInOrder'
  BY <1>1, <1>2, ReviewStays, OrderStays DEF Aged, ReviewIInv
<1>8. ~LateCommits => \A i \in Instances : AgreedOK(i)'
  BY <1>2, <1>4, AgreedStays DEF ReviewIInv
<1> QED
  BY <1>4, <1>5, <1>6, <1>7, <1>8 DEF ReviewIInv

LEMMA GenerateOutlineStep ==
  ASSUME ReviewIInv, NEW added \in SUBSET Chapters, GenerateOutline(added)
  PROVE  ReviewIInv'
<1>0. ChapterTyped /\ TaskTyped /\ InstanceTyped /\ GateTyped /\ RestTyped
  BY TypeParts DEF ReviewIInv
<1>1. /\ doc' = "editing" /\ UNCHANGED <<facts, accepting, task, cleared, submitting>>
      /\ added \intersect Present = {}
      /\ \A c \in Chapters : chapter'[c] = IF c \in added THEN [NoChapter EXCEPT !.status = "open"]
                                           ELSE chapter[c]
      /\ added = {} => UNCHANGED <<gate, instance>>
      /\ added # {} => Reopen(Stages) /\ instance' = Touched
  BY DEF GenerateOutline
<1>2. [NoChapter EXCEPT !.status = "open"] \in Chapter
  BY DEF NoChapter, NoAudit, Chapter
<1>3. ChapterTyped'
  BY <1>0, <1>2 DEF GenerateOutline, ChapterTyped
<1>4. /\ Aged(instance') \/ (instance' = instance /\ Texts' = Texts)
      /\ InstanceTyped' /\ GateTyped'
  <2>1. CASE added = {}
    <3>1. \A c \in Chapters : chapter'[c] = chapter[c]
      BY <1>1, <2>1
    <3> QED
      BY <1>0, <1>1, <2>1, <3>1 DEF Texts, Present, InstanceTyped, GateTyped
  <2>2. CASE added # {}
    BY <1>0, <1>1, <2>2, TouchedAges, ReopenType DEF Aged, InstanceTyped
  <2> QED
    BY <2>1, <2>2
<1>5. TypeOK'
  BY <1>0, <1>1, <1>3, <1>4, TypeParts DEF TaskTyped, RestTyped, facts
<1>6. \A c \in Chapters : Awaited(c)'
  <2> SUFFICES ASSUME NEW c \in Chapters PROVE Awaited(c)'
    OBVIOUS
  <2>1. CASE c \in added
    BY <1>1, <2>1 DEF NoChapter, Awaited
  <2>2. CASE c \notin added
    BY <1>1, <2>2, AwaitedStays, UnchangedTasks DEF ReviewIInv
  <2> QED
    BY <2>1, <2>2
<1>7. accepting' \subseteq Present'
  BY <1>1 DEF Present, ReviewIInv
<1>8. InReviewIsPending' /\ TasksInOrder'
  BY <1>1, OrderStays DEF InReviewIsPending, ReviewIInv
<1>9. ~LateCommits => \A i \in Instances : AgreedOK(i)'
  BY <1>4, AgreedStays DEF ReviewIInv
<1> QED
  BY <1>5, <1>6, <1>7, <1>8, <1>9 DEF ReviewIInv

\* The generate gate after a refresh.
LEMMA RefreshType ==
  ASSUME NEW t, NEW statuses \in SUBSET {"open", "passed"},
         NEW g \in [Stages -> {"absent", "open", "passed"}], JobRefreshed(t, statuses, g)
  PROVE  GateTyped'
<1>1. ASSUME NEW status \in statuses PROVE [g EXCEPT !["generate"] = status] \in [Stages -> {"absent", "open", "passed"}]
  BY DEF Stages
<1> QED
  BY <1>1 DEF JobRefreshed, GateTyped

LEMMA RequestChapterTaskStep ==
  ASSUME ReviewIInv, NEW t \in Tasks, NEW c \in Chapters, NEW kind \in Kind,
         RequestChapterTask(t, c, kind)
  PROVE  ReviewIInv'
<1>0. ChapterTyped /\ TaskTyped /\ GateTyped /\ RestTyped
  BY TypeParts DEF ReviewIInv
<1> DEFINE row == [chapter[c] EXCEPT !.status = "generating"]
           body == IF kind = "self_check" THEN chapter[c].body ELSE Hint
           new == [status |-> "queued", kind |-> kind, chapter |-> c, body |-> body,
                   fresh |-> source \in {"ready", "confirmed"}]
<1>1. row \in Chapter /\ row.body = chapter[c].body
  BY <1>0, RowFields DEF RequestChapterTask, Chapter
<1>2. /\ new \in Task /\ new # NoTask /\ new.status = "queued" /\ new.chapter = c
      /\ new.kind = "self_check" => new.body = chapter[c].body
  <2>1. body \in Bodies
    BY <1>0, RowFields
  <2> QED
    BY <2>1 DEF Task, NoTask
<1>3. /\ Write(c, row) /\ task' = [task EXCEPT ![t] = new]
      /\ task[t] = NoTask /\ \A u \in Tasks : u < t => task[u] # NoTask
      /\ UNCHANGED <<doc, facts, accepting, cleared, submitting>>
  BY DEF RequestChapterTask
<1> HIDE DEF row, body, new
<1>4. TaskTyped' /\ RestTyped'
  BY <1>0, <1>2, <1>3 DEF TaskTyped, RestTyped, facts
<1>g. GateTyped'
  BY <1>0 DEF RequestChapterTask, GateTyped, Stages
<1>5. task'[t] = new /\ \A u \in Tasks : u # t => task'[u] = task[u]
  BY <1>0, <1>3 DEF TaskTyped
<1>6. \A u \in Tasks : u > t => task[u] = NoTask
  BY <1>3 DEF ReviewIInv, TasksInOrder
<1>7. TasksInOrder'
  BY <1>2, <1>3, <1>5, <1>6 DEF ReviewIInv, TasksInOrder, Tasks
<1>8. \A d \in Chapters \ {c} : KeepsTasksOf(d)
  BY <1>2, <1>3, <1>5 DEF KeepsTasksOf, Queued, SelfCheck
<1>9. Awaited(c)'
  <2>1. Newer(t)' = {}
    BY <1>5, <1>6 DEF Newer, Tasks
  <2>2. chapter'[c] = row
    BY <1>0, <1>3 DEF Write, ChapterTyped
  <2>3. Explains(t, c)'
    BY <1>1, <1>2, <1>5, <2>1, <2>2 DEF Explains, Queued, SelfCheck
  <2> QED
    BY <2>3 DEF Awaited
<1> QED
  BY <1>1, <1>3, <1>4, <1>g, <1>7, <1>8, <1>9, WriteStep

\* A step that leaves chapters and approvals alone: of the task t of chapter c.
LEMMA TaskStep ==
  ASSUME ReviewIInv, NEW c \in Chapters, Awaited(c)', TaskTyped', TasksInOrder', GateTyped',
         \A d \in Chapters \ {c} : KeepsTasksOf(d),
         UNCHANGED <<doc, facts, chapter, accepting, cleared, approval>>
  PROVE  ReviewIInv'
<1>0. ChapterTyped /\ InstanceTyped /\ RestTyped
  BY TypeParts DEF ReviewIInv
<1>1. TypeOK'
  BY <1>0, TypeParts DEF ChapterTyped, InstanceTyped, RestTyped, facts, approval
<1>2. \A d \in Chapters : Awaited(d)'
  BY AwaitedStays, Zenon DEF ReviewIInv
<1>3. accepting' \subseteq Present' /\ InReviewIsPending'
  BY DEF ReviewIInv, InReviewIsPending, Pending, Present, approval
<1>4. ~LateCommits => \A i \in Instances : AgreedOK(i)'
  BY SameTexts, AgreedStays DEF ReviewIInv, approval
<1> QED
  BY <1>1, <1>2, <1>3, <1>4 DEF ReviewIInv

\* The chapter of t waits for another task than t, or t is dropped.
LEMMA AwaitedElsewhere ==
  ASSUME ReviewIInv, NEW t \in Tasks, Queued(t),
         NEW status \in {"ended", "dropped", "refused"}, TaskEnds(t, status), UNCHANGED chapter,
         NEW c \in Chapters, c = task[t].chapter,
         \/ Newer(t) # {} \/ (SelfCheck(t) /\ task[t].body # chapter[c].body)
         \/ chapter[c].status # "generating" \/ status = "dropped"
  PROVE  Awaited(c)'
<1> SUFFICES ASSUME chapter[c].status = "generating" PROVE Awaited(c)'
  BY DEF Awaited
<1>0. TaskTyped /\ task[t] # NoTask
  BY TypeParts, TaskFields DEF ReviewIInv
<1>1. PICK u \in Tasks : Explains(u, c)
  BY DEF ReviewIInv, Awaited
<1>2. /\ u # t => task'[u] = task[u]
      /\ \A v \in Tasks : task'[v].chapter = task[v].chapter /\ (task'[v] = NoTask) = (task[v] = NoTask)
      /\ task'[t].status = status
  BY <1>0, EndedTask
<1>3. Newer(u)' = {}
  BY <1>1, <1>2 DEF Newer, Explains
<1>4. CASE u # t
  <2>1. Explains(u, c)'
    BY <1>1, <1>2, <1>3, <1>4 DEF Explains, Queued, SelfCheck
  <2> QED
    BY <2>1 DEF Awaited
<1>5. CASE u = t
  <2>1. status = "dropped"
    BY <1>1, <1>5 DEF Explains, Queued
  <2>2. Explains(t, c)'
    BY <1>0, <1>1, <1>2, <1>3, <1>5, <2>1 DEF Explains
  <2> QED
    BY <2>2 DEF Awaited
<1> QED
  BY <1>4, <1>5

LEMMA ChapterDoneStep ==
  ASSUME ReviewIInv, NEW t \in Tasks, NEW b \in Bodies, NEW pass \in BOOLEAN,
         NEW covered \in SUBSET Requirements, NEW disputed \in SUBSET Requirements,
         ChapterDone(t, b, pass, covered, disputed)
  PROVE  ReviewIInv'
<1>0. ChapterTyped /\ TaskTyped /\ GateTyped /\ RestTyped
  BY TypeParts DEF ReviewIInv
<1>n. Queued(t) /\ task[t] # NoTask
  BY <1>0, TaskFields DEF ChapterDone
<1>c. PICK c \in Chapters : c = task[t].chapter
  BY <1>0, <1>n, TaskFields
<1> DEFINE audit == IF pass /\ task[t].fresh THEN [body |-> b, covers |-> covered] ELSE NoAudit
           row == [status |-> "written", body |-> b, audit |-> audit]
           status == IF SideEffects(t) THEN "ended" ELSE "dropped"
<1>1. TaskEnds(t, status) /\ UNCHANGED <<doc, source, accepting, cleared, submitting>>
      /\ (SelfCheck(t) => b = task[t].body)
  BY DEF ChapterDone, Answered
<1>2. status \in {"ended", "dropped", "refused"} /\ (~SideEffects(t) => status = "dropped")
  OBVIOUS
<1> HIDE DEF status
<1>3. TaskTyped' /\ TasksInOrder' /\ \A d \in Chapters \ {c} : KeepsTasksOf(d)
  BY <1>c, <1>n, <1>0, <1>1, <1>2, EndedTask DEF ReviewIInv
<1>4. CASE Applies(t, b)
  <2>1. Write(c, row) /\ flagged' = FlaggedAfter(covered, disputed)
        /\ JobRefreshed(t, {"open", "passed"}, Reopened({"check", "format"}))
    BY <1>c, <1>4 DEF ChapterDone
  <2>2. row \in Chapter /\ row.status = "written"
    BY DEF Chapter, Audit
  <2> HIDE DEF row
  <2>3. GateTyped'
    <3>1. Reopened({"check", "format"}) \in [Stages -> {"absent", "open", "passed"}]
      BY <1>0 DEF Reopened, GateTyped
    <3> QED
      BY <2>1, <3>1, RefreshType
  <2>4. RestTyped'
    BY <1>0, <1>1, <2>1 DEF RestTyped, FlaggedAfter
  <2>5. Awaited(c)'
    BY <1>0, <2>1, <2>2 DEF Write, ChapterTyped, Awaited
  <2> QED
    BY <1>1, <1>3, <2>1, <2>2, <2>3, <2>4, <2>5, WriteStep
<1>5. CASE ~Applies(t, b)
  <2>1. UNCHANGED <<flagged, chapter, instance>> /\ JobRefreshed(t, {"open", "passed"}, gate)
    BY <1>5 DEF ChapterDone
  <2>2. (SelfCheck(t) /\ task[t].body # chapter[c].body) \/ status = "dropped"
    BY <1>c, <1>1, <1>2, <1>5 DEF Applies
  <2>3. Awaited(c)'
    BY <1>n, <1>1, <1>2, <2>1, <2>2, <1>c, AwaitedElsewhere
  <2>4. GateTyped'
    BY <1>0, <2>1, RefreshType DEF GateTyped
  <2> QED
    BY <1>1, <1>3, <2>1, <2>3, <2>4, TaskStep DEF facts, approval
<1> QED
  BY <1>4, <1>5

\* A chapter that is opened again waits for nothing.
LEMMA OpenedStep ==
  ASSUME ReviewIInv, NEW t \in Tasks, task[t] # NoTask,
         NEW status \in {"ended", "dropped", "refused"}, TaskEnds(t, status),
         NEW c \in Chapters, c = task[t].chapter,
         Write(c, [chapter[c] EXCEPT !.status = "open"]), GateTyped',
         UNCHANGED <<doc, facts, accepting, cleared, submitting>>
  PROVE  ReviewIInv'
<1>0. ChapterTyped /\ TaskTyped /\ RestTyped
  BY TypeParts DEF ReviewIInv
<1> DEFINE row == [chapter[c] EXCEPT !.status = "open"]
<1>1. row \in Chapter /\ row.status = "open"
  BY <1>0, RowFields DEF Chapter, ChapterTyped, NoChapter
<1>2. RestTyped'
  BY <1>0 DEF RestTyped, facts
<1>3. Awaited(c)'
  BY <1>0, <1>1 DEF Write, ChapterTyped, Awaited
<1>4. TaskTyped' /\ TasksInOrder' /\ \A d \in Chapters \ {c} : KeepsTasksOf(d)
  BY <1>0, EndedTask DEF ReviewIInv
<1>5. Write(c, row)
  OBVIOUS
<1> HIDE DEF row
<1> QED
  BY <1>1, <1>2, <1>3, <1>4, <1>5, WriteStep

LEMMA ChapterFailedStep ==
  ASSUME ReviewIInv, NEW t \in Tasks, ChapterFailed(t) \/ SubmissionFails(t) \/ ChapterSwept(t)
  PROVE  ReviewIInv'
<1>0. TaskTyped /\ GateTyped
  BY TypeParts DEF ReviewIInv
<1>n. task[t] # NoTask
  BY DEF ChapterFailed, SubmissionFails, ChapterSwept, Queued, NoTask
<1>c. PICK c \in Chapters : c = task[t].chapter
  BY <1>0, <1>n, TaskFields
<1>g. JobRefreshed(t, {"open"}, gate) => GateTyped'
  BY <1>0, RefreshType DEF GateTyped
<1>1. CASE ChapterFailed(t) /\ SideEffects(t)
  BY <1>1, <1>n, <1>c, <1>g, OpenedStep DEF ChapterFailed, Answered
<1>2. CASE SubmissionFails(t)
  BY <1>2, <1>n, <1>c, <1>g, OpenedStep DEF SubmissionFails
<1>3. CASE ChapterSwept(t) /\ chapter[c].status = "generating" /\ Newer(t) = {}
  <2>1. GateTyped'
    BY <1>0, <1>3 DEF ChapterSwept, GateTyped, review
  <2> QED
    BY <1>3, <1>n, <1>c, <2>1, OpenedStep DEF ChapterSwept, review
<1>4. CASE ChapterFailed(t) /\ ~SideEffects(t)
  <2>1. /\ Queued(t) /\ TaskEnds(t, "dropped") /\ GateTyped'
        /\ UNCHANGED <<doc, facts, chapter, accepting, cleared, approval>>
    BY <1>4, <1>g DEF ChapterFailed, Answered, approval
  <2>2. Awaited(c)'
    BY <1>c, <2>1, AwaitedElsewhere
  <2>3. TaskTyped' /\ TasksInOrder' /\ \A d \in Chapters \ {c} : KeepsTasksOf(d)
    BY <1>c, <1>n, <1>0, <2>1, EndedTask DEF ReviewIInv
  <2> QED
    BY <2>1, <2>2, <2>3, TaskStep
<1>5. CASE ChapterSwept(t) /\ ~(chapter[c].status = "generating" /\ Newer(t) = {})
  <2>1. /\ Queued(t) /\ TaskEnds(t, "ended") /\ GateTyped'
        /\ UNCHANGED <<doc, facts, chapter, accepting, cleared, approval>>
    BY <1>c, <1>0, <1>5 DEF ChapterSwept, GateTyped, review, approval
  <2>2. Awaited(c)'
    BY <1>c, <1>5, <2>1, AwaitedElsewhere
  <2>3. TaskTyped' /\ TasksInOrder' /\ \A d \in Chapters \ {c} : KeepsTasksOf(d)
    BY <1>c, <1>n, <1>0, <2>1, EndedTask DEF ReviewIInv
  <2> QED
    BY <2>1, <2>2, <2>3, TaskStep
<1> QED
  BY <1>1, <1>2, <1>3, <1>4, <1>5

\* A job that is cancelled still leaves its chapter a queued task.
LEMMA CancelGenerationStep ==
  ASSUME ReviewIInv, NEW t \in Tasks, CancelGeneration(t)
  PROVE  ReviewIInv'
<1>0. TaskTyped /\ GateTyped
  BY TypeParts DEF ReviewIInv
<1>1. /\ Queued(t) /\ task[t].kind = "job" /\ task[t] # NoTask
      /\ UNCHANGED <<doc, facts, chapter, accepting, cleared, approval>>
  BY <1>0, TaskFields DEF CancelGeneration
<1>2. PICK c \in Chapters : c = task[t].chapter
  BY <1>0, <1>1, TaskFields
<1> DEFINE row == [task[t] EXCEPT !.kind = "cancelled"]
<1>3. task[t] \in [status : {"queued"}, kind : Kind, chapter : Chapters, body : Bodies, fresh : BOOLEAN]
  BY <1>0, <1>1 DEF TaskTyped, Queued, Task, NoTask
<1>4. /\ row \in [status : {"queued"}, kind : Kind, chapter : Chapters, body : Bodies, fresh : BOOLEAN]
      /\ row.kind = "cancelled" /\ row.chapter = task[t].chapter /\ row.body = task[t].body
      /\ row.status = task[t].status
  BY <1>3 DEF Kind
<1>5. row \in Task /\ row # NoTask
  BY <1>4 DEF Task, NoTask
<1>6. task'[t] = row /\ \A u \in Tasks : u # t => task'[u] = task[u]
  BY <1>0 DEF CancelGeneration, TaskTyped
<1> HIDE DEF row
<1>7. TaskTyped'
  <2>1. \A u \in Tasks : task'[u] \in Task \union {NoTask}
    BY <1>0, <1>5, <1>6 DEF TaskTyped
  <2> QED
    BY <1>0, <2>1 DEF CancelGeneration, TaskTyped
<1>8. \A d \in Chapters : KeepsTasksOf(d)
  BY <1>1, <1>4, <1>5, <1>6 DEF KeepsTasksOf, SelfCheck, Queued
<1>9. TasksInOrder'
  BY <1>1, <1>5, <1>6, OrderStays DEF ReviewIInv
<1>10. Awaited(c)'
  BY <1>1, <1>8, AwaitedStays DEF ReviewIInv
<1>11. GateTyped'
  BY <1>0 DEF CancelGeneration, GateTyped, Stages
<1> QED
  BY <1>1, <1>7, <1>8, <1>9, <1>10, <1>11, TaskStep

-----------------------------------------------------------------------------
(* Sources, gates, approvals *)

LEMMA SourceStep ==
  ASSUME ReviewIInv, SourceChanges, doc' \in {doc, "editing"},
         source' \in {"queued", "ready", "confirmed"}, flagged' \subseteq Requirements,
         UNCHANGED <<review, approval>>
  PROVE  ReviewIInv'
<1>0. ChapterTyped /\ TaskTyped /\ InstanceTyped /\ GateTyped /\ RestTyped
  BY TypeParts DEF ReviewIInv
<1>1. /\ ChapterTyped'
      /\ \A c \in Chapters : chapter'[c].status = chapter[c].status /\ chapter'[c].body = chapter[c].body
  <2>1. ASSUME NEW c \in Chapters
        PROVE  /\ chapter'[c] = [chapter[c] EXCEPT !.audit = NoAudit]
               /\ chapter'[c] \in Chapter \union {NoChapter}
               /\ chapter'[c].status = chapter[c].status /\ chapter'[c].body = chapter[c].body
    <3>1. chapter'[c] = [chapter[c] EXCEPT !.audit = NoAudit]
      BY DEF SourceChanges
    <3> QED
      BY <1>0, <3>1 DEF ChapterTyped, Chapter, NoChapter
  <2> QED
    BY <2>1 DEF SourceChanges, ChapterTyped
<1>2. /\ TaskTyped' /\ TasksInOrder' /\ \A c \in Chapters : KeepsTasksOf(c)
  <2>1. ASSUME NEW t \in Tasks
        PROVE  IF Queued(t)
               THEN /\ task'[t] \in Task /\ task'[t] # NoTask /\ task[t] # NoTask
                    /\ task'[t].status = task[t].status /\ task'[t].kind = task[t].kind
                    /\ task'[t].chapter = task[t].chapter /\ task'[t].body = task[t].body
               ELSE task'[t] = task[t]
    <3>1. CASE Queued(t)
      <4>1. task'[t] = [task[t] EXCEPT !.fresh = FALSE]
        BY <3>1 DEF SourceChanges
      <4>2. task[t] \in [status : {"queued"}, kind : Kind, chapter : Chapters, body : Bodies, fresh : BOOLEAN]
        BY <1>0, <3>1 DEF TaskTyped, Queued, Task, NoTask
      <4>3. task'[t] \in [status : {"queued"}, kind : Kind, chapter : Chapters, body : Bodies, fresh : BOOLEAN]
        BY <4>1, <4>2
      <4>4. task'[t].chapter = task[t].chapter /\ task'[t].body = task[t].body
            /\ task'[t].kind = task[t].kind /\ task'[t].status = task[t].status
        BY <4>1, <4>2
      <4>5. task'[t] # NoTask /\ task[t] # NoTask
        BY <4>2, <4>3 DEF NoTask
      <4> QED
        BY <3>1, <4>3, <4>4, <4>5, Zenon DEF Task
    <3>2. CASE ~Queued(t)
      BY <3>2 DEF SourceChanges
    <3> QED
      BY <3>1, <3>2
  <2>2. TaskTyped'
    BY <1>0, <2>1 DEF SourceChanges, TaskTyped
  <2>3. \A t \in Tasks : (task'[t] = NoTask) = (task[t] = NoTask)
    BY <2>1
  <2>4. \A c \in Chapters : KeepsTasksOf(c)
    BY <2>1 DEF KeepsTasksOf, SelfCheck
  <2> QED
    BY <2>2, <2>3, <2>4, OrderStays DEF ReviewIInv
<1>3. TypeOK'
  BY <1>0, <1>1, <1>2, TypeParts
     DEF InstanceTyped, GateTyped, RestTyped, review, approval, SourceChanges
<1>4. Texts' = Texts /\ Present' = Present
  BY <1>1 DEF Texts, Present
<1>5. \A c \in Chapters : Awaited(c)'
  BY <1>1, <1>2, AwaitedStays DEF ReviewIInv
<1>6. InReviewIsPending' /\ accepting' \subseteq Present'
  BY <1>4 DEF ReviewIInv, InReviewIsPending, Pending, approval, SourceChanges
<1>7. ~LateCommits => \A i \in Instances : AgreedOK(i)'
  BY <1>4, AgreedStays DEF ReviewIInv, approval
<1> QED
  BY <1>2, <1>3, <1>4, <1>5, <1>6, <1>7 DEF ReviewIInv

\* Whatever leaves texts and tasks alone keeps what is said of them.
LEMMA SameTextsStep ==
  ASSUME ReviewIInv, UNCHANGED texts, TypeOK', InReviewIsPending',
         ~LateCommits => \A i \in Instances : AgreedOK(i)'
  PROVE  ReviewIInv'
<1>1. UNCHANGED chapter /\ UNCHANGED task /\ UNCHANGED accepting
  BY DEF texts
<1>2. \A c \in Chapters : Awaited(c)'
  BY <1>1, AwaitedStays, UnchangedTasks DEF ReviewIInv
<1>3. TasksInOrder' /\ accepting' \subseteq Present'
  BY <1>1, SameTexts DEF ReviewIInv, TasksInOrder
<1> QED
  BY <1>2, <1>3 DEF ReviewIInv

LEMMA SameInstancesStep ==
  ASSUME ReviewIInv, UNCHANGED <<texts, instance>>, doc' = doc \/ doc' # "in_review", TypeOK'
  PROVE  ReviewIInv'
<1>1. InReviewIsPending'
  BY ReviewStays DEF ReviewIInv
<1>2. Texts' = Texts
  BY SameTexts DEF texts
<1>3. ~LateCommits => \A i \in Instances : AgreedOK(i)'
  BY <1>2, AgreedStays DEF ReviewIInv
<1> QED
  BY <1>1, <1>3, SameTextsStep

LEMMA RequirementsStep ==
  ASSUME ReviewIInv, NEW items \in SUBSET Requirements, NEW doubt \in BOOLEAN,
         UpdateRequirementCoverage(items, doubt)
  PROVE  ReviewIInv'
<1>1. flagged' \subseteq Requirements /\ UNCHANGED <<doc, source, texts, review, approval>>
  BY DEF UpdateRequirementCoverage, ReviewIInv, TypeOK
<1>2. TypeOK'
  BY <1>1, TypeParts
     DEF ReviewIInv, ChapterTyped, TaskTyped, InstanceTyped, GateTyped, RestTyped, texts, review, approval
<1> QED
  BY <1>1, <1>2, SameInstancesStep DEF approval

\* Every step about the gates, and the last status of a bid.
LEMMA GatesStep ==
  ASSUME ReviewIInv, Gates \/ SubmitDocument \/ Archive
  PROVE  ReviewIInv'
<1>0. ChapterTyped /\ TaskTyped /\ InstanceTyped /\ GateTyped /\ RestTyped
  BY TypeParts DEF ReviewIInv
<1>1. /\ UNCHANGED <<facts, texts, approval>>
      /\ doc' = doc \/ doc' \in {"submitted", "editing"}
      /\ cleared' \in BOOLEAN
      /\ GateTyped'
  <2>1. CASE \E s \in Stages, status \in {"open", "passed"} : GateBecomes(s, status)
    <3>1. GateTyped'
      BY <1>0, <2>1 DEF GateBecomes, GateTyped
    <3>2. Findings \in BOOLEAN
      BY DEF Findings
    <3> QED
      BY <1>0, <3>1, <3>2
         DEF Gates, GenerateBid, CreateExport, GenerationEnds, CreateCheck, HandleIssue, ExportEnds,
             SubmitDocument, Archive, RestTyped, review
  <2>2. CASE CreateExport
    BY <1>0, <2>2 DEF CreateExport, GateTyped, Stages, RestTyped
  <2>3. CASE Archive
    BY <1>0, <2>3 DEF Archive, GateTyped, RestTyped, review
  <2>4. CASE GenerateBid \/ SubmitDocument
    BY <2>1, <2>4 DEF GenerateBid, SubmitDocument, Stages
  <2>5. CASE \E status \in {"open", "passed"} :
               GenerationEnds(status) \/ CreateCheck(status) \/ HandleIssue(status) \/ ExportEnds(status)
    <3>1. \E s \in Stages, status \in {"open", "passed"} : GateBecomes(s, status)
      BY <2>5 DEF GenerationEnds, CreateCheck, HandleIssue, ExportEnds, Stages
    <3> QED
      BY <2>1, <3>1
  <2> QED
    BY <2>2, <2>3, <2>4, <2>5 DEF Gates
<1>2. TypeOK'
  BY <1>0, <1>1, TypeParts
     DEF ChapterTyped, TaskTyped, InstanceTyped, RestTyped, facts, texts, approval
<1> QED
  BY <1>1, <1>2, SameInstancesStep DEF approval

LEMMA ApprovalStep ==
  ASSUME ReviewIInv, Approval
  PROVE  ReviewIInv'
<1>0. ChapterTyped /\ TaskTyped /\ InstanceTyped /\ GateTyped /\ RestTyped
  BY TypeParts DEF ReviewIInv
<1> USE DEF Instances
<1>1. CASE SubmitBid
  <2>1. Unused \in SUBSET (1..MaxInstances)
    BY DEF Unused
  <2>2. IsFiniteSet(1..MaxInstances) /\ Cardinality(1..MaxInstances) = MaxInstances
    BY FS_Interval
  <2>3. Cardinality(Unused) \in Nat /\ Cardinality(Unused) <= MaxInstances
    BY <2>1, <2>2, FS_Subset, FS_CardinalityType
  <2>4. submitting' \in Instances /\ UNCHANGED <<doc, facts, texts, review, instance>>
    BY <1>0, <1>1, <2>3 DEF SubmitBid, RestTyped
  <2>5. TypeOK'
    BY <1>0, <2>4, TypeParts
       DEF ChapterTyped, TaskTyped, InstanceTyped, GateTyped, RestTyped, facts, texts, review
  <2> QED
    BY <2>4, <2>5, SameInstancesStep
<1>2. ASSUME NEW i \in Instances, NEW steps \in 1..MaxSteps, SubmitCommits(i, steps)
      PROVE  ReviewIInv'
  <2> DEFINE row == [status |-> "pending", left |-> steps]
  <2>1. row \in Instance /\ row.status = "pending"
    BY DEF Instance
  <2>2. /\ instance' = [instance EXCEPT ![i] = row] /\ doc' = "in_review"
        /\ submitting' \in Instances \union {0} /\ UNCHANGED <<facts, texts, review>>
    BY <1>0, <1>2 DEF SubmitCommits, RestTyped
  <2> HIDE DEF row
  <2>3. TypeOK'
    BY <1>0, <2>1, <2>2, TypeParts
       DEF ChapterTyped, TaskTyped, InstanceTyped, GateTyped, RestTyped, facts, texts, review
  <2>4. InReviewIsPending'
    BY <1>0, <2>1, <2>2 DEF InReviewIsPending, Pending, InstanceTyped
  <2>5. ASSUME NEW j \in Instances, AgreedOK(j) PROVE AgreedOK(j)'
    <3>1. Texts' = Texts
      BY <2>2, SameTexts DEF texts
    <3> QED
      BY <1>0, <2>1, <2>2, <2>5, <3>1 DEF AgreedOK, InstanceTyped
  <2> QED
    BY <2>2, <2>3, <2>4, <2>5, SameTextsStep DEF ReviewIInv
<1>3. ASSUME NEW i \in Instances, NEW row \in Instance, NEW status \in {"editing", "approved"},
             row.status \in {"approved", "rejected"},
             row.status = "approved" => row.agreed = Texts,
             instance' = [instance EXCEPT ![i] = row], doc' = status,
             UNCHANGED <<facts, texts, review, submitting>>
      PROVE  ReviewIInv'
  <2>1. TypeOK'
    BY <1>0, <1>3, TypeParts
       DEF ChapterTyped, TaskTyped, InstanceTyped, GateTyped, RestTyped, facts, texts, review
  <2>2. InReviewIsPending'
    BY <1>3 DEF InReviewIsPending
  <2>3. ASSUME NEW j \in Instances, AgreedOK(j) PROVE AgreedOK(j)'
    <3>1. Texts' = Texts
      BY <1>3, SameTexts DEF texts
    <3> QED
      BY <1>0, <1>3, <2>3, <3>1 DEF AgreedOK, InstanceTyped
  <2> QED
    BY <1>3, <2>1, <2>2, <2>3, SameTextsStep DEF ReviewIInv
<1>4. ASSUME NEW i \in Instances, Reject(i) PROVE ReviewIInv'
  <2> DEFINE row == [status |-> "rejected"]
  <2>1. row \in Instance /\ row.status = "rejected"
    BY DEF Instance
  <2>2. instance' = [instance EXCEPT ![i] = row] /\ doc' = "editing"
        /\ UNCHANGED <<facts, texts, review, submitting>>
    BY <1>4 DEF Reject
  <2> HIDE DEF row
  <2> QED
    BY <1>3, <2>1, <2>2
<1>5. ASSUME NEW i \in Instances, Approve(i), instance[i].left = 1 PROVE ReviewIInv'
  <2> DEFINE row == [status |-> "approved", clean |-> TRUE, agreed |-> Texts]
  <2>1. Texts \in [Chapters -> Bodies \union {NoText}]
    BY <1>0, RowFields DEF Texts
  <2>2. row \in Instance /\ row.status = "approved" /\ row.agreed = Texts
    BY <2>1 DEF Instance
  <2>3. instance' = [instance EXCEPT ![i] = row] /\ doc' = "approved"
        /\ UNCHANGED <<facts, texts, review, submitting>>
    BY <1>5 DEF Approve
  <2> HIDE DEF row
  <2> QED
    BY <1>3, <2>2, <2>3
<1>6. ASSUME NEW i \in Instances, Approve(i), instance[i].left # 1 PROVE ReviewIInv'
  <2> DEFINE row == [instance[i] EXCEPT !.left = @ - 1]
  <2>1. instance[i] \in [status : {"pending"}, left : 1..MaxSteps]
    BY <1>0, <1>6 DEF Approve, Pending, InstanceTyped, Instance, NoInstance
  <2>2. row \in [status : {"pending"}, left : 1..MaxSteps]
    BY <1>6, <2>1
  <2>3. row \in Instance /\ row.status = "pending"
    BY <2>2 DEF Instance
  <2>4. instance' = [instance EXCEPT ![i] = row]
        /\ UNCHANGED <<doc, facts, texts, review, submitting>>
    BY <1>6 DEF Approve
  <2> HIDE DEF row
  <2>5. TypeOK'
    BY <1>0, <2>3, <2>4, TypeParts
       DEF ChapterTyped, TaskTyped, InstanceTyped, GateTyped, RestTyped, facts, texts, review
  <2>6. \A j \in Instances : instance'[j].status = instance[j].status
    BY <1>0, <2>1, <2>3, <2>4 DEF InstanceTyped
  <2>7. ASSUME NEW j \in Instances, AgreedOK(j) PROVE AgreedOK(j)'
    <3>1. Texts' = Texts
      BY <2>4, SameTexts DEF texts
    <3> QED
      BY <1>0, <2>3, <2>4, <2>7, <3>1 DEF AgreedOK, InstanceTyped
  <2> QED
    BY <2>4, <2>5, <2>6, <2>7, ReviewStays, SameTextsStep DEF ReviewIInv
<1> QED
  BY <1>1, <1>2, <1>4, <1>5, <1>6 DEF Approval

-----------------------------------------------------------------------------
LEMMA StepReviewIInv == ReviewIInv /\ [Next]_vars => ReviewIInv'
<1> SUFFICES ASSUME ReviewIInv, [Next]_vars PROVE ReviewIInv'
  OBVIOUS
<1>0. TypeOK
  BY DEF ReviewIInv
<1>1. CASE EditChapter
  BY <1>1, UpdateChapterContentStep, UpdatePartOutlineStep, AcceptStep, GenerateOutlineStep
     DEF EditChapter
<1>2. CASE ChapterTask
  BY <1>2, RequestChapterTaskStep, ChapterDoneStep, ChapterFailedStep, CancelGenerationStep
     DEF ChapterTask
<1>3. CASE ParseAgain
  BY <1>0, <1>3, SourceStep DEF ParseAgain, TypeOK
<1>4. ASSUME NEW items \in SUBSET Requirements, ParseDone(items) \/ ConfirmParse(items)
      PROVE  ReviewIInv'
  BY <1>4, SourceStep DEF ParseDone, ConfirmParse
<1>5. CASE Source
  BY <1>3, <1>4, <1>5, RequirementsStep DEF Source
<1>6. CASE Gates \/ SubmitDocument \/ Archive
  BY <1>6, GatesStep
<1>7. CASE Approval
  BY <1>7, ApprovalStep
<1>8. CASE UNCHANGED vars
  <2>1. UNCHANGED <<texts, instance>> /\ doc' = doc
    BY <1>8 DEF vars, approval
  <2>2. TypeOK'
    BY <1>0, <1>8, TypeParts
       DEF vars, facts, texts, review, approval, ChapterTyped, TaskTyped, InstanceTyped, GateTyped, RestTyped
  <2> QED
    BY <2>1, <2>2, SameInstancesStep
<1> QED
  BY <1>1, <1>2, <1>5, <1>6, <1>7, <1>8 DEF Next

\* The invariant holds in every reachable state.
THEOREM ReviewInvariance == Spec => []ReviewIInv
  BY InitReviewIInv, StepReviewIInv, PTL DEF Spec

\* Every variable of the review model stays in its range.
THEOREM ReviewTypeCorrectness == Spec => []TypeOK
<1>1. ReviewIInv => TypeOK
  BY DEF ReviewIInv
<1> QED
  BY <1>1, ReviewInvariance, PTL

\* A chapter in generating waits for its newest task, or that one was of a job
\* cancelled before it was answered; for any number of chapters, texts and tasks.
THEOREM ChapterWaitsUnlessCancelled == Spec => []WaitsUnlessCancelled
<1>1. ReviewIInv => WaitsUnlessCancelled
  BY DEF ReviewIInv, Awaited, Explains, WaitsUnlessCancelled
<1> QED
  BY <1>1, ReviewInvariance, PTL

\* A bid in review always has a pending approval instance.
THEOREM BidInReviewIsPending == Spec => []InReviewIsPending
<1>1. ReviewIInv => InReviewIsPending
  BY DEF ReviewIInv
<1> QED
  BY <1>1, ReviewInvariance, PTL

-----------------------------------------------------------------------------
\* Only UpdateDocument makes a bid submitted.
LEMMA WhoSubmits ==
  ASSUME TypeOK, [Next]_vars, doc # "submitted", doc' = "submitted"
  PROVE  SubmitDocument
<1>1. ~EditChapter
  <2>1. ASSUME NEW c \in Chapters, NEW b \in Bodies
        PROVE  ~UpdateChapterContent(c, b) /\ ~UpdatePartOutline(c, b)
    BY DEF UpdateChapterContent, UpdatePartOutline
  <2>2. ASSUME NEW c \in Chapters PROVE ~AcceptChapter(c) /\ ~AcceptCommits(c)
    BY DEF AcceptChapter, AcceptCommits
  <2>3. ASSUME NEW added \in SUBSET Chapters PROVE ~GenerateOutline(added)
    BY DEF GenerateOutline
  <2> QED
    BY <2>1, <2>2, <2>3 DEF EditChapter
<1>2. ~ChapterTask
  <2>1. ASSUME NEW t \in Tasks, NEW c \in Chapters, NEW kind \in Kind
        PROVE  ~RequestChapterTask(t, c, kind)
    BY DEF RequestChapterTask
  <2>2. ASSUME NEW t \in Tasks, NEW b \in Bodies, NEW pass \in BOOLEAN,
               NEW covered \in SUBSET Requirements, NEW disputed \in SUBSET Requirements
        PROVE  ~ChapterDone(t, b, pass, covered, disputed)
    BY DEF ChapterDone
  <2>3. ASSUME NEW t \in Tasks
        PROVE  ~ChapterFailed(t) /\ ~SubmissionFails(t) /\ ~ChapterSwept(t) /\ ~CancelGeneration(t)
    BY DEF ChapterFailed, SubmissionFails, ChapterSwept, CancelGeneration
  <2> QED
    BY <2>1, <2>2, <2>3 DEF ChapterTask
<1>3. ~Source
  BY DEF Source, ParseAgain, ParseDone, ConfirmParse, UpdateRequirementCoverage
<1>4. ~Gates
  BY DEF Gates, GenerateBid, CreateExport, GenerationEnds, CreateCheck, HandleIssue, ExportEnds
<1>5. ~Approval
  BY DEF Approval, SubmitBid, SubmitCommits, Approve, Reject
<1>6. ~Archive /\ ~UNCHANGED vars
  BY DEF Archive, vars
<1> QED
  BY <1>1, <1>2, <1>3, <1>4, <1>5, <1>6 DEF Next

\* While no write is dated before a decision it follows, a bid is submitted
\* only with the very texts that an approver agreed to.
THEOREM SubmissionWasApproved == ~LateCommits => (Spec => SubmittedWasApproved)
<1> SUFFICES ASSUME ~LateCommits PROVE Spec => SubmittedWasApproved
  OBVIOUS
<1>1. ASSUME ReviewIInv, [Next]_vars
      PROVE  [doc # "submitted" /\ doc' = "submitted" =>
                \E i \in Instances : instance[i].status = "approved" /\ instance[i].agreed = Texts]_vars
  <2> SUFFICES ASSUME doc # "submitted", doc' = "submitted"
               PROVE  \E i \in Instances : instance[i].status = "approved" /\ instance[i].agreed = Texts
    OBVIOUS
  <2>1. SubmitDocument
    BY <1>1, WhoSubmits DEF ReviewIInv
  <2> QED
    BY <1>1, <2>1 DEF SubmitDocument, ApprovedSinceEdits, ReviewIInv, AgreedOK
<1> QED
  BY <1>1, ReviewInvariance, PTL DEF Spec, SubmittedWasApproved

\* A task ends by its answer, its failure, that of its submission or the sweeper.
LEMMA WhoEnds ==
  ASSUME TaskTyped, [Next]_vars, NEW t \in Tasks, Queued(t), ~Queued(t)'
  PROVE  \/ \E b \in Bodies, pass \in BOOLEAN, covered \in SUBSET Requirements,
                disputed \in SUBSET Requirements : ChapterDone(t, b, pass, covered, disputed)
         \/ ChapterFailed(t) \/ SubmissionFails(t) \/ ChapterSwept(t)
<1> USE DEF Queued
<1>0. UNCHANGED task => FALSE
  OBVIOUS
<1>1. ~EditChapter
  <2>1. ASSUME NEW c \in Chapters, NEW b \in Bodies
        PROVE  ~UpdateChapterContent(c, b) /\ ~UpdatePartOutline(c, b)
    BY <1>0 DEF UpdateChapterContent, UpdatePartOutline
  <2>2. ASSUME NEW c \in Chapters PROVE ~AcceptChapter(c) /\ ~AcceptCommits(c)
    BY <1>0 DEF AcceptChapter, AcceptCommits
  <2>3. ASSUME NEW added \in SUBSET Chapters PROVE ~GenerateOutline(added)
    BY <1>0 DEF GenerateOutline
  <2> QED
    BY <2>1, <2>2, <2>3 DEF EditChapter
<1>2. ASSUME NEW u \in Tasks, NEW c \in Chapters, NEW kind \in Kind
      PROVE  ~RequestChapterTask(u, c, kind)
  BY DEF RequestChapterTask, NoTask, TaskTyped
<1>3. ASSUME NEW u \in Tasks, NEW status, TaskEnds(u, status) PROVE u = t
  BY <1>3 DEF TaskEnds, TaskTyped
<1>4. ~SourceChanges
  <2>1. SourceChanges => task'[t] = [task[t] EXCEPT !.fresh = FALSE]
    BY DEF SourceChanges
  <2>2. task[t] \in [status : {"queued"}, kind : Kind, chapter : Chapters, body : Bodies, fresh : BOOLEAN]
    BY DEF TaskTyped, Task, NoTask
  <2> QED
    BY <2>1, <2>2
<1>5. ~Source
  BY <1>0, <1>4 DEF Source, ParseAgain, ParseDone, ConfirmParse, UpdateRequirementCoverage, texts
<1>6. ~Gates
  BY <1>0 DEF Gates, GenerateBid, CreateExport, GenerationEnds, CreateCheck, HandleIssue, ExportEnds, texts
<1>7. ~Approval
  BY <1>0 DEF Approval, SubmitBid, SubmitCommits, Approve, Reject, texts
<1>8. ~SubmitDocument /\ ~Archive /\ ~UNCHANGED vars
  BY <1>0 DEF SubmitDocument, Archive, vars, texts
<1>9. ChapterTask
  BY <1>1, <1>5, <1>6, <1>7, <1>8 DEF Next
<1>10. ASSUME NEW u \in Tasks, NEW b \in Bodies, NEW pass \in BOOLEAN,
              NEW covered \in SUBSET Requirements, NEW disputed \in SUBSET Requirements
       PROVE  ChapterDone(u, b, pass, covered, disputed) => u = t
  BY <1>3 DEF ChapterDone, Answered
<1>11. ASSUME NEW u \in Tasks PROVE ChapterFailed(u) \/ SubmissionFails(u) \/ ChapterSwept(u) => u = t
  BY <1>3 DEF ChapterFailed, SubmissionFails, ChapterSwept, Answered
<1>12. ASSUME NEW u \in Tasks PROVE ~CancelGeneration(u)
  <2>1. CancelGeneration(u) /\ u # t => task'[t] = task[t]
    BY DEF CancelGeneration, TaskTyped
  <2>2. CancelGeneration(u) /\ u = t => task'[t] = [task[t] EXCEPT !.kind = "cancelled"]
    BY DEF CancelGeneration, TaskTyped
  <2>3. task[t] \in [status : {"queued"}, kind : Kind, chapter : Chapters, body : Bodies, fresh : BOOLEAN]
    BY DEF TaskTyped, Task, NoTask
  <2> QED
    BY <2>1, <2>2, <2>3
<1> QED
  BY <1>2, <1>9, <1>10, <1>11, <1>12 DEF ChapterTask

LEMMA EndKeepsText ==
  ASSUME TypeOK, [Next]_vars, NEW t \in Tasks, Queued(t), SelfCheck(t), ~Queued(t)',
         NEW d \in Chapters
  PROVE  chapter'[d].body = chapter[d].body
<1>0. ChapterTyped /\ TaskTyped
  BY TypeParts
<1>c. PICK c \in Chapters : c = task[t].chapter
  BY <1>0, TaskFields
<1>1. ASSUME NEW row, Write(c, row), row.body = chapter[c].body PROVE chapter'[d].body = chapter[d].body
  BY <1>0, <1>1 DEF Write, ChapterTyped
<1>2. [chapter[c] EXCEPT !.status = "open"].body = chapter[c].body
  BY <1>0 DEF ChapterTyped, Chapter, NoChapter
<1>3. ASSUME NEW b \in Bodies, NEW pass \in BOOLEAN, NEW covered \in SUBSET Requirements,
             NEW disputed \in SUBSET Requirements, ChapterDone(t, b, pass, covered, disputed)
      PROVE  chapter'[d].body = chapter[d].body
  <2>1. CASE Applies(t, b)
    <3> DEFINE row == [status |-> "written", body |-> b,
                       audit |-> IF pass /\ task[t].fresh THEN [body |-> b, covers |-> covered]
                                 ELSE NoAudit]
    <3>1. Write(c, row)
      BY <1>c, <1>3, <2>1 DEF ChapterDone
    <3>2. row.body = chapter[c].body
      BY <1>c, <2>1 DEF Applies
    <3> HIDE DEF row
    <3> QED
      BY <1>1, <3>1, <3>2
  <2>2. CASE ~Applies(t, b)
    BY <1>3, <2>2 DEF ChapterDone
  <2> QED
    BY <2>1, <2>2
<1>4. CASE ChapterFailed(t) \/ SubmissionFails(t) \/ ChapterSwept(t)
  <2> DEFINE row == [chapter[c] EXCEPT !.status = "open"]
  <2>1. Write(c, row) \/ UNCHANGED chapter
    BY <1>c, <1>4 DEF ChapterFailed, SubmissionFails, ChapterSwept
  <2>2. row.body = chapter[c].body
    BY <1>2
  <2> HIDE DEF row
  <2> QED
    BY <1>1, <2>1, <2>2
<1> QED
  BY <1>0, <1>3, <1>4, WhoEnds

\* However late the answer to a self check comes, and whatever it is, it
\* leaves the text of every chapter as it is.
THEOREM ReviewKeepsText == Spec => LateReviewKeepsText
<1>1. ASSUME TypeOK, [Next]_vars
      PROVE  [\A t \in Tasks : Queued(t) /\ SelfCheck(t) /\ ~Queued(t)'
                 => \A c \in Chapters : chapter'[c].body = chapter[c].body]_vars
  BY <1>1, EndKeepsText
<1> QED
  BY <1>1, ReviewTypeCorrectness, PTL DEF Spec, LateReviewKeepsText
=============================================================================
