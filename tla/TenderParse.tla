------------------------------ MODULE TenderParse ------------------------------
(****************************************************************************)
(* backend/internal/platform/bid/store.go: the interpretation of a tender.  *)
(* A bid has one row in bid_parse_results.  UploadTenderFile, ParseTender,  *)
(* callbacks, the sweeper and ConfirmParseResult all write it, and with it  *)
(* the interpret gate; GenerateOutline reads both and passes the plan gate. *)
(*                                                                          *)
(* A transaction that writes the row is one step: all it relies on is the   *)
(* row itself and tasks it holds locked.  The two exceptions are read       *)
(* first and written later: the sweeper's UPDATE sees the tasks there were  *)
(* when it began, GenerateOutline the row it read.  What else they write    *)
(* (requirement items, materials, bid_documents.status) is not read here.   *)
(****************************************************************************)
EXTENDS Naturals

CONSTANTS Files,      \* tender files
          NoFile,     \* none uploaded
          MaxTasks,   \* bound: requests to parse
          MaxAborts,  \* bound: requests cut short
          LossyCalls, \* whether the answer to a submitted task may be lost
          Turns,      \* whether a request ends before the next is made and
                      \* before any task is answered
          OldSnapshot \* whether a parse may be requested between the start
                      \* of the sweeper's UPDATE and its end

ASSUME NoFileAssumption == NoFile \notin Files
ASSUME BoundAssumption  == MaxTasks \in Nat /\ MaxAborts \in Nat
ASSUME ModeAssumption   == LossyCalls \in BOOLEAN /\ Turns \in BOOLEAN /\ OldSnapshot \in BOOLEAN

Verdicts == {"done", "failed"}
NoAnswer == "none"
Tasks    == 1..MaxTasks   \* in the order of created_at
Blank    == 0             \* no task: a result without an interpretation

VARIABLES
    parse,     \* bid_parse_results.status
    file,      \* its file_asset_id, the active tender file
    content,   \* the task whose answer structured_result is, or Blank
    interpret, \* the interpret gate
    plan,      \* the result the passed plan gate was made from, or Blank
    task,      \* task[t]: ai_tasks.status
    source,    \* source[t]: the file task t was asked to parse
    at,        \* at[t]: what the request that created t does next
    aborts,    \* requests cut short so far
    sweeping,  \* the task an UPDATE of the sweeper is about, or Blank
    newest,    \* the newest task when that UPDATE began
    viewed,    \* the result a reviewer has on the screen
    fresh,     \* whether the row's updated_at is the one on the screen
    reviewed,  \* history: the results a reviewer confirmed
    drafting,  \* the result GenerateOutline has read, or Blank
    phase, answer, wanted, heard    \* the AI service, see CallbackOutbox

AI == INSTANCE CallbackOutbox WITH Jobs <- Tasks

row     == <<parse, file, content, fresh>>
tasks   == <<task, source, at, aborts>>
sweep   == <<sweeping, newest>>
review  == <<viewed, reviewed>>
outline == <<plan, drafting>>
service == <<phase, answer, wanted, heard>>
vars    == <<row, interpret, tasks, sweep, review, outline, service>>

TypeOK ==
    /\ parse \in {"absent", "queued", "processing", "ready", "confirmed", "failed"}
    /\ file \in Files \union {NoFile}
    /\ content \in 0..MaxTasks
    /\ interpret \in {"absent", "pending", "needs_review", "passed", "blocked"}
    /\ plan \in 0..MaxTasks
    /\ task \in [Tasks -> {"absent", "queued", "done", "failed"}]
    /\ source \in [Tasks -> Files \union {NoFile}]
    /\ at \in [Tasks -> {"idle", "submit", "bind", "mark"}]
    /\ aborts \in 0..MaxAborts
    /\ sweeping \in 0..MaxTasks
    /\ newest \in 0..MaxTasks
    /\ viewed \in 0..MaxTasks
    /\ fresh \in BOOLEAN
    /\ reviewed \in SUBSET (0..MaxTasks)
    /\ drafting \in 0..MaxTasks
    /\ AI!TypeOK

Init ==
    /\ parse = "absent"
    /\ file = NoFile
    /\ content = Blank
    /\ interpret = "absent"
    /\ plan = Blank
    /\ task = [t \in Tasks |-> "absent"]
    /\ source = [t \in Tasks |-> NoFile]
    /\ at = [t \in Tasks |-> "idle"]
    /\ aborts = 0
    /\ sweeping = Blank
    /\ newest = Blank
    /\ viewed = Blank
    /\ fresh = FALSE
    /\ reviewed = {}
    /\ drafting = Blank
    /\ AI!Init

-----------------------------------------------------------------------------
\* Every UPDATE of the row sets updated_at.
RowBecomes(status, f, c) ==
    parse' = status /\ file' = f /\ content' = c /\ fresh' = FALSE

StatusBecomes(status) == RowBecomes(status, file, content)

Goto(t, place) == at' = [at EXCEPT ![t] = place]

\* UploadTenderFile
Upload(f) ==
    /\ RowBecomes("queued", f, Blank)
    /\ interpret' = "pending"
    /\ UNCHANGED <<tasks, sweep, review, outline, service>>

Exists(t) == task[t] # "absent"

\* ParseTender up to its commit.
Request(t) ==
    /\ file # NoFile
    /\ ~Exists(t) /\ \A u \in Tasks : u < t => Exists(u)
    /\ Turns => \A u \in Tasks : at[u] = "idle"
    /\ sweeping # Blank => OldSnapshot
    /\ RowBecomes("queued", file, Blank)
    /\ interpret' = "pending"
    /\ task' = [task EXCEPT ![t] = "queued"]
    /\ source' = [source EXCEPT ![t] = file]
    /\ Goto(t, "submit")
    /\ UNCHANGED <<aborts, sweep, review, outline, service>>

SubmitOk(t) ==
    /\ at[t] = "submit"
    /\ AI!Accept(t, TRUE)
    /\ Goto(t, "bind")
    /\ UNCHANGED <<row, interpret, task, source, aborts, sweep, review, outline>>

\* The AI service never hears of the task, or the answer is lost.
SubmitFails(t) ==
    /\ at[t] = "submit"
    /\ UNCHANGED service \/ (LossyCalls /\ AI!Accept(t, TRUE))
    /\ Goto(t, "mark")
    /\ UNCHANGED <<row, interpret, task, source, aborts, sweep, review, outline>>

\* bindAcceptedTask: the row is processing, whatever it was.
Bind(t) ==
    /\ at[t] = "bind" /\ sweeping # t
    /\ StatusBecomes("processing")
    /\ Goto(t, "idle")
    /\ UNCHANGED <<interpret, task, source, aborts, sweep, review, outline, service>>

\* markTenderParseFailed leaves the gate as it is.
Mark(t) ==
    /\ at[t] = "mark" /\ sweeping # t
    /\ StatusBecomes("failed")
    /\ task' = [task EXCEPT ![t] = "failed"]
    /\ Goto(t, "idle")
    /\ UNCHANGED <<interpret, source, aborts, sweep, review, outline, service>>

\* The request ends early: the process dies, the caller hangs up, or the
\* database refuses the bind.
Abort(t) ==
    /\ at[t] # "idle"
    /\ aborts < MaxAborts
    /\ aborts' = aborts + 1
    /\ Goto(t, "idle")
    /\ UNCHANGED <<row, interpret, task, source, sweep, review, outline, service>>

-----------------------------------------------------------------------------
\* Nothing is answered or expired within the seconds a request takes.
Settled == Turns => \A t \in Tasks : at[t] \notin {"submit", "bind"}

\* A callback that is not acknowledged is sent again.
Hear(t) == AI!Tell(t) \/ (phase[t] # "decided" /\ UNCHANGED service)

\* ShouldApplyCallback
Open(t) == task[t] = "queued"

ReviewAsks(verdict) == interpret' = IF verdict = "done" THEN "needs_review" ELSE "blocked"

\* ApplyCallback for a bid_parse_result.  It does not ask whether a newer
\* task or file has taken over the row.
Callback(t) ==
    /\ phase[t] = "decided" /\ sweeping # t
    /\ Settled
    /\ Open(t)
    /\ task' = [task EXCEPT ![t] = answer[t]]
    /\ \/ answer[t] = "done" /\ RowBecomes("ready", file, t)
       \/ answer[t] = "failed" /\ StatusBecomes("failed")
    /\ ReviewAsks(answer[t])
    /\ Hear(t)
    /\ UNCHANGED <<source, at, aborts, sweep, review, outline>>

CallbackIgnored(t) ==
    /\ phase[t] = "decided" /\ sweeping # t
    /\ ~Open(t)
    /\ Hear(t)
    /\ UNCHANGED <<row, interpret, tasks, sweep, review, outline>>

\* ExpireInterruptedTasks takes a task that may be an hour old and begins to
\* update what hangs on it.
SweepBegin(t) ==
    /\ sweeping = Blank
    /\ Open(t) /\ Settled
    /\ sweeping' = t
    /\ newest' \in {u \in Tasks : Exists(u) /\ \A v \in Tasks : Exists(v) => v <= u}
    /\ UNCHANGED <<row, interpret, tasks, review, outline, service>>

\* Mutant: the row never fails.
ExpireNothing(t) == FALSE

\* The row as it is now, the tasks as they were when the UPDATE began.
ExpiresRow(t) == parse \in {"queued", "processing"} /\ newest = t

SweepEnd(t) ==
    /\ sweeping = t
    /\ task' = [task EXCEPT ![t] = "failed"]
    /\ IF ExpiresRow(t) THEN StatusBecomes("failed") ELSE UNCHANGED row
    /\ sweeping' = Blank
    /\ newest' = Blank
    /\ UNCHANGED <<interpret, source, at, aborts, review, outline, service>>

-----------------------------------------------------------------------------
\* A reviewer opens the result; GetParseResult creates a row if there is none.
View ==
    /\ viewed' = content
    /\ parse' = IF parse = "absent" THEN "queued" ELSE parse
    /\ fresh' = TRUE
    /\ UNCHANGED <<file, content, interpret, tasks, sweep, reviewed, outline, service>>

\* Mutant: expected_updated_at is not compared.
ConfirmableStale == parse \in {"ready", "confirmed"}

\* The page always sends the updated_at it shows (workflowState.ts).
Confirmable == parse \in {"ready", "confirmed"} /\ fresh

\* ConfirmParseResult takes the result the request brings, if it brings one.
Confirm ==
    /\ Confirmable
    /\ \E c \in {content, viewed} : RowBecomes("confirmed", file, c)
    /\ interpret' = "passed"
    /\ reviewed' = reviewed \union {viewed}
    /\ UNCHANGED <<tasks, sweep, viewed, outline, service>>

\* Mutant: neither the confirmation nor the gate is required.
OutlineAllowedEarly == parse \in {"ready", "confirmed"}

OutlineAllowed == parse = "confirmed" /\ interpret = "passed"

\* GenerateOutline, until it has read the result.
OutlineBegin ==
    /\ drafting = Blank
    /\ OutlineAllowed
    /\ drafting' = content
    /\ UNCHANGED <<row, interpret, tasks, sweep, review, plan, service>>

OutlineEnd ==
    /\ drafting # Blank
    /\ plan' = drafting
    /\ drafting' = Blank
    /\ UNCHANGED <<row, interpret, tasks, sweep, review, service>>

\* The AI service on its own.
Service ==
    /\ \E t \in Tasks : AI!Settle(t) \/ \E v \in Verdicts : AI!Decide(t, v)
    /\ UNCHANGED <<row, interpret, tasks, sweep, review, outline>>

GoOn(t) == SubmitOk(t) \/ SubmitFails(t) \/ Bind(t) \/ Mark(t)

Next ==
    \/ \E f \in Files : Upload(f)
    \/ \E t \in Tasks :
        \/ Request(t) \/ GoOn(t) \/ Abort(t)
        \/ Callback(t) \/ CallbackIgnored(t)
        \/ SweepBegin(t) \/ SweepEnd(t)
    \/ View \/ Confirm \/ OutlineBegin \/ OutlineEnd
    \/ Service

Spec == Init /\ [][Next]_vars

(***************************************************************************)
(* Fairness: a request goes on, and the sweeper, which runs every thirty    *)
(* seconds for ever, takes each task it finds again and again and ends what *)
(* it began.  Nothing is assumed of the AI service or of the users.         *)
(***************************************************************************)
FairSpec ==
    /\ Spec
    /\ \A t \in Tasks :
        /\ SF_vars(GoOn(t))
        /\ SF_vars(SweepBegin(t))
        /\ WF_vars(SweepEnd(t))

-----------------------------------------------------------------------------
\* The interpret gate guards the outline: while it is passed, the result in
\* the row is one that a reviewer has seen and confirmed, whatever uploads,
\* answers and expiries came in between.
PassedWasReviewed ==
    interpret = "passed" => content \in reviewed \ {Blank}

\* A result that can be confirmed is an interpretation, and the gate says so.
StatusMatchesGate ==
    /\ parse = "ready" => interpret = "needs_review" /\ content # Blank
    /\ parse = "confirmed" => interpret = "passed"

\* No outline is made from a result nobody confirmed, although the result may
\* be replaced while GenerateOutline is at work.
PlanWasReviewed == {plan, drafting} \subseteq reviewed \union {Blank}

\* An answer reaches the row only while its task is open: not after it was
\* expired, marked failed or applied before.
LateAnswerIgnored ==
    [][\A t \in Tasks : content' = t /\ content # t => task[t] = "queued"]_vars

\* The result in the row is an interpretation of the file in the row.
ContentOfFile == parse \in {"ready", "confirmed"} => source[content] = file

\* A newer request for the same resource is not overwritten by the expiry of
\* an older one (recovery.go:49).
SweepSparesNewer ==
    [][\A t \in Tasks : sweeping = t /\ sweeping' = Blank =>
        UNCHANGED row \/ \A u \in Tasks : Exists(u) => u <= t]_vars

\* A parse that is under way ends, or its file is replaced.
ParseEnds == parse = "processing" ~> parse # "processing"

-----------------------------------------------------------------------------
(***************************************************************************)
(* The inductive invariant behind the safety properties.                    *)
(***************************************************************************)
\* What a reviewer may confirm is what the reviewer has on the screen.
FreshWasViewed == fresh => viewed = content

\* The service answers with a verdict.
AnswerOK(t) == phase[t] = "decided" => answer[t] \in Verdicts

\* A request goes on with, and the sweeper ends, a task that was committed.
CommittedFirst == \A t \in Tasks : at[t] # "idle" \/ sweeping = t => Exists(t)

\* Without requests in between, the sweeper knows the newest task.
SnapshotCurrent ==
    ~OldSnapshot /\ sweeping # Blank => \A u \in Tasks : Exists(u) => u <= newest

IInv ==
    /\ TypeOK
    /\ FreshWasViewed
    /\ PassedWasReviewed
    /\ StatusMatchesGate
    /\ PlanWasReviewed
    /\ CommittedFirst
    /\ SnapshotCurrent
    /\ \A t \in Tasks : AnswerOK(t)
=============================================================================
