# ZBT: a verification project

ZBT writes bids. A Go backend keeps everything in PostgreSQL and serves a web
frontend; a Python AI service does the slow work (parsing tenders, writing
chapters, exporting documents) and calls the backend back. This directory holds
TLA+ models of the parts where a wrong order of events could do damage, the TLC
configurations that check them on small instances, and TLAPS proofs for every
instance. Paths below are relative to `src/`.

| module | what it is |
| --- | --- |
| `CallbackOutbox` | what the AI service promises about one task |
| `DurableQueue` | the queue that keeps the promise (`ai-service/app/task_queue.py`, `main.py`) |
| `DurableQueueProofs` | its invariants and the refinement, proved |
| `GenerationJob` | a chapter-by-chapter generation job (`backend/internal/platform/bid/store.go`, `taskstatus/`), composed with `CallbackOutbox` |
| `GenerationJobProofs` | its invariants, those that hold under overlap and those that do not, proved |
| `TenderParse` | the interpretation of a tender, its review and the outline made from it (same files), composed with `CallbackOutbox` |
| `TenderParseProofs` | its invariants and action properties, proved |
| `ExportLifecycle` | the exports of a bid (same files), composed with `CallbackOutbox` |
| `ExportLifecycleProofs` | its invariants and action properties, proved |
| `BidReview` | from written chapters to a submitted bid: edits, tasks, facts, gates, approval (`bid/store.go`, `factualreview/`, `approval/`) |
| `BidReviewProofs` | its invariants and action properties, proved |
| `Knowledge` | files, documents and their processing, the log of AI calls (`knowledge/`, `file/`, `aicall/`) |
| `KnowledgeProofs` | its invariants, proved |
| `Team` | members, roles, tokens of a tenant (`saas/`, `auth/`, `rbac/`, `api/routes.go`) |
| `Approval` | approval chains and decisions, over `Team` (`approval/`) |
| `Projects` | a project, its members, its costs and advice (`project/`, `cost/`, `tender/`) |
| `Tenders` | a tenant's tenders, sources and favourites (`tender/`) |
| `TenderPool` | batches for the public pool (`tenderpool/`) |
| `ToolGateway` | paid tools with a budget (`externaltool/`) |
| `Qualification` | certificates and people, synchronised and reviewed (`company/qualification/`) |
| `Compliance` | rules, checks, issues and the check gate (`compliance/`) |
| `ModelRouter` | routes, fallbacks and quota (`ai-service/app/gateway/`, `main.py`) |
| `BrowserSession` | the session shared by the tabs of a browser (`frontend/src/shared/`) |
| `Office` | the team and the nine parts from `Approval` to `BrowserSession` composed |
| `DeskProofs` | invariants and action properties of `Qualification`, `Compliance`, `Projects` and `Tenders`, proved |
| `OfficeProofs` | those of the other parts, and that `Office` implements its parts, proved |
| `MC...` | the modules TLC runs on, with the symmetry sets where there are any |

Run a check with `tlc -config DurableQueue_kill.cfg MCDurableQueue`, a proof with
`tlapm DurableQueueProofs.tla`. `PROJECT.json` lists every run, the line of code
behind every definition, the mutants that show each property can fail, and the
hazards the properties answer.

## 1. Inventory

### The AI service (Python)

* **Durable queue and callback outbox** (`task_queue.py`, `main.py`). State: an
  SQLite table `jobs` (state, attempts, available, callback, created) and the
  worker threads' local variables. Operations: `enqueue`, `claim` (which purges
  old rows), `run_once`, `save_callback`, `deliver_callback`, `start`, `close`,
  recovery in `__init__`. Hard: threads share the table, the process dies at any
  point, deliveries are lost or repeated, SQLite raises. Correct when a row is
  worked on by one thread, an answer is saved before it is told and never changes,
  a poisoned job is not run for ever, and every accepted task is answered.
* **Model router and providers** (`gateway/`). State: provider health and
  the spending of each tenant, in memory. Operations: choose a route, call, fall back,
  log. Hard: requests in threads of their own, a quota asked for before a cost is
  known. Correct when a request tries only what it may, each target once, and a tenant
  exceeds its budget by no more than what was on its way.
* **Pipelines** (`pipelines/`, `ocr_bridge.py`, `evaluation/`). Text extraction,
  document export, offline scoring: functions of their input, no shared state.

### The backend (Go)

* **Chapter generation job** (`bid/store.go`). State: a `bid_generation_jobs` row,
  its `bid_generation_steps`, the `ai_tasks` and `bid_chapters` they refer to, the
  `generate` row of `bid_pipeline_gates`. Operations: `GenerateBid`,
  `dispatchNextGenerationStep`, submit/bind, `markGenerationStepFailed`,
  `ApplyCallback`, pause, resume, cancel, and the sweeper. Hard: several HTTP
  requests about one job at once under READ COMMITTED, callbacks that race
  submissions, users and the sweeper, requests cut short. Correct when step, task,
  chapter, job and gate agree, one chapter is generated at a time, and the job ends.
* **Recovery sweeper** (`taskstatus/recovery.go`). Every 30 s it fails tasks older
  than an hour and what hangs on them: chapters, steps, exports, parses, documents.
* **Bid document pipeline** (`bid/store.go`). State: `bid_documents`, tender files,
  parse results, parts, chapters and their versions, five gates. Operations: upload,
  parse, confirm, outline, edit, accept, regenerate, AI action. Hard: late callbacks
  over user edits, gates computed from content that changes afterwards. Correct when
  a passed gate describes the content that is there.
* **Tender parsing** (`bid/store.go`). One parse result per bid, written by uploads,
  requests, binds, callbacks, expiries and the reviewer who confirms it. Hard: all
  of them race. Correct when the passed gate covers what the reviewer saw.
* **Document export** (`bid/store.go`). `CreateExport`, submit, bind, callback,
  sweep; a row, a task and a file per export, one format gate for all. Hard: the
  bind after a submission races the callback. Correct when a done export has a file.
* **Compliance checks** (`compliance/store.go`). Rules, checks, issues, the `check`
  gate. Hard: issues handled at the same time, or after a newer check. Correct when a
  finding about facts cannot be waived and the gate is never better than its check.
* **Approval** (`approval/store.go`). Chains, instances with a snapshot of a chain,
  actions; submit, approve, reject. Hard: chains, members and roles change meanwhile;
  two submissions at once. Correct when a bid is approved only by every step of one
  instance, each decided by somebody who might.
* **Tenants, users, roles, sessions** (`saas/`, `rbac/`, `auth/`, `tenant/`). Members,
  roles with a level per module, tokens and the time of a logout. Hard: counts of
  administrators in overlapping transactions; tokens that outlive a change. Correct
  when an administrator remains and a logout is final.
* **Projects and submission** (`project/store.go`), **cost** (`cost/store.go`). Stages,
  results, members, milestones, the cost project and AI advice on it. Hard: statuses
  and counts read without a lock and written later; callbacks repeated or late. Correct
  when an owner remains and advice is given once.
* **Knowledge base** (`knowledge/store.go`), **files** (`file/`), **AI call
  accounting** (`aicall/store.go`). Documents made of files, processed by a task into
  chunks, the log written by a second transaction. Hard: callbacks repeated, late, for
  a document deleted or processed again. Correct when the chunks of a document are
  those of one run, and none waits for nobody.
* **Opportunity pool** (`tenderpool/`). Batches upserted and counted in overlapping
  transactions. Correct when the outcome is that of one batch after the other.
* **Tenders** (`tender/`). A tenant's tenders, the sources they come from, favourites.
  Operations: create, patch, delete, verify a source, mark. Hard: a PATCH writes every
  column of a row it has read; a source is deleted in two statements; its site is asked
  between two transactions. Correct when nobody's change is written back and every
  tender's source is there.
* **External tools** (`externaltool/`). A configuration, a budget for the month, an
  audit log written after a call. Correct when overspending is bounded.
* **Qualifications** (`company/qualification/`). Rows a synchronisation writes and a
  person decides about. Correct when no synchronisation undoes a decision.
* **Factual review** (`factualreview/`): when the audit of a chapter still counts.
* **AI configuration** (`aiconfig/`): rows written and read back one at a time.
* **HTTP API** (`api/`), **server** (`cmd/`), **Redis client** (`jobs/`): routing.

### The frontend (TypeScript)

Views over the API. Its own protocol state is the session in `localStorage`, its
refresh (`shared/auth`, `shared/api`) and the event stream (`shared/sse`). Hard: tabs
share the session, refreshes answer after a logout or a new login. Correct when what
is stored and sent belongs to the last login.

### How they interact

    user --HTTP--> backend --commit--> PostgreSQL
                      |  ^
         POST /tasks  v  |  POST /ai/callbacks/tasks (HMAC, at least once)
                  AI service --claim, save, deliver--> SQLite jobs table

The backend commits first and calls the AI service afterwards; the AI service
answers 202 once the row is in its table. The answer comes back as an HTTP request
that is repeated until it is acknowledged. There is no transaction over the two.
The sweeper is what ends tasks whose answer never comes.

## 2. The models

### `CallbackOutbox`: the promise

Per task a `phase` (absent, pending, decided, settled), the `answer`, whether
somebody `wanted` it, and the verdicts `heard`. A task is decided once, told as
often as it takes, settled only after its answer was heard if it was wanted, and
forgotten only when settled. `DurableQueue` implements it; `GenerationJob`,
`TenderParse` and `ExportLifecycle` are composed with it as their AI service. So
what is checked of the backend rests on what is proved of the queue, not on a second
guess at it.

### `DurableQueue`: rows and threads

`state`, `url`, `attempts`, `callback` are columns of `jobs`; `due`, `expired` and
`older` are what the code asks of the columns `available` and `created`. `pc`,
`held`, `verdict`, `sends` are the local variables of a worker in `run_once` and in
the handler and delivery it calls. Each action is one SQLite statement or one HTTP
attempt:

| action | code |
| --- | --- |
| `Enqueue` | `enqueue`: `INSERT OR IGNORE`; the same id again never touches the row |
| `Claim`, `ClaimNothing` | `claim`: one `BEGIN IMMEDIATE` transaction that selects, marks running and purges |
| `Branch` | the `if/elif/else` of `run_once` |
| `Compute`, `CannotRun` | a `process_*` handler up to its verdict; payload that no longer validates |
| `Post`, `Refuse` | `post_callback` |
| `GiveUp` | the branch for old or exhausted rows |
| `SendAcked`, `SendLost`, `SendRefused` | `deliver_callback` |
| `Finish`, `Retry`, `RetryRaises`, `StoreRaises` | the end and the `except` of `run_once` |
| `Close`, `Crash`, `Restart` | `close`, the end of the process, `__init__` |

Abstractions. Time: any queued or running row may turn older than `max_age`, any
backoff may end, any done row may be older than seven days. `attempts` saturates at
the only value the code compares it with (3 in the code, `GiveUpAfter` here).
Testing `stop_event` and claiming is one step. Callback URLs are of three kinds:
allowed, not allowed, missing. `runs` and `heard` are history: they are read by
properties only, and end with the row they belong to.

### `GenerationJob`: tables and requests

The table variables are the rows: `job`, `step`, `link` (a step's `ai_task_id`),
`task`, `about` and `elder` (a task's `resource_id` and `created_at`), `chapter`,
`gate`. The request variables are what a Go handler holds: `at` (its place),
`mine`, `chosen`, `seen` (what its refresh computed from rows it read), `write`
(whether its callback may write the chapter), `jobLock`.

The database runs READ COMMITTED: every statement sees what is committed, and an
UPDATE locks its row until commit. A handler that reads and later writes is cut
where the read can go stale:

    dispatchNextGenerationStep   Check -> Pick -> Write -> DispatchCommit -> SubmitOk
                                                  |                       \-> SubmitFails -> Mark -> MarkCommit
                                                  \-> RefreshCommit (nothing queued)
    ApplyCallback                Callback -> CallbackCommit -> Check ... | idle
    user requests, sweeper       one step each: they lock before they read

A handler in `dispatch`, `marking` or `callback` holds its task and step rows;
`jobLock` is the job row from its first UPDATE (a dispatch that turns a queued job
running takes it in `Check`). `Abort` is any end of a request before its time: the
process dies, the transaction is aborted (PostgreSQL's answer to a deadlock), or
the caller hangs up and the request context is cancelled.

`Overlap` chooses the schedule. With `TRUE`, requests interleave wherever locks
allow. With `FALSE`, a transaction about the job starts only when no other is open:
what a user who clicks one button at a time sees. Commit and submission are
separate in both, and callbacks, failed submissions and the sweeper still
interleave with them in both; so the properties that hold only with `FALSE` are
those the code's missing lock on the job row puts at risk (what happens then is in
section 6).

Abstractions. One job per bid, from the commit of `GenerateBid` on. Chapter text,
versions, coverage, progress and messages are left out. `bindAcceptedTask` after a
submission changes no modelled field. A job of `Steps` creates at most `Tasks`
task rows.

### `TenderParse`: one row, many writers

`parse`, `file`, `content`, `fresh` are the row of `bid_parse_results`: its status, its
file, the task whose answer `structured_result` is, and whether `updated_at` is still
the one the reviewer's page shows. `interpret` and `plan` are gates, `plan` with the
result the outline was made from. Tasks are numbered in the order of `created_at`.

    UploadTenderFile   Upload                 GetParseResult      View
    ParseTender        Request -> SubmitOk -> Bind
                               \-> SubmitFails -> Mark
    ApplyCallback      Callback | CallbackIgnored
    sweeper            SweepBegin -> SweepEnd
    ConfirmParseResult Confirm                GenerateOutline     OutlineBegin -> OutlineEnd

A transaction whose decisions depend only on the row and on tasks it has locked is one
step. Two depend on more. The sweeper's `UPDATE` has a subquery on `ai_tasks`; under
READ COMMITTED an `UPDATE` that waited for its row looks at the row again but not at
other tables, so the subquery's tasks (`newest`) are those of its start. `GenerateOutline`
reads the row without a lock. `Confirm` requires `fresh` because the page always sends
`expected_updated_at` (`frontend/src/features/bid/workflowState.ts`); a caller that
leaves it out confirms whatever is there.

`Turns` says that a request ends before the next one is made and before a task is
answered or expired. `OldSnapshot` lets a request come between `SweepBegin` and
`SweepEnd`. Left out: requirement items, material selections and
`bid_documents.status`, which the same transactions write and none of these reads;
the text of a result; edits a reviewer makes while confirming; two uploads at once.

### `ExportLifecycle`: three rows and a gate

`export`, `task` and `file` are the three rows of an export, `gate` and `gateOf` the
status of the format gate and the export its metadata names, `at` the place of the
request. `Create` is the transaction of `CreateExport`; `SubmitOk`, `Bind`, or
`SubmitFails`, `Mark` follow it. Every transaction begins by locking or creating the
task row, so each is one step. `cleared` stands for everything `CreateExport` requires
of the rest of the bid. `Prompt` is the part of `Turns` that makes sense here: a task
is bound before it is answered or expired. An export never has a second task, so the
sweeper's guard for superseded tasks is vacuous.

### `BidReview`: from chapters to a submitted bid

Where `GenerationJob` ends, this begins: `doc`, `chapter` (with what its latest audit
was made of), `task`, `gate` for generate, check and format, `instance` (approvals)
and what `factualreview` reads of sources and requirements (`source`, `flagged`).
Actions: `UpdateChapterContent`, the outline, `AcceptChapter` (two steps: it reads, then
writes), the tasks of a chapter, the three gates, `SubmitBid` (two steps), approve,
reject, `SubmitDocument`, archive.

A task is a user's (regeneration, AI action, self check) or made for a step of a
generation job; any number of jobs may have tasks of one chapter. `ChapterDone` and
`ChapterFailed` are its callback, `ChapterSwept` its expiry. `SubmissionFails` is what
follows a submission whose answer was lost: it fails the task, even one a callback has
ended, and sets the chapter to needs_fix whatever it is. `CancelGeneration` cancels the
job of a task that is queued; `SideEffects`, as `shouldApplyChapterTaskSideEffects`,
then keeps the callback from writing, which leaves the task `dropped`: ended, with the
chapter still generating and nothing under way that would change that. This is what the
code does, and the one exception in `WaitsUnlessCancelled`. Only a further request
about the chapter takes it out of that. Requests about one job take turns, and so do requests for a
task of one chapter, so the newest task is the last one made and no refresh writes back
a job status from before a cancellation.

`SubmittedWasApproved` says that a submitted bid has the
very texts its approvers approved. Nothing in the code compares texts; it follows from
dates, audits and gates together. Dates are PostgreSQL's `now()`, the start of a
transaction: a write that began before an approval and commits after it has the earlier
date and escapes the comparison. `LateCommits` chooses whether that happens.

### `Knowledge`: documents, tasks, the log

`file`, `doc`, `chunks` (from which run they are), `task`, `result` (what the AI service
will say), `applied`, `log`, `acked`. A callback locks the task and then the document
and is one step (`ApplyCallback`); the log entry is a second transaction
(`RecordTaskCallback`), and only after it is the callback acknowledged. A call may be
lost before or after the AI service took it, a callback may come again at any time.

### `Office`: the parts that share no row

`Team`, `Approval`, `Projects`, `Tenders`, `TenderPool`, `ToolGateway`, `Qualification`,
`Compliance`, `ModelRouter` and `BrowserSession` are modules with their own `Init`,
`Next`, `Spec` and invariants. They share no row, so interleaving them would only
multiply states; `Office` composes them with a variable `desk` that says which part a
behaviour is about, and one run checks all. That `Office` implements the
specifications of the team and of the eight parts beside the approvals is
`OfficeFollowsParts`. The approvals are left out of it: they share the team's rows, and
at the desk of the team those change without them.

| module | what overlaps | how it is cut |
| --- | --- | --- |
| `Team` | changes of members and roles, logins, refreshes, logouts | `Begin` writes and counts administrators in its own view, `Commit`; a session is read and its token issued later (`Refresh`, `Answer`) |
| `Approval` | the decisions of an instance over members, roles and chains that change | a decision locks the instance: one step, with the roles the actor held then |
| `Projects` | updates, transitions, removals, the creation of the cost project; advice and its callbacks | what a request read is in `asking` until it writes |
| `Tenders` | patches of one row, deletions and checks of a source, tenders attached to it meanwhile | what a transaction has read for update, detached or asked is in `editing` until it commits |
| `TenderPool` | batches with keys in common | one step per row; a row written by an open batch is waited for, or the batch rolls back |
| `ToolGateway` | calls out at the same time | `Invoke` reads budget and spending, `RecordSuccess` logs |
| `Qualification` | synchronisations, reviewers, the source | a category is fetched in one step and its rows written one by one |
| `Compliance` | requests about issues of one check | each computes its summary of what is committed, and commits later |
| `ModelRouter` | requests of one tenant | the quota is read once, targets are tried in turn, cost is logged at the end |
| `BrowserSession` | tabs, requests waiting for a refresh, answers in any order | what happens between two `await`s is one step |

Histories: `raced` and `excused` mark behaviours in which overlapping changes were
made that the code does not keep apart (see section 3), `held` and `said` what a person
held or said when deciding, `tried`, `admitted`, `owner` and `as` what a bound or a
descent is measured against, `handed` and `added` what a pool written by one batch after
the other would be made of.

Data is abstracted to what the properties read, and written so that it can be reasoned
about: a batch and a route are sequences, what is left of them is a set of places
(`left`), of which the first is taken (`Upsert`, `NextTarget`); what the calls of a tool
will have cost is a set of units (`Out`), so that a sum is a cardinality. In `Tenders` a
patch is a record with the fields it names; the title stands for all columns of text, dates
and amounts. In `TenderPool` a row says what the last batch wrote in it, and a run keeps the
keys it was handed.

## 3. The runs

| run | instance | states | shows |
| --- | --- | --- | --- |
| `queue_kill` | 2 jobs, 2 workers, 1 crash, SQLite errors, runs bounded at 2 | 411 000 | exclusive claims, bounded runs, no rerun after save, refinement of `CallbackOutbox` |
| `queue_close` | 2 jobs, 1 worker, 1 exit (orderly or not), a refused URL | 88 000 | done was heard, answers are final, every reachable job is answered |
| `job_turns` | 3 chapters, 4 tasks, 2 requests, 1 abort, lost answers, no overlap | 69 000 | one step runs, done and a passed gate mean written, generating has a task, cancel is final |
| `job_overlap` | 2 chapters, 2 tasks, 2 requests, 1 abort, lost answers, overlap | 734 000 | running steps have a live task, answers are applied once |
| `job_settles` | 2 chapters, 2 tasks, lost answers, no abort, fair | 24 000 | the job ends or waits for its user |
| `parse` | 2 files, 2 parse requests, 1 abort, lost answers, turns, fair | 181 000 | a passed gate and every outline rest on a reviewed result, a parse ends |
| `export` | 2 exports, 1 abort, lost answers, prompt binds, fair | 12 000 | done has a file, every export ends |
| `review` | 1 chapter with 2 texts, 1 requirement, 2 tasks of users or jobs, 2 approvals of up to 2 steps, not all at once | 724 000 | what is submitted is what was approved, somebody decides about a bid in review, a chapter in generating is waited for unless the answer of a cancelled job was dropped, a late self check restores nothing |
| `knowledge` | an uploaded file, a case, 2 documents, 2 tasks, fair | 661 000 | a processed document has the chunks of one run, a queued one is waited for and ends |
| `office` | 2 users, 2 requests at a time, see `Office.cfg` | 765 000 | administrators and owners remain, logouts are final, approvals are by every step, patches change what they name, the pool is serial, budgets and quotas are bounded, verdicts and facts are kept, advice is answered once, the session is that of the last login |
| `job_gate`, `parse_file` | as above | | the findings of section 6 |

Of the states of `office`, about 276 000 are of the qualifications, 134 000 of the team,
116 000 of the approvals, 95 000 of the checks, 35 000 of the projects, 15 000 each of
tools and browser, 2 000 of the router, and the rest of the tenders and the pool.

Bounds. Two workers and two rows are enough for every conflict over a claim, which
involves two threads and one row, with a row left over for the order by age. One
crash reaches recovery from every place a worker can be in; a second crash meets
the same rows with higher `attempts`, and `attempts` saturates. `GiveUpAfter = 2`
lets a row fail, be retried and be given up. `MaxSends = 2` (in `queue_close`)
separates a retried attempt from an exhausted delivery. Three chapters give a first,
a middle and a last step, so a gate that forgets one of several is seen; four tasks
leave one spare. Two requests are what every race here needs: the row locks let two
transactions conflict, and a third waits. Two parse requests are an older and a newer
one, two exports are two that share the gate. In `review` one chapter is what
a late task, an edit and a half-done acceptance meet on; two approvals are needed for one
to be stale, two steps for an approval that is half done. Two tasks are an older and a
newer one; what becomes of them does not depend on approvals, so `MCBidReview` makes the
second where there are none, or where both are regenerations whose submissions succeed
and one approval is enough (`TwoRegenerated`): an approved text must be replaced by one
with an audit of its own before it can be submitted in its stead. In `knowledge` one
document is processed twice, or deleted and made again from the same file. In `office` two users, two
requests and two of whatever they compete for (roles, keys, checks, tabs, targets,
tasks) let any pair conflict; a chain of three steps with an optional one in the middle
has a snapshot that differs from the chain; three changes of members after one
registration demote, disable and invite again. A part stops where its bounds are used up,
which is why `Office.cfg` does not check for deadlock. The theorems of section 5 remove these
bounds for what they cover.

Stated only for part of the behaviours, and why:

* `ImplementsOutbox` and `OutboxBeforeWire` (proved, not in a run) need
  `GracefulClose = FALSE`. After `close()` the module-level queue is gone (`lifespan` sets
  it to `None`), a handler still at work delivers an answer that is not saved, and the
  rerun may tell another. The backend ignores the second answer of a terminal task.
* `ParseEnds` needs `Turns = TRUE` and `ExportEnds` needs `Prompt = TRUE`: a bind that
  comes after the answer sets the row to processing or queued for ever (section 6). The other properties of `parse` and `export` hold either way, which the
  proofs show.
* `SweepSparesNewer` (proved, not in a run) needs `OldSnapshot = FALSE`: no parse is requested within the
  moment in which the sweeper's `UPDATE` waits for the row.
* `OneStepRunning`, `CancelIsFinal` and the other properties of `job_turns` need
  `Overlap = FALSE`: dispatches take no lock on the job (section 6), and a refresh
  writes what it computed from rows that overlapping requests have changed.
* `WaitsUnlessCancelled` holds for requests about one job, and for tasks of one chapter,
  that take turns: otherwise the newest task need not be the last one made.
* `EveryJobAnswered` needs `StoreFails = FALSE`: a row whose `except` block also
  failed stays running until a restart that nothing forces.
* `SubmittedWasApproved` needs `LateCommits = FALSE`: no transaction about a chapter is
  open while the last step of an approval commits.
* `TenantHasAdmin` needs that no two changes of members or roles overlapped (`raced`), and
  `OwnerRemains` that no two removals did and that `AddMember` made no owner something
  else (`excused`). Everything else, logins and refreshes included, overlaps freely.

## 4. Fairness

`DurableQueue!FairSpec`: a statement of a worker returns (weak, per worker); a dead
process is restarted (`restart: unless-stopped`), and a closing one ends (weak); a backoff
ends (weak). A row that is claimable again and again is claimed (strong): workers
poll every half second, backoffs last a second at least. A backend that is called
about a task again and again acknowledges once (strong); without that no outbox
delivers anything.

`GenerationJob!FairSpec`: a request that can go on does (strong, per handler,
because it may have to wait for a lock or its turn repeatedly), and each task the
sweeper could expire is swept (strong: it runs every 30 s for ever). Nothing is
assumed of users, and nothing of the AI service: `JobSettles` holds even if it never
answers.

`TenderParse!FairSpec`: a request goes on and the sweeper takes a task it finds again
and again (strong, both may have to wait for the other's lock), and ends what it began
(weak). `ExportLifecycle!FairSpec`: a request goes on and the sweeper runs (weak: what
is expirable once the request is over stays so until it is answered).
`Knowledge!Spec`: the sweeper expires a task that stays open (weak: an open task is
expirable until something ends it, and `RunRecovery` comes every half minute). Again
nothing is assumed of users or of the AI service. The parts in `Office` and `BidReview`
have no liveness properties and assume no fairness: nothing in them happens without
somebody asking for it, except what `GenerationJob` and the others cover.

## 5. The proofs

`DurableQueueProofs` proves, for any sets of jobs, workers and URL kinds and any
limits, from the assumptions named in `DurableQueue`:
`TypeCorrectness`, `ExclusiveClaims`, `BoundedModelRuns`, `DoneOnlyWhenHeard`,
`FinalAnswer`, `NoRerun`, and, with the added assumption that nobody calls
`close()`, `OneAnswerTold` and `QueueImplementsOutbox`.

The inductive invariant is `IInv`. The properties alone are not inductive. That no
saved answer is replaced needs `WorkerOK`: a worker about to save works on a row
without one. Bounded runs need `RowOK`: a waiting row has at most `attempts` runs
behind it, a running one one more. `Quiet` says that a dead process has no workers,
so `Restart` puts back rows nobody holds. `SavedFirst` strengthens it for the two
theorems about what goes over the wire, which is where `server # "closing"` enters.
The refinement maps a row's state and callback column to `phase`; a claim with a
purge is `Forget`, saving is `Decide`, an acknowledged or lost-but-received delivery
is `Tell`, marking done is `Settle`, everything else stutters.

`GenerationJobProofs` proves, for any number of chapters, tasks and concurrent
requests, with overlap, lost answers and any number of aborts: `JobTypeCorrectness`,
`RunningStepHasTask`, `CallbackAppliedOnce`. The inductive invariant relates what
rows say of each other (`LinkOK`, `TaskOK`) to what a handler's place says of the
task it works for (`HandlerOK`), and says that two handlers never hold one task row
(`Apart`). The lemma `StepFollows` shows that a step that is running after any
action has a queued task of its own; `KeptHandlerOK` (the handlers that stay where
they are) and `MovedHandlerOK` (the one that moves) show that no commit pulls a row
from under a handler that has yet to commit.

For requests that take turns (`~Overlap`, as a hypothesis of each theorem) it proves
`TurnsOneStepRunning`, `TurnsDoneMeansWritten`, `TurnsGeneratingHasTask` and
`TurnsCancelIsFinal`, again for any number of requests and aborts. `TurnIInv` adds to `IInv` that one handler at most is in its transaction
(`OneWorks`), that what it has read and computed is what a refresh would compute now
(`SummaryOK`), and how job, gate, steps, tasks and chapters follow each other (`RowsOK`).
`UndisturbedSummary` is the core: whoever is not in a transaction leaves alone what the one
that is has read. With overlap `SummaryOK` is false, which is what the findings about
generation in section 6 come from.

`TenderParseProofs` proves, for any number of files, requests and aborts, with lost
answers, whether or not requests take turns: `ParseTypeCorrectness`,
`PassedGateWasReviewed`, `StatusAndGateAgree`, `OutlinesWereReviewed`,
`LateAnswersAreIgnored`, and `NewerRequestsAreSpared` under `OldSnapshot = FALSE`. The
strengthening: `FreshWasViewed` (what may be confirmed is what is on the screen),
`CommittedFirst` and `SnapshotCurrent` (the sweeper knows the newest task).
`StepRow`, `StepTasks` and `StepService` split a step by what it writes.

`ExportLifecycleProofs` proves, for any number of exports and aborts, with lost
answers and late binds: `ExportTypeCorrectness`, `DoneExportHasFile`,
`PassedGateHasFile`, `ReadyFilesAreKept`, `FailuresAreKept`. The invariant adds that an
export's rows come into being together and that a decided task has a verdict
(`ExportOK`).

`JobsUseOutbox`, `ParsesUseOutbox` and `ExportsUseOutbox` say that each of these three
models implements `AI!Spec`, the outbox over its own tasks: the backend takes nothing for
granted of the AI service but `CallbackOutbox`. `QueueImplementsOutbox` says that the queue
keeps that promise as long as nobody calls `close()`, so the two sides of the callback rest
on one specification.

`BidReviewProofs` proves, for any chapters, texts, requirements, tasks and approvals:
`ReviewTypeCorrectness`, `ChapterWaitsUnlessCancelled`, `BidInReviewIsPending`,
`ReviewKeepsText`, and `SubmissionWasApproved` under `~LateCommits`. Why a chapter is in
generating is explained by the newest task it ever had (`Awaited`, `Explains`), which is
queued or was dropped; tasks are made in order, so a new task becomes the one that
explains it, and whatever ends the newest task otherwise takes the chapter out of
generating. An approval that is `clean`, that is, dated after every
chapter, agreed to the texts there are (`AgreedOK`); every action that changes a text makes
the approvals before it unclean, and a submission asks for a clean one. `LateCommits` is
the one way to change a text and stay dated before an approval, which is why the
hypothesis is needed.

`KnowledgeProofs` proves, for any files, labels, documents, tasks and repeated
callbacks: `TypeCorrect`, `ProcessedIsOneRun`, `QueuedHasTask`, `AnsweredIsLogged`. What
it adds to the properties is that tasks are made in order: without it a new task might
be older than the one a document waits for. `Awaits` and `RunOf` restate the two
properties per document, so that a step is looked at for the document it touches only.

`DeskProofs` proves of four parts of `Office`:

* `Qualification`, for any source and any number of synchronisations: `QualTypeCorrect`,
  `VerdictIsKept`, `RankIsOfLevel`. `BatchRanked` carries the rank of a level from the
  fetch to the write; it rests on `ResolveLevelRanked` and `NormalizeIdempotent`, lemmas
  about the operators themselves.
* `Compliance`, for any rules, checks and requests: `ComplianceTypeCorrect`,
  `FactsAreNotWaived`, `GateIsNoBetter`, `ConfirmedFailIsBlocking`. The summary of an open
  transaction may be stale when it is committed; `PendingOK` says what it cannot have lost:
  a finding about facts, and the failure that this transaction confirms.
* `Projects`, for any staff and number of requests: `ProjectTypeCorrect`,
  `ProjectKeepsOwner`, `AdviceGivenOnce`. `OneRemoval` and `OwnersBesides` say what
  `excused` buys: the one removal that is open leaves an owner besides.
* `Tenders`, for any rows, patches and number of requests: `TendersTypeCorrect`,
  `TendersHaveTheirSource`, `PatchesAreKept`. `TenderIsRead` and `SourceIsRead`: a row that
  was read for update is still what the open transaction merged its patch into, because
  nobody else has it locked (`LockedOnce`).

`OfficeProofs` proves of the others:

* `BrowserSession`, for any tabs, requests, logins and refreshes: `SessionIsOfLastLogin`.
  The invariant follows a token from its issue over a refresh under way to the requests
  that wait for it (`AnswerOfFlight`, `WaitsForOwn`).
* `Team`, for any users, roles and servers: `TeamTypeCorrect`, `TenantKeepsAdmin`,
  `LogoutStaysFinal`. `ChangeKeepsAdmin` says that an open change which is alone leaves
  the administrator it counted; with two open (`raced`) neither sees the other, and
  nothing is claimed any more. `LogoutStaysFinal` has no such condition.
* `Approval`, for any users, roles and lists of steps: `ApprovalTypeCorrect`,
  `ApprovalIsByEveryStep`. `InstanceKnown`: the steps before the one that is awaited have
  the entries that answer them, in order. `ApprovalFollowsTeam`: what is proved of a team
  holds under the approvals, too.
* `ModelRouter`, for any providers, routes and finite set of requests:
  `RouterTypeCorrect`, `QuotaIsBounded`, `OnlyAllowedAreTried`. `RunsKnown` says of tried
  and untried targets together what the property says of the tried ones.
* `ToolGateway`, for any budgets, costs and finite set of calls: `ToolTypeCorrect`,
  `OverspendIsBounded`. What a row or a call has was admitted by some write of the
  configuration (`RowWasAdmitted`, `CallsWereAdmitted`); the units of one call are apart
  from those of another, so cardinalities add up.
* `TenderPool`, for any keys, bodies and collectors: `PoolTypeCorrect`, `PoolStaysSerial`.
  An open batch has written the keys it has not left, apart from those of the others
  (`BatchKnown`, `WrittenApart`), so what it counted is still so when it commits;
  `LastOfBoth` says what the last tender of two batches put together is.

Of the composition it proves `OfficeFollowsParts`, that `Office` implements `TeamSpec`,
`ProjectSpec`, `TendersSpec`, `PoolSpec`, `ToolSpec`, `QualSpec`, `ComplianceSpec`,
`RouterSpec` and `BrowserSpec`, and from it and the theorems of the parts
`OfficeKeepsVerdictsAndFacts` (the invariants) and `OfficeTakesNothingBack` (the action
properties). The approvals are not among the parts that are implemented as they stand:
`Office` has the desk of the team beside theirs. `BesideTeamIInv` shows that their
invariant survives the steps of that desk too, hence `OfficeApprovesByEveryStep`.

Some properties are proved and in no run, as the run would only repeat them: type
correctness of the modules, `OutboxBeforeWire`; `StatusMatchesGate`,
`LateAnswerIgnored` and `SweepSparesNewer` of the parse; `GatePassedHasFile`,
`ReadyFileKept` and `FailedStaysFailed` of the export; `AnswersAreLogged`,
`RankMatchesLevel`, `ConfirmedFailBlocks`; `TenderSourceExists`, which the foreign key
backs.

Every invariant and every action property of a passing run is stated by a theorem. Only
model-checked: liveness (`EveryJobAnswered`, `JobSettles`, `ParseEnds`, `ExportEnds`,
`QueuedEnds`), which is out of the provers' reach.

What the constants are assumed to be is named in the modules that declare them. The
assumptions that say more than a type: the requests of the router and the calls of the
gateway are finite sets, as they are counted; stand-ins such as `NoTask` or `"absent"` are
not among what they stand beside; the role of a company administrator has full access, and
no role has both full and read access (`RolesAssumption`); certificates and people, synced
or entered by hand, are rows of their own (`QualificationAssumption`).

## 6. Findings

Each is a run TLC must find violated; `PROJECT.json` quotes the sentence the code
departs from.

* `job_gate`: the last step of a cancelled job is done without its chapter being
  written, and the generate gate is passed. The chapter stays in generating, which is the
  exception of `WaitsUnlessCancelled`.
* `parse_file`: a new tender file is uploaded while the old one is parsed; the late
  answer becomes the result of the new file and can be confirmed as such.

Seen in the code on the way, and not runs of their own:

* Generation. `ApplyCallback` commits and dispatches the next step afterwards: a request
  cut short in between leaves a job that is running with no task for the sweeper, which
  calls itself the final safety net (`taskstatus/recovery.go:10`), to find. Two
  dispatches that overlap both find no running step and start two chapters.
* Submissions. `markGenerationStepFailed`, `markExportFailed`, `markTenderParseFailed`,
  `markKnowledgeProcessFailed` and `markTaskFailed` overwrite a task a callback has
  finished, so what is done turns failed when only the answer to a submission was
  lost. A bind that comes after the answer sets the ended export back to queued for ever.
* Gates. A parse that fails to be submitted, or is expired, leaves the interpret gate at
  pending although `docs/blueprint/AI_PIPELINE.md` says a failed parse is blocked; an
  expired export leaves the format gate at pending. A late parse callback sets the
  document to editing whatever its status.
* Review. Two submissions for approval that race make two pending instances. The exported
  file may hold an older text than what is submitted. An issue of an older check, handled
  now, overwrites the check gate with that check; issues handled at the same time commit
  summaries that do not know of each other. A step whose role was deleted or whose user
  is disabled leaves the approval undecidable, as does one for a role without read
  access to the team.
* Knowledge. A callback that comes after `DeleteDocument` leaves chunks of a deleted
  document. Two deliveries at once may log a call twice; a task that was swept is logged
  as failed, without the cost its late answer names.
* Team. Two demotions at once leave no administrator. A refresh under way during a logout
  issues a newer token. Inviting a disabled member again lets his old tokens in if he
  never logged out. Updates of roles that overlap may give the union. Logout times are
  the database's, issue times the server's.
* Projects. An update that read a project before it was closed reopens it and drops its
  result; closing by an update without a result leaves none. Overlapping removals, or
  `AddMember` with another role, leave no owner, and a project made of a tender has none.
  Older advice may overwrite newer.
* Money. Calls that overlap overspend the budget of a tool, and one across the end of a
  month counts in the next; the bound is `OverspendBounded`. The router's spending is in
  memory: a restart forgets it and no month resets it; an answer dearer than
  `MAX_AI_ESTIMATED_COST` counts nothing.
* Qualifications. A reviewer may confirm a row that was refreshed after he read it.
  Overlapping synchronisations may leave the older extraction. A row set back to pending
  loses its corrections at the next one.
* Tenders. The check of a source asks its site between two transactions, and what it
  found is written whatever the source has become: a source set inactive meanwhile is active
  or failed again. A source that is created under a name there is takes the place of the
  other's configuration.
* Browser. A late 401, or a failed refresh, for an old token takes away the session of a
  newer login. Of two tabs that refresh one token the second drops its answer.

## 7. Not modelled, and the plan

`PROJECT.json` lists every component with its status. Out of reach or not worth a
model: text extraction, document formats, prompts and audits of texts inside the AI
service, offline evaluation, the HTTP protocols of providers, views, SQL row-level
security (enforced by the database), request parsing, lists, reports, search and
statistics that only read, AI configuration (rows written and read back one at a time),
profile fields, audit entries, the Redis client of `jobs/`,
which nothing calls.

Partly: of tenders, lists, recommendations and the site a source is checked against; of
files, downloads; of cost projects, items, reports and figures; of the factual review, how a text is audited; of the HTTP API and the frontend, what is not in
`Team`, `Knowledge` and `BrowserSession`. Within modelled parts the headers say what is
left out: other tenants, `backfillCheckGate`, the calls an evidence review makes inside
an operation, `setTenant`.

Planned:

1. The rest of what `bid/store.go` writes: two uploads at once, requirement items and
   material selections, the versions of a chapter.
2. The items and figures of a cost project (`cost/store.go`): what its advice and its
   reports are computed from while items change.
3. Further action properties of the parts that have invariants only: what a decision of an
   approval, a commit of a batch or a log of a call may never change.
