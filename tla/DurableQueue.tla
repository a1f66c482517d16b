----------------------------- MODULE DurableQueue -----------------------------
(***************************************************************************)
(* ai-service/app/task_queue.py: the durable job queue of the AI service   *)
(* and its callback outbox, an SQLite table worked by daemon threads that  *)
(* survives the process.  A worker claims a job, runs the handler (the     *)
(* model calls), saves the terminal callback in the row, delivers it to    *)
(* the backend, and marks the row done; every exception puts the row back  *)
(* with a backoff, and a restart puts back the rows that were running.     *)
(*                                                                         *)
(* Time is abstracted: expired[j] says that the row is older than max_age, *)
(* due[j] that its backoff is over, and a done row may be older than seven *)
(* days at any claim.  attempts saturates at GiveUpAfter, the only value   *)
(* the code compares it with (the length of the backoff is not modelled).  *)
(***************************************************************************)
EXTENDS Integers, FiniteSets

CONSTANTS Jobs,           \* task ids
          Workers,        \* worker threads
          Urls,           \* kinds of callback_url a request carries
          GiveUpAfter,    \* attempts after which the model is not run again
          MaxSends,       \* HTTP attempts of one deliver_callback
          MaxCrashes,     \* bound: how often the process ends
          StoreFails,     \* whether SQLite statements may raise
          GracefulClose,  \* whether the process may be shut down in order
          NoJob           \* what an idle worker holds

ASSUME GiveUpAssumption == GiveUpAfter \in Nat \ {0}
ASSUME SendsAssumption  == MaxSends \in Nat \ {0}
ASSUME UrlAssumption    == Urls \subseteq {"ok", "refused", "none"}
ASSUME CrashAssumption  == MaxCrashes \in Nat
ASSUME FlagAssumption   == StoreFails \in BOOLEAN /\ GracefulClose \in BOOLEAN
ASSUME NoJobAssumption  == NoJob \notin Jobs

Verdicts == {"done", "failed"}
NoAnswer == "none"

VARIABLES
    server,    \* "serving", "closing" (stop_event set) or "down"
    state,     \* state[j]: the row's state column, "absent" without a row
    url,       \* url[j]: the kind of the request's callback_url
    attempts,  \* attempts[j], saturating
    callback,  \* callback[j]: the saved terminal callback
    due,       \* due[j]: available <= now
    expired,   \* expired[j]: now - created > max_age
    older,     \* older[j]: the rows created before row j
    pc,        \* pc[w]: where worker w is in run_once
    held,      \* held[w]: the id of the row w claimed
    verdict,   \* verdict[w]: the payload w is about to save or deliver
    sends,     \* sends[w]: HTTP attempts w has made in this delivery
    crashes,   \* how often the process has ended
    runs,      \* history: model runs started during the row's life
    heard      \* history: verdicts the backend received during its life

rows    == <<state, url, attempts, callback, due, expired, older>>
threads == <<pc, held, verdict, sends>>
vars    == <<server, rows, threads, crashes, runs, heard>>

States == {"absent", "queued", "running", "callback", "done"}
Places == {"idle", "model", "post", "giveup", "send", "finish", "except"}

TypeOK ==
    /\ server \in {"serving", "closing", "down"}
    /\ state \in [Jobs -> States]
    /\ url \in [Jobs -> Urls \union {"none"}]
    /\ attempts \in [Jobs -> 0..GiveUpAfter]
    /\ callback \in [Jobs -> Verdicts \union {NoAnswer}]
    /\ due \in [Jobs -> BOOLEAN]
    /\ expired \in [Jobs -> BOOLEAN]
    /\ older \in [Jobs -> SUBSET Jobs]
    /\ pc \in [Workers -> Places]
    /\ held \in [Workers -> Jobs \union {NoJob}]
    /\ verdict \in [Workers -> Verdicts \union {NoAnswer}]
    /\ sends \in [Workers -> 0..MaxSends]
    /\ crashes \in 0..MaxCrashes
    /\ runs \in [Jobs -> Nat]
    /\ heard \in [Jobs -> SUBSET Verdicts]

Init ==
    /\ server = "serving"
    /\ state = [j \in Jobs |-> "absent"]
    /\ url = [j \in Jobs |-> "none"]
    /\ attempts = [j \in Jobs |-> 0]
    /\ callback = [j \in Jobs |-> NoAnswer]
    /\ due = [j \in Jobs |-> TRUE]
    /\ expired = [j \in Jobs |-> FALSE]
    /\ older = [j \in Jobs |-> {}]
    /\ pc = [w \in Workers |-> "idle"]
    /\ held = [w \in Workers |-> NoJob]
    /\ verdict = [w \in Workers |-> NoAnswer]
    /\ sends = [w \in Workers |-> 0]
    /\ crashes = 0
    /\ runs = [j \in Jobs |-> 0]
    /\ heard = [j \in Jobs |-> {}]

-----------------------------------------------------------------------------
\* Mutant: the retry counter is never advanced.
NoMore(n) == n

OneMore(n) == IF n < GiveUpAfter THEN n + 1 ELSE n

\* Where an interrupted row goes back to: a saved callback is only
\* delivered again, the model is not.
PutBack(j) == IF callback[j] = NoAnswer THEN "queued" ELSE "callback"

\* enqueue: INSERT OR IGNORE.  The same request again changes nothing, a
\* different request under a known id raises; neither touches the row.
\* (A row that is absent has blank fields, the column defaults.)
Insert(j, u) ==
    /\ state[j] = "absent"
    /\ state' = [state EXCEPT ![j] = "queued"]
    /\ url' = [url EXCEPT ![j] = u]
    /\ older' = [older EXCEPT ![j] = {i \in Jobs : state[i] # "absent"}]
    /\ UNCHANGED <<attempts, callback, due, expired>>

EnqueueAgain(j) == state[j] # "absent" /\ UNCHANGED rows

Enqueue(j, u) ==
    /\ server = "serving"
    /\ Insert(j, u) \/ EnqueueAgain(j)
    /\ UNCHANGED <<server, threads, crashes, runs, heard>>

-----------------------------------------------------------------------------
\* Mutant: claim without its filter on running rows.
ClaimableRunning(j) == state[j] \in {"queued", "running", "callback"} /\ due[j]

\* claim: the oldest queued or callback row whose backoff is over.
Claimable(j) == state[j] \in {"queued", "callback"} /\ due[j]

Oldest(j) == Claimable(j) /\ \A i \in older[j] : ~Claimable(i)

\* Mutants: run_once forgets the saved callback, or gives up first.
BranchRerun(j) == IF expired[j] \/ attempts[j] >= GiveUpAfter THEN "giveup" ELSE "model"

BranchGiveUpFirst(j) ==
    IF expired[j] \/ attempts[j] >= GiveUpAfter THEN "giveup"
    ELSE IF callback[j] # NoAnswer THEN "send"
    ELSE "model"

\* What run_once does with the row it got.
Branch(j) ==
    IF callback[j] # NoAnswer THEN "send"
    ELSE IF expired[j] \/ attempts[j] >= GiveUpAfter THEN "giveup"
    ELSE "model"

GoIdle(w) ==
    /\ pc' = [pc EXCEPT ![w] = "idle"]
    /\ held' = [held EXCEPT ![w] = NoJob]
    /\ verdict' = [verdict EXCEPT ![w] = NoAnswer]
    /\ sends' = [sends EXCEPT ![w] = 0]

Erased(f, old, blank) == [j \in Jobs |-> IF j \in old THEN blank ELSE f[j]]

\* Mutant: old rows are deleted although their callback is undelivered.
PurgeUndelivered(old) ==
    /\ \A j \in old : state[j] \in {"done", "callback"}
    /\ older' = [j \in Jobs |-> IF j \in old THEN {} ELSE older[j] \ old]
    /\ url' = Erased(url, old, "none")
    /\ callback' = Erased(callback, old, NoAnswer)
    /\ attempts' = Erased(attempts, old, 0)
    /\ due' = Erased(due, old, TRUE)
    /\ expired' = Erased(expired, old, FALSE)
    /\ heard' = Erased(heard, old, {})
    /\ UNCHANGED <<server, crashes>>

\* The claim transaction also deletes the done rows older than seven days.
Purge(old) ==
    /\ \A j \in old : state[j] = "done"
    /\ older' = [j \in Jobs |-> IF j \in old THEN {} ELSE older[j] \ old]
    /\ url' = Erased(url, old, "none")
    /\ callback' = Erased(callback, old, NoAnswer)
    /\ attempts' = Erased(attempts, old, 0)
    /\ due' = Erased(due, old, TRUE)
    /\ expired' = Erased(expired, old, FALSE)
    /\ heard' = Erased(heard, old, {})
    /\ UNCHANGED <<server, crashes>>

\* A worker tests stop_event and claims in one step.
Claim(w, j, old) ==
    /\ server = "serving"
    /\ pc[w] = "idle"
    /\ Oldest(j)
    /\ Purge(old)
    /\ state' = [Erased(state, old, "absent") EXCEPT ![j] = "running"]
    /\ runs' = [Erased(runs, old, 0) EXCEPT
                    ![j] = IF Branch(j) = "model" THEN @ + 1 ELSE @]
    /\ pc' = [pc EXCEPT ![w] = Branch(j)]
    /\ held' = [held EXCEPT ![w] = j]
    /\ verdict' = [verdict EXCEPT ![w] =
                    IF Branch(j) = "giveup" THEN "failed" ELSE callback[j]]
    /\ sends' = [sends EXCEPT ![w] = 0]

ClaimNothing(w, old) ==
    /\ server = "serving"
    /\ pc[w] = "idle"
    /\ \A j \in Jobs : ~Claimable(j)
    /\ Purge(old)
    /\ state' = Erased(state, old, "absent")
    /\ runs' = Erased(runs, old, 0)
    /\ UNCHANGED threads

-----------------------------------------------------------------------------
Step(w, from, to) == pc[w] = from /\ pc' = [pc EXCEPT ![w] = to]

Threads(w) == UNCHANGED <<server, crashes, runs, held, url, attempts, due, expired, older>>

\* The process_* handler computes its result, turning every failure of its
\* own into a failed verdict, and calls post_callback if there is a URL.
Compute(w, v) ==
    /\ Step(w, "model", IF url[held[w]] = "none" THEN "finish" ELSE "post")
    /\ verdict' = [verdict EXCEPT ![w] = v]
    /\ UNCHANGED <<state, callback, sends, heard>>
    /\ Threads(w)

\* The handler cannot even start: the stored payload no longer validates.
CannotRun(w) ==
    /\ Step(w, "model", "except")
    /\ UNCHANGED <<state, callback, verdict, sends, heard>>
    /\ Threads(w)

\* post_callback refuses a URL whose host is not allowed before saving.
Refuse(w) ==
    /\ Step(w, "post", "except")
    /\ url[held[w]] = "refused"
    /\ UNCHANGED <<state, callback, verdict, sends, heard>>
    /\ Threads(w)

\* post_callback saves the callback, unless the end of close() has already
\* taken the module-level queue away; either way it goes on to deliver.
Post(w) ==
    /\ Step(w, "post", "send")
    /\ url[held[w]] = "ok"
    /\ \/ callback' = [callback EXCEPT ![held[w]] = verdict[w]]
       \/ server = "closing" /\ UNCHANGED callback
    /\ UNCHANGED <<state, verdict, sends, heard>>
    /\ Threads(w)

\* run_once gives up: it saves the failure itself, whatever the URL.
GiveUp(w) ==
    /\ Step(w, "giveup", IF url[held[w]] = "none" THEN "finish" ELSE "send")
    /\ callback' = [callback EXCEPT ![held[w]] = verdict[w]]
    /\ UNCHANGED <<state, verdict, sends, heard>>
    /\ Threads(w)

\* deliver_callback: the backend answered 2xx.
SendAcked(w) ==
    /\ Step(w, "send", "finish")
    /\ url[held[w]] = "ok"
    /\ heard' = [heard EXCEPT ![held[w]] = @ \union {verdict[w]}]
    /\ UNCHANGED <<state, callback, verdict, sends>>
    /\ Threads(w)

\* Mutant: deliver_callback swallows its last error.
SendSwallowed(w, reached) ==
    /\ Step(w, "send", IF sends[w] + 1 >= MaxSends THEN "finish" ELSE "send")
    /\ url[held[w]] = "ok"
    /\ sends' = [sends EXCEPT ![w] = @ + 1]
    /\ heard' = [heard EXCEPT ![held[w]] = IF reached THEN @ \union {verdict[w]} ELSE @]
    /\ UNCHANGED <<state, callback, verdict>>
    /\ Threads(w)

\* An attempt without an answer; the backend may have applied it all the
\* same.  After MaxSends of them the exception reaches run_once.
SendLost(w, reached) ==
    /\ Step(w, "send", IF sends[w] + 1 >= MaxSends THEN "except" ELSE "send")
    /\ url[held[w]] = "ok"
    /\ sends' = [sends EXCEPT ![w] = @ + 1]
    /\ heard' = [heard EXCEPT ![held[w]] = IF reached THEN @ \union {verdict[w]} ELSE @]
    /\ UNCHANGED <<state, callback, verdict>>
    /\ Threads(w)

\* A URL that is empty or not allowed is refused again at every delivery.
SendRefused(w) ==
    /\ Step(w, "send", "except")
    /\ url[held[w]] # "ok"
    /\ UNCHANGED <<state, callback, verdict, sends, heard>>
    /\ Threads(w)

Finish(w) ==
    /\ pc[w] = "finish"
    /\ state' = [state EXCEPT ![held[w]] = "done"]
    /\ GoIdle(w)
    /\ UNCHANGED <<server, url, attempts, callback, due, expired, older, crashes, runs, heard>>

\* SQLite raises while the callback is saved or the row is marked done.
StoreRaises(w) ==
    /\ StoreFails
    /\ \E p \in {"post", "giveup", "finish"} : Step(w, p, "except")
    /\ UNCHANGED <<state, callback, verdict, sends, heard>>
    /\ Threads(w)

\* The except block of run_once.
Retry(w) ==
    /\ pc[w] = "except"
    /\ state' = [state EXCEPT ![held[w]] = PutBack(held[w])]
    /\ attempts' = [attempts EXCEPT ![held[w]] = OneMore(@)]
    /\ due' = [due EXCEPT ![held[w]] = FALSE]
    /\ GoIdle(w)
    /\ UNCHANGED <<server, url, callback, expired, older, crashes, runs, heard>>

\* SQLite raises in the except block too: loop() logs it and the worker
\* goes on, the row stays running until the next restart.
RetryRaises(w) ==
    /\ StoreFails
    /\ pc[w] = "except"
    /\ GoIdle(w)
    /\ UNCHANGED <<server, rows, crashes, runs, heard>>

-----------------------------------------------------------------------------
\* close(): workers stop claiming and are given a second to finish.
Close ==
    /\ GracefulClose
    /\ server = "serving"
    /\ crashes < MaxCrashes
    /\ server' = "closing"
    /\ UNCHANGED <<rows, threads, crashes, runs, heard>>

Crash ==
    /\ server # "down"
    /\ crashes < MaxCrashes
    /\ server' = "down"
    /\ crashes' = crashes + 1
    /\ pc' = [w \in Workers |-> "idle"]
    /\ held' = [w \in Workers |-> NoJob]
    /\ verdict' = [w \in Workers |-> NoAnswer]
    /\ sends' = [w \in Workers |-> 0]
    /\ UNCHANGED <<rows, runs, heard>>

\* Mutant: the rows of the previous process are not put back.
RestartOnly ==
    /\ server = "down"
    /\ server' = "serving"
    /\ UNCHANGED <<rows, threads, crashes, runs, heard>>

\* __init__ of the next process.
Restart ==
    /\ server = "down"
    /\ server' = "serving"
    /\ state' = [j \in Jobs |-> IF state[j] = "running" THEN PutBack(j) ELSE state[j]]
    /\ attempts' = [j \in Jobs |-> IF state[j] = "running" THEN OneMore(attempts[j])
                                                           ELSE attempts[j]]
    /\ UNCHANGED <<url, callback, due, expired, older, threads, crashes, runs, heard>>

BackoffOver(j) ==
    /\ ~due[j]
    /\ due' = [due EXCEPT ![j] = TRUE]
    /\ UNCHANGED <<server, state, url, attempts, callback, expired, older, threads, crashes, runs, heard>>

Age(j) ==
    /\ state[j] \in {"queued", "running"}
    /\ ~expired[j]
    /\ expired' = [expired EXCEPT ![j] = TRUE]
    /\ UNCHANGED <<server, state, url, attempts, callback, due, older, threads, crashes, runs, heard>>

-----------------------------------------------------------------------------
Deliver(w) ==
    \/ SendAcked(w)
    \/ \E reached \in BOOLEAN : SendLost(w, reached)
    \/ SendRefused(w)

\* The steps of run_once after the claim.
RunOnce(w) ==
    \/ \E v \in Verdicts : Compute(w, v)
    \/ CannotRun(w)
    \/ Refuse(w)
    \/ Post(w)
    \/ GiveUp(w)
    \/ Deliver(w)
    \/ Finish(w)
    \/ StoreRaises(w)
    \/ Retry(w)
    \/ RetryRaises(w)

ClaimAny(w) ==
    \E old \in SUBSET Jobs : ClaimNothing(w, old) \/ \E j \in Jobs : Claim(w, j, old)

Next ==
    \/ \E j \in Jobs, u \in Urls : Enqueue(j, u)
    \/ \E w \in Workers : ClaimAny(w) \/ RunOnce(w)
    \/ Close
    \/ Crash
    \/ Restart
    \/ \E j \in Jobs : BackoffOver(j) \/ Age(j)

Spec == Init /\ [][Next]_vars

(***************************************************************************)
(* Fairness: every statement of run_once returns; the container is         *)
(* restarted when its process dies (restart: unless-stopped); time passes. *)
(* A row that is claimable over and over again is eventually claimed: a    *)
(* backoff lasts a second at least, a worker polls at once after a job and *)
(* every half second otherwise.  A backend that is called over and over    *)
(* again about the same task eventually answers.                           *)
(***************************************************************************)
ClaimOf(j) == \E w \in Workers, old \in SUBSET Jobs : Claim(w, j, old)
AckOf(j) == \E w \in Workers : held[w] = j /\ SendAcked(w)

Fairness ==
    /\ \A w \in Workers : WF_vars(RunOnce(w))
    /\ \A j \in Jobs :
        WF_vars(BackoffOver(j)) /\ SF_vars(ClaimOf(j)) /\ SF_vars(AckOf(j))
    /\ WF_vars(server = "closing" /\ Crash)
    /\ WF_vars(Restart)

FairSpec == Spec /\ Fairness

-----------------------------------------------------------------------------
Busy(w) == pc[w] # "idle"

\* Exclusive claims: no two worker threads ever work on the same row, and a
\* row somebody works on is in state running (BEGIN IMMEDIATE in claim and
\* the state filter of its SELECT).
ClaimExclusive ==
    \A w \in Workers : Busy(w) =>
        /\ held[w] \in Jobs
        /\ state[held[w]] = "running"
        /\ \A x \in Workers \ {w} : Busy(x) => held[x] # held[w]

\* A poisoned job costs a bounded number of model runs: whatever crashes,
\* restarts and exceptions happen, the handler of a row is started at most
\* GiveUpAfter times (the attempts >= 3 test of run_once).
ModelRunsBounded == \A j \in Jobs : runs[j] <= GiveUpAfter

\* A row is marked done only after the backend received the answer saved in
\* it: the callback is never dropped between the outbox and the backend.
DoneWasHeard ==
    \A j \in Jobs : (state[j] = "done" /\ url[j] # "none") =>
        /\ heard[j] # {}
        /\ callback[j] # NoAnswer => callback[j] \in heard[j]

\* Nothing is told that is not in the outbox first, so the backend never
\* hears two different answers to one task (post_callback saves, then
\* delivers).  Only a process killed in any other way than close().
OutboxBeforeWire == \A j \in Jobs : heard[j] \subseteq {callback[j]}

\* A saved answer is never replaced by another one while its row lives:
\* retries, restarts and giving up deliver what was saved.
AnswerIsFinal ==
    [][\A j \in Jobs : callback[j] # NoAnswer =>
            callback'[j] = callback[j] \/ state'[j] = "absent"]_vars

\* Saved callbacks are delivered without rerunning expensive models
\* (task_queue.py:44-45): no model run starts once an answer is saved.
NoRerunAfterSave ==
    [][\A j \in Jobs : callback[j] # NoAnswer =>
            runs'[j] = runs[j] \/ state'[j] = "absent"]_vars

\* Every accepted request with a reachable callback is eventually answered
\* and its row done, through crashes, lost deliveries and poisoned runs.
EveryJobAnswered ==
    \A j \in Jobs : (state[j] # "absent" /\ url[j] = "ok") ~> state[j] = "done"

-----------------------------------------------------------------------------
(***************************************************************************)
(* The inductive invariant behind the safety properties.                   *)
(***************************************************************************)
Quiet == server = "down" => \A w \in Workers : ~Busy(w)

\* What a row's state says about its outbox column and its history.
RowOK(j) ==
    /\ state[j] = "absent" =>
        callback[j] = NoAnswer /\ heard[j] = {} /\ runs[j] = 0 /\ url[j] = "none"
    /\ state[j] = "callback" => callback[j] # NoAnswer
    /\ state[j] = "queued" => callback[j] = NoAnswer
    /\ state[j] \in {"queued", "callback"} => runs[j] <= attempts[j]
    /\ state[j] = "running" => runs[j] <= attempts[j] + 1

RowShape == \A j \in Jobs : RowOK(j)

\* What a worker's place in run_once says about the row it holds.
WorkerOK(w) ==
    /\ pc[w] \in {"model", "post", "giveup", "send"} => sends[w] < MaxSends
    /\ pc[w] \in {"model", "post", "giveup"} => callback[held[w]] = NoAnswer
    /\ pc[w] \in {"post", "giveup", "send"} => verdict[w] \in Verdicts
    /\ pc[w] = "post" => url[held[w]] # "none"
    /\ pc[w] = "send" /\ callback[held[w]] # NoAnswer => callback[held[w]] = verdict[w]
    /\ pc[w] = "finish" /\ url[held[w]] # "none" =>
        /\ heard[held[w]] # {}
        /\ callback[held[w]] # NoAnswer => callback[held[w]] \in heard[held[w]]

WorkerShape == \A w \in Workers : WorkerOK(w)

IInv ==
    /\ TypeOK
    /\ Quiet
    /\ ClaimExclusive
    /\ RowShape
    /\ WorkerShape
    /\ ModelRunsBounded
    /\ DoneWasHeard

\* And without close(): what is about to be told has been saved.
SavedFirst ==
    /\ server # "closing"
    /\ OutboxBeforeWire
    /\ \A w \in Workers : pc[w] = "send" => callback[held[w]] = verdict[w]

-----------------------------------------------------------------------------
Phase(j) ==
    CASE state[j] = "absent" -> "absent"
      [] state[j] = "done" -> "settled"
      [] OTHER -> IF callback[j] = NoAnswer THEN "pending" ELSE "decided"

Outbox == INSTANCE CallbackOutbox WITH
    phase  <- [j \in Jobs |-> Phase(j)],
    answer <- callback,
    wanted <- [j \in Jobs |-> url[j] # "none"]

\* The queue implements the promise of CallbackOutbox: one answer per task,
\* told at least once before the task is forgotten.
ImplementsOutbox == Outbox!Spec
=============================================================================
