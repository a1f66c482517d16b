-------------------------- MODULE DurableQueueProofs --------------------------
(***************************************************************************)
(* Proofs about DurableQueue for any set of jobs, any number of worker     *)
(* threads, any limits and any number of process exits.  IInv is           *)
(* inductive; the safety properties are its conjuncts or follow from it,   *)
(* and it also shows that every step of the queue is a step of             *)
(* CallbackOutbox or a stutter, as long as the process is not closed in    *)
(* order.                                                                  *)
(***************************************************************************)
EXTENDS DurableQueue, TLAPS

USE GiveUpAssumption, SendsAssumption, UrlAssumption, CrashAssumption,
    FlagAssumption, NoJobAssumption

\* The queue starts in a state of the invariant.
LEMMA InitIInv == Init => IInv
  BY SMT DEF Init, IInv, TypeOK, Quiet, ClaimExclusive, RowShape, RowOK, WorkerShape, WorkerOK,
      ModelRunsBounded, DoneWasHeard, Busy, States, Places, Verdicts, NoAnswer

\* Purging keeps a column in its range and the rows it leaves alone.
LEMMA ErasedType ==
  ASSUME NEW S, NEW f \in [Jobs -> S], NEW blank \in S, NEW old
  PROVE  Erased(f, old, blank) \in [Jobs -> S]
  BY DEF Erased

\* The columns after a purge, but for state and runs.
LEMMA PurgeType ==
  ASSUME TypeOK, NEW old, Purge(old)
  PROVE  /\ server' = server /\ crashes' = crashes
         /\ url' \in [Jobs -> Urls \union {"none"}]
         /\ attempts' \in [Jobs -> 0..GiveUpAfter]
         /\ callback' \in [Jobs -> Verdicts \union {NoAnswer}]
         /\ due' \in [Jobs -> BOOLEAN]
         /\ expired' \in [Jobs -> BOOLEAN]
         /\ older' \in [Jobs -> SUBSET Jobs]
         /\ heard' \in [Jobs -> SUBSET Verdicts]
         /\ Erased(state, old, "absent") \in [Jobs -> States]
         /\ Erased(runs, old, 0) \in [Jobs -> Nat]
<1>1. Erased(attempts, old, 0) \in [Jobs -> 0..GiveUpAfter]
  <2>1. 0 \in 0..GiveUpAfter
    BY SMT
  <2> QED
    BY <2>1, ErasedType DEF TypeOK
<1>2. Erased(url, old, "none") \in [Jobs -> Urls \union {"none"}]
  BY ErasedType DEF TypeOK
<1>3. Erased(callback, old, NoAnswer) \in [Jobs -> Verdicts \union {NoAnswer}]
  BY ErasedType DEF TypeOK
<1>4. /\ Erased(due, old, TRUE) \in [Jobs -> BOOLEAN]
      /\ Erased(expired, old, FALSE) \in [Jobs -> BOOLEAN]
  BY Zenon DEF TypeOK, Erased
<1>5. Erased(heard, old, {}) \in [Jobs -> SUBSET Verdicts]
  BY ErasedType DEF TypeOK
<1>6. Erased(state, old, "absent") \in [Jobs -> States]
  BY ErasedType DEF TypeOK, States
<1>7. Erased(runs, old, 0) \in [Jobs -> Nat]
  BY ErasedType DEF TypeOK
<1>8. older' \in [Jobs -> SUBSET Jobs]
  BY SMT DEF TypeOK, Purge
<1> QED
  BY <1>1, <1>2, <1>3, <1>4, <1>5, <1>6, <1>7, <1>8 DEF Purge

\* Types: every step keeps every variable in its range.
LEMMA StepTypeOK == IInv /\ [Next]_vars => TypeOK'
<1> USE DEF States, Places, Verdicts, NoAnswer
<1> SUFFICES ASSUME IInv, [Next]_vars PROVE TypeOK'
  OBVIOUS
<1>0. TypeOK /\ ClaimExclusive /\ WorkerShape
  BY DEF IInv
<1>h. \A w \in Workers : pc[w] # "idle" => held[w] \in Jobs
  BY <1>0 DEF ClaimExclusive, Busy
<1>1. ASSUME NEW j \in Jobs, NEW u \in Urls, Enqueue(j, u) PROVE TypeOK'
  BY <1>0, <1>1, SMT DEF TypeOK, Enqueue, Insert, EnqueueAgain, rows, threads
<1>2. ASSUME NEW w \in Workers, NEW j \in Jobs, NEW old \in SUBSET Jobs, Claim(w, j, old)
      PROVE  TypeOK'
  <2>1. Branch(j) \in Places
    BY SMT DEF Branch
  <2>2. Purge(old)
    BY <1>2 DEF Claim
  <2>3. /\ state' \in [Jobs -> States]
        /\ runs' \in [Jobs -> Nat]
    BY <1>0, <1>2, <2>2, PurgeType, SMT DEF Claim
  <2>4. /\ pc' \in [Workers -> Places]
        /\ held' \in [Workers -> Jobs \union {NoJob}]
        /\ verdict' \in [Workers -> Verdicts \union {NoAnswer}]
        /\ sends' \in [Workers -> 0..MaxSends]
    BY <1>0, <1>2, <2>1, SMT DEF TypeOK, Claim
  <2> QED
    BY <1>0, <2>2, <2>3, <2>4, PurgeType DEF TypeOK
<1>3. ASSUME NEW w \in Workers, NEW old \in SUBSET Jobs, ClaimNothing(w, old)
      PROVE  TypeOK'
  BY <1>0, <1>3, PurgeType DEF TypeOK, ClaimNothing, threads
<1>4. ASSUME NEW w \in Workers, RunOnce(w) PROVE TypeOK'
  <2> USE <1>0, <1>h DEF TypeOK, Step, Threads
  <2>1. ASSUME NEW v \in Verdicts, Compute(w, v) PROVE TypeOK'
    BY <2>1, SMT DEF Compute
  <2>2. CASE CannotRun(w)
    BY <2>2, SMT DEF CannotRun
  <2>3. CASE Refuse(w)
    BY <2>3, SMT DEF Refuse
  <2>4. CASE Post(w)
    BY <2>4, SMT DEF Post
  <2>5. CASE GiveUp(w)
    BY <2>5, SMT DEF GiveUp
  <2>6. CASE SendAcked(w)
    BY <2>6, SMT DEF SendAcked, WorkerShape, WorkerOK
  <2>7. ASSUME NEW reached \in BOOLEAN, SendLost(w, reached) PROVE TypeOK'
    BY <2>7, SMT DEF SendLost, WorkerShape, WorkerOK
  <2>8. CASE SendRefused(w)
    BY <2>8, SMT DEF SendRefused
  <2>9. CASE Finish(w)
    BY <2>9, SMT DEF Finish, GoIdle
  <2>10. CASE StoreRaises(w)
    BY <2>10, SMT DEF StoreRaises
  <2>11. CASE Retry(w)
    BY <2>11, SMT DEF Retry, GoIdle, PutBack, OneMore
  <2>12. CASE RetryRaises(w)
    BY <2>12, SMT DEF RetryRaises, GoIdle, rows
  <2> QED
    BY <1>4, <2>1, <2>2, <2>3, <2>4, <2>5, <2>6, <2>7, <2>8, <2>9, <2>10, <2>11, <2>12
       DEF RunOnce, Deliver
<1>5. CASE Close
  BY <1>0, <1>5 DEF TypeOK, Close, rows, threads
<1>6. CASE Crash
  BY <1>0, <1>6, SMT DEF TypeOK, Crash, rows
<1>7. CASE Restart
  BY <1>0, <1>7, SMT DEF TypeOK, Restart, PutBack, OneMore, threads
<1>8. ASSUME NEW j \in Jobs, BackoffOver(j) \/ Age(j) PROVE TypeOK'
  <2>1. CASE BackoffOver(j)
    BY <1>0, <2>1 DEF TypeOK, BackoffOver, threads
  <2>2. CASE Age(j)
    BY <1>0, <2>2 DEF TypeOK, Age, threads
  <2> QED
    BY <1>8, <2>1, <2>2
<1>9. CASE UNCHANGED vars
  BY <1>0, <1>9 DEF TypeOK, vars, rows, threads
<1> QED
  BY <1>1, <1>2, <1>3, <1>4, <1>5, <1>6, <1>7, <1>8, <1>9 DEF Next, ClaimAny

-----------------------------------------------------------------------------
\* The conjuncts of the invariant other than the types.
Shape == Quiet /\ ClaimExclusive /\ RowShape /\ WorkerShape /\ ModelRunsBounded /\ DoneWasHeard

\* Every step keeps the shape of the rows and of the workers.
LEMMA StepShape == IInv /\ TypeOK' /\ [Next]_vars => Shape'
<1> USE DEF States, Places, Verdicts, NoAnswer
<1> SUFFICES ASSUME IInv, TypeOK', [Next]_vars PROVE Shape'
  OBVIOUS
<1>0. TypeOK /\ Quiet /\ ClaimExclusive /\ RowShape /\ WorkerShape
        /\ ModelRunsBounded /\ DoneWasHeard
  BY DEF IInv
<1> USE <1>0 DEF Shape, Quiet, ClaimExclusive, RowShape, RowOK, WorkerShape, WorkerOK,
        ModelRunsBounded, DoneWasHeard, Busy
<1>1. ASSUME NEW j \in Jobs, NEW u \in Urls, Enqueue(j, u) PROVE Shape'
  BY <1>1, SMT DEF TypeOK, Enqueue, Insert, EnqueueAgain, rows, threads
<1>2. ASSUME NEW w \in Workers, NEW j \in Jobs, NEW old \in SUBSET Jobs, Claim(w, j, old)
      PROVE  Shape'
  <2>1. j \notin old /\ pc[w] = "idle" /\ server = "serving" /\ server' = server
    BY <1>2, SMT DEF Claim, Purge, Oldest, Claimable
  <2>2. /\ state[j] \in {"queued", "callback"} /\ state'[j] = "running"
        /\ runs'[j] = IF Branch(j) = "model" THEN runs[j] + 1 ELSE runs[j]
        /\ UNCHANGED <<callback[j], heard[j], url[j], attempts[j]>>
    BY <1>2, <2>1, SMT DEF TypeOK, Claim, Purge, Erased, Oldest, Claimable
  <2>3. \A k \in Jobs \ ({j} \union old) :
            UNCHANGED <<state[k], runs[k], callback[k], heard[k], url[k], attempts[k]>>
    BY <1>2, SMT DEF TypeOK, Claim, Purge, Erased
  <2>4. \A k \in old : /\ state[k] = "done" /\ state'[k] = "absent" /\ runs'[k] = 0
                        /\ callback'[k] = NoAnswer /\ heard'[k] = {} /\ url'[k] = "none"
    BY <1>2, <2>1, SMT DEF TypeOK, Claim, Purge, Erased
  <2>5. /\ pc'[w] = Branch(j) /\ held'[w] = j /\ sends'[w] = 0
        /\ verdict'[w] = IF Branch(j) = "giveup" THEN "failed" ELSE callback[j]
    BY <1>2, SMT DEF TypeOK, Claim
  <2>6. \A x \in Workers \ {w} : UNCHANGED <<pc[x], held[x], sends[x], verdict[x]>>
    BY <1>2, SMT DEF TypeOK, Claim
  <2>7. \A x \in Workers \ {w} : Busy(x) => held[x] \in Jobs \ ({j} \union old)
    BY <2>2, <2>4, SMT
  <2>8. Quiet' /\ ClaimExclusive'
    BY <2>1, <2>2, <2>3, <2>5, <2>6, <2>7, SMT
  <2>9. RowShape' /\ ModelRunsBounded'
    <3>1. Branch(j) = "model" => attempts[j] < GiveUpAfter /\ state[j] = "queued"
      BY <2>2, SMT DEF TypeOK, Branch
    <3>2. /\ runs'[j] <= attempts'[j] + 1 /\ runs'[j] <= GiveUpAfter
      BY <2>2, <3>1, SMT DEF TypeOK
    <3>3. \A k \in Jobs \ ({j} \union old) : runs'[k] <= GiveUpAfter
      BY <2>3, SMT
    <3>4. \A k \in old : runs'[k] <= GiveUpAfter
      BY <2>4, SMT
    <3>5. ModelRunsBounded'
      BY <3>2, <3>3, <3>4, Zenon
    <3>6. RowShape'
      <4> SUFFICES ASSUME NEW k \in Jobs PROVE RowOK(k)'
        BY DEF RowShape
      <4>1. CASE k = j
        BY <4>1, <2>2, <3>2, SMT DEF RowOK
      <4>2. CASE k \in old
        BY <4>2, <2>4, SMT DEF RowOK
      <4>3. CASE k \notin {j} \union old
        <5>1. UNCHANGED <<state[k], runs[k], callback[k], heard[k], url[k], attempts[k]>>
          BY <4>3, <2>3
        <5>2. RowOK(k)
          OBVIOUS
        <5> QED
          BY <5>1, <5>2, SMT DEF RowOK
      <4> QED
        BY <4>1, <4>2, <4>3
    <3> QED
      BY <3>5, <3>6
  <2>10. WorkerShape'
    BY <2>2, <2>3, <2>5, <2>6, <2>7, SMT DEF TypeOK, Branch
  <2>11. DoneWasHeard'
    BY <2>2, <2>3, <2>4, SMT
  <2> QED
    BY <2>8, <2>9, <2>10, <2>11
<1>3. ASSUME NEW w \in Workers, NEW old \in SUBSET Jobs, ClaimNothing(w, old)
      PROVE  Shape'
  BY <1>3, SMT DEF TypeOK, ClaimNothing, Purge, Erased, threads
<1>4. ASSUME NEW w \in Workers, RunOnce(w) PROVE Shape'
  <2> USE DEF TypeOK, Step, Threads
  <2>1. ASSUME NEW v \in Verdicts, Compute(w, v) PROVE Shape'
    BY <2>1, SMT DEF Compute
  <2>2. CASE CannotRun(w)
    BY <2>2, SMT DEF CannotRun
  <2>3. CASE Refuse(w)
    BY <2>3, SMT DEF Refuse
  <2>4. CASE Post(w)
    BY <2>4, SMT DEF Post
  <2>5. CASE GiveUp(w)
    BY <2>5, SMT DEF GiveUp
  <2>6. CASE SendAcked(w)
    <3>1. RowShape' /\ ModelRunsBounded' /\ Quiet' /\ ClaimExclusive'
      BY <2>6, SMT DEF SendAcked
    <3>2. WorkerShape'
      <4>1. /\ heard' = [heard EXCEPT ![held[w]] = @ \union {verdict[w]}]
            /\ pc' = [pc EXCEPT ![w] = "finish"] /\ pc[w] = "send"
            /\ UNCHANGED <<callback, held, url, verdict, sends>>
        BY <2>6 DEF SendAcked
      <4>2. /\ held[w] \in Jobs /\ verdict[w] \in heard'[held[w]]
            /\ callback[held[w]] # NoAnswer => callback[held[w]] = verdict[w]
        BY <4>1, SMT
      <4>3. \A x \in Workers \ {w} : Busy(x) =>
                held[x] \in Jobs /\ heard'[held[x]] = heard[held[x]] /\ pc'[x] = pc[x]
        BY <4>1, SMT
      <4>4. WorkerOK(w)'
        BY <4>1, <4>2, SMT
      <4>5. ASSUME NEW x \in Workers \ {w} PROVE WorkerOK(x)'
        <5>1. CASE pc[x] = "idle"
          BY <4>1, <5>1, SMT
        <5>2. CASE Busy(x)
          <6>1. WorkerOK(x)
            OBVIOUS
          <6> QED
            BY <4>1, <4>3, <5>2, <6>1, Zenon DEF WorkerOK
        <5> QED
          BY <5>1, <5>2
      <4> QED
        BY <4>4, <4>5, Zenon
    <3>3. DoneWasHeard'
      BY <2>6, SMT DEF SendAcked
    <3> QED
      BY <3>1, <3>2, <3>3
  <2>7. ASSUME NEW reached \in BOOLEAN, SendLost(w, reached) PROVE Shape'
    BY <2>7, SMT DEF SendLost
  <2>8. CASE SendRefused(w)
    BY <2>8, SMT DEF SendRefused
  <2>9. CASE Finish(w)
    BY <2>9, SMT DEF Finish, GoIdle
  <2>10. CASE StoreRaises(w)
    BY <2>10, SMT DEF StoreRaises
  <2>11. CASE Retry(w)
    <3>1. PICK h \in Jobs :
            /\ held[w] = h /\ state[h] = "running"
            /\ \A x \in Workers \ {w} : Busy(x) => held[x] # h
      BY <2>11, SMT DEF Retry
    <3>2. RowOK(h)'
      <4>1. /\ state'[h] = PutBack(h) /\ attempts'[h] = OneMore(attempts[h])
            /\ UNCHANGED <<callback[h], heard[h], runs[h], url[h]>>
        BY <2>11, <3>1, SMT DEF Retry
      <4>2. runs[h] <= attempts[h] + 1 /\ runs[h] <= GiveUpAfter
        BY <3>1, Zenon
      <4>3. attempts[h] \in 0..GiveUpAfter /\ runs[h] \in Nat
        BY <3>1
      <4>4. runs'[h] <= attempts'[h]
        BY <4>1, <4>2, <4>3, SMT DEF OneMore
      <4>5. state'[h] = IF callback'[h] = NoAnswer THEN "queued" ELSE "callback"
        BY <4>1 DEF PutBack
      <4> QED
        BY <4>4, <4>5, SMT DEF RowOK
    <3>3. \A k \in Jobs \ {h} : RowOK(k)'
      BY <2>11, <3>1, SMT DEF Retry
    <3>4. RowShape'
      <4> HIDE DEF RowOK
      <4> QED
        BY <3>2, <3>3
    <3>5. ModelRunsBounded'
      BY <2>11, Zenon DEF Retry, ModelRunsBounded
    <3>6. Quiet' /\ ClaimExclusive' /\ WorkerShape'
      BY <2>11, <3>1, SMT DEF Retry, GoIdle
    <3>7. DoneWasHeard'
      BY <2>11, <3>1, SMT DEF Retry, PutBack
    <3> QED
      BY <3>4, <3>5, <3>6, <3>7
  <2>12. CASE RetryRaises(w)
    BY <2>12, SMT DEF RetryRaises, GoIdle, rows
  <2> QED
    BY <1>4, <2>1, <2>2, <2>3, <2>4, <2>5, <2>6, <2>7, <2>8, <2>9, <2>10, <2>11, <2>12
       DEF RunOnce, Deliver
<1>5. CASE Close
  BY <1>5, SMT DEF Close, rows, threads
<1>6. CASE Crash
  BY <1>6, SMT DEF TypeOK, Crash, rows
<1>7. CASE Restart
  BY <1>7, SMT DEF TypeOK, Restart, PutBack, OneMore, threads
<1>8. ASSUME NEW j \in Jobs, BackoffOver(j) \/ Age(j) PROVE Shape'
  BY <1>8, SMT DEF BackoffOver, Age, threads
<1>9. CASE UNCHANGED vars
  BY <1>9, SMT DEF vars, rows, threads
<1> QED
  BY <1>1, <1>2, <1>3, <1>4, <1>5, <1>6, <1>7, <1>8, <1>9 DEF Next, ClaimAny

\* IInv is an invariant of the queue.
THEOREM Invariance == Spec => []IInv
<1>1. IInv /\ [Next]_vars => IInv'
  <2> SUFFICES ASSUME IInv, [Next]_vars PROVE IInv'
    OBVIOUS
  <2>1. TypeOK'
    BY StepTypeOK
  <2>2. Shape'
    BY <2>1, StepShape
  <2> QED
    BY <2>1, <2>2 DEF IInv, Shape
<1> QED
  BY <1>1, InitIInv, PTL DEF Spec

\* Types, for any number of jobs and workers.
THEOREM TypeCorrectness == Spec => []TypeOK
<1>1. IInv => TypeOK
  BY DEF IInv
<1> QED
  BY <1>1, Invariance, PTL

\* No two worker threads of task_queue.py ever hold the same row, and a row
\* somebody works on is running.
THEOREM ExclusiveClaims == Spec => []ClaimExclusive
<1>1. IInv => ClaimExclusive
  BY DEF IInv
<1> QED
  BY <1>1, Invariance, PTL

\* The handler of a row is started at most GiveUpAfter times, whatever
\* crashes, restarts, exceptions and SQLite failures happen.
THEOREM BoundedModelRuns == Spec => []ModelRunsBounded
<1>1. IInv => ModelRunsBounded
  BY DEF IInv
<1> QED
  BY <1>1, Invariance, PTL

\* A row is done only after the backend received the answer saved in it.
THEOREM DoneOnlyWhenHeard == Spec => []DoneWasHeard
<1>1. IInv => DoneWasHeard
  BY DEF IInv
<1> QED
  BY <1>1, Invariance, PTL

-----------------------------------------------------------------------------
\* Every step leaves a saved answer alone and starts no model run behind it.
LEMMA SavedAnswerStep ==
  ASSUME IInv, [Next]_vars, NEW k \in Jobs, callback[k] # NoAnswer
  PROVE  (callback'[k] = callback[k] /\ runs'[k] = runs[k]) \/ state'[k] = "absent"
<1> DEFINE Goal == (callback'[k] = callback[k] /\ runs'[k] = runs[k]) \/ state'[k] = "absent"
<1>0. TypeOK /\ ClaimExclusive /\ WorkerShape
  BY DEF IInv
<1>h. \A w \in Workers : pc[w] \in {"post", "giveup"} => held[w] \in Jobs \ {k}
  BY <1>0 DEF ClaimExclusive, Busy, WorkerShape, WorkerOK
<1> USE <1>0 DEF TypeOK
<1>1. ASSUME NEW j \in Jobs, NEW u \in Urls, Enqueue(j, u) PROVE Goal
  BY <1>1 DEF Enqueue, Insert, EnqueueAgain, rows
<1>2. ASSUME NEW w \in Workers, NEW j \in Jobs, NEW old \in SUBSET Jobs, Claim(w, j, old)
      PROVE  Goal
  <2>1. k = j => Branch(j) = "send"
    BY DEF Branch
  <2>2. j \notin old
    BY <1>2, SMT DEF Claim, Purge, Oldest, Claimable
  <2> QED
    BY <1>2, <2>1, <2>2, SMT DEF Claim, Purge, Erased
<1>3. ASSUME NEW w \in Workers, NEW old \in SUBSET Jobs, ClaimNothing(w, old)
      PROVE  Goal
  BY <1>3, SMT DEF ClaimNothing, Purge, Erased
<1>4. ASSUME NEW w \in Workers, RunOnce(w) PROVE Goal
  <2>1. CASE Post(w) \/ GiveUp(w)
    BY <1>h, <2>1, SMT DEF Post, GiveUp, Step, Threads
  <2>2. CASE UNCHANGED <<callback, runs>>
    BY <2>2
  <2> QED
    BY <1>4, <2>1, <2>2 DEF RunOnce, Deliver, Compute, CannotRun, Refuse, SendAcked,
        SendLost, SendRefused, Finish, StoreRaises, Retry, RetryRaises, Threads, rows
<1>5. CASE Close \/ Crash \/ Restart
  BY <1>5 DEF Close, Crash, Restart, rows
<1>6. ASSUME NEW j \in Jobs, BackoffOver(j) \/ Age(j) PROVE Goal
  BY <1>6 DEF BackoffOver, Age
<1>7. CASE UNCHANGED vars
  BY <1>7 DEF vars, rows
<1> QED
  BY <1>1, <1>2, <1>3, <1>4, <1>5, <1>6, <1>7 DEF Next, ClaimAny

\* A saved answer is never replaced while its row lives.
THEOREM FinalAnswer == Spec => AnswerIsFinal
<1>1. IInv /\ [Next]_vars => [\A j \in Jobs : callback[j] # NoAnswer =>
            callback'[j] = callback[j] \/ state'[j] = "absent"]_vars
  BY SavedAnswerStep
<1> QED
  BY <1>1, Invariance, PTL DEF Spec, AnswerIsFinal

\* No model run starts once an answer is saved (task_queue.py:44-45).
THEOREM NoRerun == Spec => NoRerunAfterSave
<1>1. IInv /\ [Next]_vars => [\A j \in Jobs : callback[j] # NoAnswer =>
            runs'[j] = runs[j] \/ state'[j] = "absent"]_vars
  BY SavedAnswerStep
<1> QED
  BY <1>1, Invariance, PTL DEF Spec, NoRerunAfterSave

-----------------------------------------------------------------------------
\* As long as the process is only ever killed, what is told was saved first.
LEMMA SavedFirstStep ==
  ASSUME GracefulClose = FALSE, IInv, TypeOK', SavedFirst, [Next]_vars
  PROVE  SavedFirst'
<1> USE DEF NoAnswer, Verdicts
<1>0. TypeOK /\ ClaimExclusive /\ WorkerShape /\ RowShape /\ server # "closing"
  BY DEF IInv, SavedFirst
<1> USE <1>0 DEF SavedFirst, OutboxBeforeWire, ClaimExclusive, Busy
<1>1. ASSUME NEW j \in Jobs, NEW u \in Urls, Enqueue(j, u) PROVE SavedFirst'
  BY <1>1, SMT DEF Enqueue, Insert, EnqueueAgain, rows, threads
<1>2. ASSUME NEW w \in Workers, NEW j \in Jobs, NEW old \in SUBSET Jobs, Claim(w, j, old)
      PROVE  SavedFirst'
  <2>1. j \notin old /\ server' # "closing" /\ pc[w] = "idle"
    BY <1>2, SMT DEF Claim, Purge, Oldest, Claimable
  <2>2. \A k \in Jobs : IF k \in old THEN callback'[k] = NoAnswer /\ heard'[k] = {}
                                      ELSE callback'[k] = callback[k] /\ heard'[k] = heard[k]
    BY <1>2, SMT DEF Claim, Purge, Erased
  <2>3. \A x \in Workers : pc[x] = "send" => held[x] \in Jobs \ old
    BY <1>2, SMT DEF Claim, Purge
  <2>4. \A x \in Workers \ {w} : UNCHANGED <<pc[x], held[x], verdict[x]>>
    BY <1>2, SMT DEF Claim, TypeOK
  <2>5. /\ pc'[w] = Branch(j) /\ held'[w] = j
        /\ verdict'[w] = IF Branch(j) = "giveup" THEN "failed" ELSE callback[j]
    BY <1>2, SMT DEF Claim, TypeOK
  <2> QED
    BY <2>1, <2>2, <2>3, <2>4, <2>5, SMT DEF TypeOK
<1>3. ASSUME NEW w \in Workers, NEW old \in SUBSET Jobs, ClaimNothing(w, old)
      PROVE  SavedFirst'
  BY <1>3, SMT DEF ClaimNothing, Purge, Erased, threads, TypeOK
<1>4. ASSUME NEW w \in Workers, RunOnce(w) PROVE SavedFirst'
  <2> USE DEF TypeOK, Step, Threads
  <2>1. ASSUME NEW v \in Verdicts, Compute(w, v) PROVE SavedFirst'
    BY <2>1, SMT DEF Compute
  <2>2. CASE CannotRun(w) \/ Refuse(w) \/ SendRefused(w) \/ StoreRaises(w)
    BY <2>2, SMT DEF CannotRun, Refuse, SendRefused, StoreRaises
  <2>3. CASE Post(w)
    <3>1. server = "serving"
      BY <2>3, SMT DEF IInv, Quiet, Post
    <3> QED
      BY <2>3, <3>1, SMT DEF Post, WorkerShape, WorkerOK
  <2>4. CASE GiveUp(w)
    BY <2>4, SMT DEF GiveUp, WorkerShape, WorkerOK
  <2>5. CASE SendAcked(w)
    BY <2>5, SMT DEF SendAcked
  <2>6. ASSUME NEW reached \in BOOLEAN, SendLost(w, reached) PROVE SavedFirst'
    BY <2>6, SMT DEF SendLost
  <2>7. CASE Finish(w) \/ Retry(w) \/ RetryRaises(w)
    BY <2>7, SMT DEF Finish, Retry, RetryRaises, GoIdle, rows
  <2> QED
    BY <1>4, <2>1, <2>2, <2>3, <2>4, <2>5, <2>6, <2>7 DEF RunOnce, Deliver
<1>5. CASE Close
  BY <1>5 DEF Close
<1>6. CASE Crash \/ Restart
  BY <1>6, SMT DEF Crash, Restart, rows, threads
<1>7. ASSUME NEW j \in Jobs, BackoffOver(j) \/ Age(j) PROVE SavedFirst'
  BY <1>7, SMT DEF BackoffOver, Age, threads
<1>8. CASE UNCHANGED vars
  BY <1>8, SMT DEF vars, rows, threads
<1> QED
  BY <1>1, <1>2, <1>3, <1>4, <1>5, <1>6, <1>7, <1>8 DEF Next, ClaimAny

\* Without close() the backend never hears two different answers.
THEOREM OneAnswerTold ==
  ASSUME GracefulClose = FALSE
  PROVE  Spec => [](OutboxBeforeWire /\ SavedFirst)
<1>1. Init => SavedFirst
  BY SMT DEF Init, SavedFirst, OutboxBeforeWire
<1>2. TypeOK' /\ IInv /\ SavedFirst /\ [Next]_vars => SavedFirst'
  BY SavedFirstStep
<1>3. SavedFirst => OutboxBeforeWire
  BY DEF SavedFirst
<1> QED
  BY <1>1, <1>2, <1>3, Invariance, TypeCorrectness, PTL DEF Spec

-----------------------------------------------------------------------------
(***************************************************************************)
(* The refinement of CallbackOutbox.                                       *)
(***************************************************************************)
OutboxPhase == [j \in Jobs |-> Phase(j)]
OutboxWanted == [j \in Jobs |-> url[j] # "none"]

\* A step that changes no answer, no history and no phase is a stutter.
LEMMA StutterStep ==
  ASSUME UNCHANGED <<callback, url, heard>>, \A j \in Jobs : Phase(j)' = Phase(j)
  PROVE  UNCHANGED Outbox!vars
<1>1. OutboxPhase' = OutboxPhase /\ OutboxWanted' = OutboxWanted
  BY DEF OutboxPhase, OutboxWanted
<1> QED
  BY <1>1 DEF Outbox!vars, OutboxPhase, OutboxWanted

\* A step that changes the phase of one job.
LEMMA PhaseOfOne ==
  ASSUME NEW h \in Jobs, \A k \in Jobs \ {h} : Phase(k)' = Phase(k)
  PROVE  /\ OutboxPhase[h] = Phase(h)
         /\ OutboxPhase' = [OutboxPhase EXCEPT ![h] = Phase(h)']
  BY Zenon DEF OutboxPhase

\* The purge a claim makes is Forget, when it finds anything to delete.
LEMMA PurgeIsForget ==
  ASSUME TypeOK, NEW old \in SUBSET Jobs, Purge(old),
         \A j \in old : Phase(j)' = "absent", \A j \in Jobs \ old : Phase(j)' = Phase(j)
  PROVE  [Outbox!Next]_(Outbox!vars)
<1>1. CASE old = {}
  <2>1. UNCHANGED <<callback, url, heard>>
    BY <1>1, SMT DEF Purge, Erased, TypeOK
  <2> QED
    BY <1>1, <2>1, StutterStep
<1>2. CASE old # {}
  <2>1. \A j \in old : OutboxPhase[j] = "settled"
    BY SMT DEF Purge, Phase, OutboxPhase
  <2>2. OutboxPhase' = [j \in Jobs |-> IF j \in old THEN "absent" ELSE OutboxPhase[j]]
    BY DEF OutboxPhase
  <2>3. /\ callback' = [j \in Jobs |-> IF j \in old THEN NoAnswer ELSE callback[j]]
        /\ heard' = [j \in Jobs |-> IF j \in old THEN {} ELSE heard[j]]
        /\ url' = [j \in Jobs |-> IF j \in old THEN "none" ELSE url[j]]
    BY DEF Purge, Erased
  <2>4. OutboxWanted' = [j \in Jobs |-> IF j \in old THEN FALSE ELSE OutboxWanted[j]]
    <3>1. \A j \in Jobs : (url'[j] # "none") = (IF j \in old THEN FALSE ELSE url[j] # "none")
      <4> SUFFICES ASSUME NEW j \in Jobs
                   PROVE  (url'[j] # "none") = (IF j \in old THEN FALSE ELSE url[j] # "none")
        OBVIOUS
      <4>1. url'[j] = IF j \in old THEN "none" ELSE url[j]
        BY <2>3
      <4>2. CASE j \in old
        BY <4>1, <4>2, Zenon
      <4>3. CASE j \notin old
        BY <4>1, <4>3, Zenon
      <4> QED
        BY <4>2, <4>3
    <3>2. \A j \in Jobs : OutboxWanted[j] = (url[j] # "none")
      BY DEF OutboxWanted
    <3> QED
      BY <3>1, <3>2, Zenon DEF OutboxWanted
  <2>5. Outbox!Forget(old)
    BY <1>2, <2>1, <2>2, <2>3, <2>4 DEF Outbox!Forget, OutboxPhase, OutboxWanted
  <2> QED
    BY <2>5 DEF Outbox!Next
<1> QED
  BY <1>1, <1>2

\* Saving an answer in a running row is Decide.
LEMMA SaveIsDecide ==
  ASSUME TypeOK, NEW h \in Jobs, NEW v \in Verdicts, state[h] = "running",
         callback[h] = NoAnswer, callback' = [callback EXCEPT ![h] = v],
         UNCHANGED <<state, url, heard>>
  PROVE  [Outbox!Next]_(Outbox!vars)
<1>1. OutboxPhase[h] = "pending" /\ OutboxPhase' = [OutboxPhase EXCEPT ![h] = "decided"]
  <2>1. Phase(h) = "pending" /\ Phase(h)' = "decided"
    BY SMT DEF Phase, TypeOK, Verdicts, NoAnswer
  <2>2. \A k \in Jobs \ {h} : Phase(k)' = Phase(k)
    BY SMT DEF Phase, TypeOK
  <2> QED
    BY <2>1, <2>2, PhaseOfOne
<1>2. OutboxWanted' = OutboxWanted
  BY DEF OutboxWanted
<1>3. Outbox!Decide(h, v)
  BY <1>1, <1>2 DEF Outbox!Decide, OutboxPhase, OutboxWanted
<1> QED
  BY <1>3 DEF Outbox!Next

\* The backend receiving the answer of a running row is Tell.
LEMMA HearIsTell ==
  ASSUME TypeOK, NEW h \in Jobs, state[h] = "running", url[h] = "ok",
         callback[h] # NoAnswer, heard' = [heard EXCEPT ![h] = @ \union {callback[h]}],
         UNCHANGED <<state, url, callback>>
  PROVE  [Outbox!Next]_(Outbox!vars)
<1>1. OutboxPhase[h] = "decided" /\ OutboxPhase' = OutboxPhase
  BY SMT DEF OutboxPhase, Phase
<1>2. OutboxWanted[h] /\ OutboxWanted' = OutboxWanted
  BY DEF OutboxWanted
<1>3. Outbox!Tell(h)
  BY <1>1, <1>2 DEF Outbox!Tell, OutboxPhase, OutboxWanted
<1> QED
  BY <1>3 DEF Outbox!Next

\* Marking a running row done is Settle.
LEMMA FinishIsSettle ==
  ASSUME TypeOK, NEW h \in Jobs, state[h] = "running",
         url[h] # "none" => callback[h] \in heard[h],
         state' = [state EXCEPT ![h] = "done"], UNCHANGED <<url, callback, heard>>
  PROVE  [Outbox!Next]_(Outbox!vars)
<1>1. /\ OutboxPhase[h] \in {"pending", "decided"}
      /\ OutboxPhase' = [OutboxPhase EXCEPT ![h] = "settled"]
  <2>1. Phase(h) \in {"pending", "decided"} /\ Phase(h)' = "settled"
    BY SMT DEF Phase, TypeOK
  <2>2. \A k \in Jobs \ {h} : Phase(k)' = Phase(k)
    BY SMT DEF Phase, TypeOK
  <2> QED
    BY <2>1, <2>2, PhaseOfOne
<1>2. OutboxWanted' = OutboxWanted /\ (OutboxWanted[h] => callback[h] \in heard[h])
  BY DEF OutboxWanted
<1>3. Outbox!Settle(h)
  BY <1>1, <1>2 DEF Outbox!Settle, OutboxPhase, OutboxWanted
<1> QED
  BY <1>3 DEF Outbox!Next

\* Every step of the queue is a step of the outbox or a stutter.
LEMMA RefinementStep ==
  ASSUME GracefulClose = FALSE, IInv, TypeOK', SavedFirst, [Next]_vars
  PROVE  [Outbox!Next]_(Outbox!vars)
<1> DEFINE Goal == [Outbox!Next]_(Outbox!vars)
<1>0. TypeOK /\ ClaimExclusive /\ WorkerShape /\ RowShape /\ Quiet
  BY DEF IInv
<1> USE <1>0
<1>h. \A w \in Workers : pc[w] # "idle" => held[w] \in Jobs /\ state[held[w]] = "running"
  BY DEF ClaimExclusive, Busy
<1>s. ASSUME UNCHANGED <<callback, url, heard, state>> PROVE Goal
  BY <1>s, StutterStep DEF Phase
<1>1. ASSUME NEW j \in Jobs, NEW u \in Urls, Enqueue(j, u) PROVE Goal
  <2>1. CASE EnqueueAgain(j)
    BY <1>1, <2>1, <1>s DEF Enqueue, EnqueueAgain, rows
  <2>2. CASE Insert(j, u)
    <3>1. callback[j] = NoAnswer
      BY <2>2 DEF RowShape, RowOK, Insert
    <3>2. /\ OutboxPhase' = [OutboxPhase EXCEPT ![j] = "pending"]
          /\ OutboxPhase[j] = "absent"
      <4>1. Phase(j) = "absent" /\ Phase(j)' = "pending"
        BY <2>2, <3>1, SMT DEF Insert, Phase, TypeOK
      <4>2. \A k \in Jobs \ {j} : Phase(k)' = Phase(k)
        BY <2>2, SMT DEF Insert, Phase, TypeOK
      <4> QED
        BY <4>1, <4>2, PhaseOfOne
    <3>3. OutboxWanted' = [OutboxWanted EXCEPT ![j] = (u # "none")]
      <4>1. url' = [url EXCEPT ![j] = u]
        BY <2>2 DEF Insert
      <4> QED
        BY <4>1, Zenon DEF OutboxWanted, TypeOK
    <3>4. UNCHANGED <<callback, heard>>
      BY <1>1, <2>2 DEF Enqueue, Insert
    <3>5. Outbox!Accept(j, u # "none")
      BY <3>2, <3>3, <3>4 DEF Outbox!Accept, OutboxPhase, OutboxWanted
    <3> QED
      BY <3>5, (u # "none") \in BOOLEAN, Zenon DEF Outbox!Next
  <2> QED
    BY <1>1, <2>1, <2>2 DEF Enqueue
<1>2. ASSUME NEW w \in Workers, NEW j \in Jobs, NEW old \in SUBSET Jobs, Claim(w, j, old)
      PROVE  Goal
  <2>1. Purge(old) /\ j \notin old /\ state[j] \in {"queued", "callback"}
    BY <1>2, SMT DEF Claim, Purge, Oldest, Claimable
  <2>2. \A k \in Jobs : state'[k] = IF k \in old THEN "absent"
                                    ELSE IF k = j THEN "running" ELSE state[k]
    BY <1>2, <2>1, SMT DEF Claim, Erased, TypeOK
  <2>3. \A k \in Jobs \ old : callback'[k] = callback[k]
    BY <2>1, SMT DEF Purge, Erased
  <2> QED
    BY <2>1, <2>2, <2>3, PurgeIsForget, SMT DEF Phase
<1>3. ASSUME NEW w \in Workers, NEW old \in SUBSET Jobs, ClaimNothing(w, old)
      PROVE  Goal
  <2>1. Purge(old)
    BY <1>3 DEF ClaimNothing
  <2>2. \A k \in Jobs : state'[k] = IF k \in old THEN "absent" ELSE state[k]
    BY <1>3, SMT DEF ClaimNothing, Erased, TypeOK
  <2>3. \A k \in Jobs \ old : callback'[k] = callback[k]
    BY <2>1, SMT DEF Purge, Erased
  <2> QED
    BY <2>1, <2>2, <2>3, PurgeIsForget, SMT DEF Phase
<1>4. ASSUME NEW w \in Workers, RunOnce(w) PROVE Goal
  <2>1. CASE Post(w) \/ GiveUp(w)
    <3>1. PICK h \in Jobs : h = held[w] /\ state[h] = "running" /\ callback[h] = NoAnswer
      BY <1>h, <2>1, SMT DEF Post, GiveUp, Step, WorkerShape, WorkerOK
    <3>2. verdict[w] \in Verdicts
      BY <2>1, SMT DEF Post, GiveUp, Step, WorkerShape, WorkerOK
    <3>3. server = "serving"
      BY <2>1, SMT DEF Post, GiveUp, Step, Quiet, Busy, SavedFirst, TypeOK
    <3>4. /\ callback' = [callback EXCEPT ![h] = verdict[w]]
          /\ UNCHANGED <<state, url, heard>>
      BY <2>1, <3>1, <3>3, SMT DEF Post, GiveUp, Threads
    <3> QED
      BY <3>1, <3>2, <3>4, SaveIsDecide
  <2>2. ASSUME SendAcked(w) \/ (\E reached \in BOOLEAN : SendLost(w, reached)) PROVE Goal
    <3>1. PICK h \in Jobs : h = held[w] /\ state[h] = "running"
      BY <1>h, <2>2, SMT DEF SendAcked, SendLost, Step
    <3>2. /\ url[h] = "ok" /\ callback[h] = verdict[w] /\ verdict[w] \in Verdicts
          /\ UNCHANGED <<state, url, callback>>
      BY <2>2, <3>1, SMT DEF SendAcked, SendLost, Step, Threads, SavedFirst,
          WorkerShape, WorkerOK
    <3>3. \/ heard' = [heard EXCEPT ![h] = @ \union {callback[h]}]
          \/ heard' = heard
      BY <2>2, <3>1, <3>2, SMT DEF SendAcked, SendLost, TypeOK
    <3>4. callback[h] # NoAnswer
      BY <3>2 DEF Verdicts, NoAnswer
    <3> QED
      BY <3>1, <3>2, <3>3, <3>4, <1>s, HearIsTell
  <2>3. CASE Finish(w)
    <3>1. PICK h \in Jobs : h = held[w] /\ state[h] = "running"
      BY <1>h, <2>3, SMT DEF Finish
    <3>2. url[h] # "none" => heard[h] # {}
      BY <2>3, <3>1, SMT DEF Finish, WorkerShape, WorkerOK
    <3>3. heard[h] \subseteq {callback[h]}
      BY DEF SavedFirst, OutboxBeforeWire
    <3>4. state' = [state EXCEPT ![h] = "done"] /\ UNCHANGED <<url, callback, heard>>
      BY <2>3, <3>1 DEF Finish
    <3> QED
      BY <3>1, <3>2, <3>3, <3>4, FinishIsSettle
  <2>4. CASE Retry(w)
    <3>1. PICK h \in Jobs : h = held[w] /\ state[h] = "running"
      BY <1>h, <2>4, SMT DEF Retry
    <3>2. state' = [state EXCEPT ![h] = PutBack(h)] /\ UNCHANGED <<url, callback, heard>>
      BY <2>4, <3>1 DEF Retry
    <3>3. \A k \in Jobs : Phase(k)' = Phase(k)
      BY <3>1, <3>2, SMT DEF Phase, PutBack, TypeOK
    <3> QED
      BY <3>2, <3>3, StutterStep
  <2>5. CASE UNCHANGED <<callback, url, heard, state>>
    BY <2>5, <1>s
  <2> QED
    BY <1>4, <2>1, <2>2, <2>3, <2>4, <2>5 DEF RunOnce, Deliver, Compute, CannotRun, Refuse,
        SendRefused, StoreRaises, RetryRaises, Threads, rows
<1>5. CASE Restart
  <2>1. \A k \in Jobs : Phase(k)' = Phase(k)
    BY <1>5, SMT DEF Restart, Phase, PutBack
  <2> QED
    BY <1>5, <2>1, StutterStep DEF Restart
<1>6. CASE Close \/ Crash
  BY <1>6, <1>s DEF Close, Crash, rows
<1>7. ASSUME NEW j \in Jobs, BackoffOver(j) \/ Age(j) PROVE Goal
  BY <1>7, <1>s DEF BackoffOver, Age
<1>8. CASE UNCHANGED vars
  BY <1>8, <1>s DEF vars, rows
<1> QED
  BY <1>1, <1>2, <1>3, <1>4, <1>5, <1>6, <1>7, <1>8 DEF Next, ClaimAny

\* Unless it is closed in order, the queue implements CallbackOutbox.
THEOREM QueueImplementsOutbox ==
  ASSUME GracefulClose = FALSE
  PROVE  Spec => ImplementsOutbox
<1>1. Init => Outbox!Init
  <2> SUFFICES ASSUME Init PROVE Outbox!Init
    OBVIOUS
  <2>1. \A j \in Jobs : Phase(j) = "absent"
    BY SMT DEF Init, Phase
  <2>2. [j \in Jobs |-> url[j] # "none"] = [j \in Jobs |-> FALSE]
    BY Zenon DEF Init
  <2> QED
    BY <2>1, <2>2 DEF Init, Outbox!Init
<1>2. IInv /\ TypeOK' /\ SavedFirst /\ [Next]_vars => [Outbox!Next]_(Outbox!vars)
  BY RefinementStep
<1> QED
  BY <1>1, <1>2, Invariance, TypeCorrectness, OneAnswerTold, PTL
     DEF Spec, ImplementsOutbox, Outbox!Spec
=============================================================================
