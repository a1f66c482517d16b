--------------------------- MODULE CallbackOutbox ---------------------------
(***************************************************************************)
(* What the AI service promises the backend about one accepted task: it    *)
(* settles on one answer, tells that answer and no other, as often as it   *)
(* likes, and forgets the task only after the answer was heard.            *)
(*                                                                         *)
(* This is the abstract side of DurableQueue.tla, whose workers, restarts  *)
(* and retries are invisible here, and the service the backend modules     *)
(* are composed with.                                                      *)
(***************************************************************************)
EXTENDS FiniteSets

CONSTANTS Jobs,       \* task ids
          Verdicts,   \* what a terminal callback may say
          NoAnswer    \* not a verdict: nothing decided yet

VARIABLES phase,      \* phase[j]: how far task j has come
          answer,     \* answer[j]: the verdict decided for j
          wanted,     \* wanted[j]: somebody asked to be told
          heard       \* heard[j]: verdicts the backend has received for j

vars == <<phase, answer, wanted, heard>>

Phases == {"absent", "pending", "decided", "settled"}

TypeOK ==
    /\ phase \in [Jobs -> Phases]
    /\ answer \in [Jobs -> Verdicts \union {NoAnswer}]
    /\ wanted \in [Jobs -> BOOLEAN]
    /\ heard \in [Jobs -> SUBSET Verdicts]

Init ==
    /\ phase = [j \in Jobs |-> "absent"]
    /\ answer = [j \in Jobs |-> NoAnswer]
    /\ wanted = [j \in Jobs |-> FALSE]
    /\ heard = [j \in Jobs |-> {}]

Accept(j, w) ==
    /\ phase[j] = "absent"
    /\ phase' = [phase EXCEPT ![j] = "pending"]
    /\ wanted' = [wanted EXCEPT ![j] = w]
    /\ UNCHANGED <<answer, heard>>

Decide(j, v) ==
    /\ phase[j] = "pending"
    /\ phase' = [phase EXCEPT ![j] = "decided"]
    /\ answer' = [answer EXCEPT ![j] = v]
    /\ UNCHANGED <<wanted, heard>>

Tell(j) ==
    /\ phase[j] = "decided"
    /\ wanted[j]
    /\ heard' = [heard EXCEPT ![j] = @ \union {answer[j]}]
    /\ UNCHANGED <<phase, answer, wanted>>

\* A task nobody listens to is settled without a word, decided or not.
Settle(j) ==
    /\ phase[j] \in {"pending", "decided"}
    /\ wanted[j] => answer[j] \in heard[j]
    /\ phase' = [phase EXCEPT ![j] = "settled"]
    /\ UNCHANGED <<answer, wanted, heard>>

\* Settled tasks may be purged several at a time.
Forget(old) ==
    /\ old # {}
    /\ \A j \in old : phase[j] = "settled"
    /\ phase' = [j \in Jobs |-> IF j \in old THEN "absent" ELSE phase[j]]
    /\ answer' = [j \in Jobs |-> IF j \in old THEN NoAnswer ELSE answer[j]]
    /\ wanted' = [j \in Jobs |-> IF j \in old THEN FALSE ELSE wanted[j]]
    /\ heard' = [j \in Jobs |-> IF j \in old THEN {} ELSE heard[j]]

Next ==
    \/ \E j \in Jobs, w \in BOOLEAN : Accept(j, w)
    \/ \E j \in Jobs, v \in Verdicts : Decide(j, v)
    \/ \E j \in Jobs : Tell(j) \/ Settle(j)
    \/ \E old \in SUBSET Jobs : Forget(old)

Spec == Init /\ [][Next]_vars
=============================================================================
