---------------------------- MODULE MCBidReview ----------------------------
(* An instance of BidReview for TLC. *)
EXTENDS BidReview

\* Bounds: what two tasks do to each other is looked at where nobody submits for
\* approval, what one task and two approvals do where there is no second task.
\* Two regenerations whose submissions succeed meet one approval: an approved text
\* can then be replaced by another that has its own audit.
FewTasks        == task[MaxTasks] = NoTask
NoApproval      == \A i \in Instances : instance[i] = NoInstance
TwoRegenerated  == /\ instance[MaxInstances] = NoInstance
                   /\ \A t \in Tasks : task[t].kind = "text" /\ task[t].status # "refused"

MCNext == Next /\ (FewTasks \/ NoApproval \/ TwoRegenerated)'
MCSpec == Init /\ [][MCNext]_vars
=============================================================================
