------------------------------ MODULE Approval ------------------------------
(****************************************************************************)
(* backend/internal/platform/approval/store.go over the members and roles   *)
(* of Team.tla: approval chains, and the approval of one bid document whose *)
(* contents BidReview.tla models (here it is ready for approval or not).    *)
(*                                                                          *)
(* Approve and Reject lock the instance first and are one step each.  Two   *)
(* requests SubmitBid at the same time are in BidReview.tla.                *)
(****************************************************************************)
EXTENDS Team, SequencesExt

CONSTANTS StepLists,  \* the lists of steps requests give a chain
          MaxChains,  \* bound: chains there are at a time
          MaxShifts,  \* bound: changes of members and roles, and logouts
          MaxEdits,   \* bound: chains created, updated and deleted
          MaxSubmits  \* bound: submissions

\* actor: the user of the step or, if it names none, its role_code.
Step == [actor : Users \union Roles, required : BOOLEAN]

ASSUME StepsAssumption == StepLists \subseteq Seq(Step) /\ <<>> \notin StepLists
ASSUME ApprovalBoundsAssumption ==
    {MaxShifts, MaxChains, MaxEdits, MaxSubmits} \subseteq Nat

VARIABLES
    chains,    \* approval_chains, in the order of their updated_at
    instance,  \* the last of the approval_instances, with its approval_actions
    status,    \* bid_documents.status
    ready,     \* what requireBidReady finds
    edits,
    submits

approvalVars == <<chains, instance, status, ready, edits, submits, teamVars>>

Everyone   == "everyone"
Chain      == [steps : StepLists, enabled : BOOLEAN]
NoInstance == [status |-> "none"]

\* held is history: the roles the actor had as an active member.
Entry == [step : Nat, by : Users, held : SUBSET Roles]

ApprovalTypeOK ==
    /\ TeamTypeOK
    /\ chains \in Seq(Chain) /\ Len(chains) <= MaxChains
    /\ instance # NoInstance =>
          /\ instance.status \in {"pending", "approved", "rejected"}
          /\ instance.snapshot \in Seq(Step)
          /\ instance.step \in 1..Len(instance.snapshot)
          /\ instance.entries \in Seq(Entry)
          /\ instance.told \in (SUBSET (Users \union {Everyone})) \ {{}}
    /\ status \in {"editing", "in_review", "approved"}
    /\ ready \in BOOLEAN
    /\ edits \in 0..MaxEdits /\ submits \in 0..MaxSubmits

-----------------------------------------------------------------------------
SignedIn(u) == \E t \in tokens : t.user = u /\ Admits(t)
Held(u)     == IF Active(u) THEN member[u].roles ELSE {}

\* activeSteps: the required ones in their order, all of them if none is required
ActiveSteps(steps) ==
    LET required == {i \in DOMAIN steps : steps[i].required}
        active   == IF required = {} THEN DOMAIN steps ELSE required
        Place(n) == CHOOSE i \in active : Cardinality({j \in active : j <= i}) = n
    IN  [n \in 1..Cardinality(active) |-> steps[Place(n)]]

\* validateChainStepActors
ActorsExist(steps) ==
    \A i \in DOMAIN steps : IF steps[i].actor \in Users THEN Active(steps[i].actor)
                                                        ELSE steps[i].actor \in DOMAIN level

\* Mutant: for a role any active member will do.
AnyMember(u, step) == IF step.actor \in Users THEN u = step.actor ELSE Active(u)

\* ensureStepActor
MayDecide(u, step) == IF step.actor \in Users THEN u = step.actor ELSE step.actor \in Held(u)

\* notifyUsersForStep: nobody has the role, everybody is told.
Told(step) ==
    LET users == IF step.actor \in Users THEN {step.actor}
                 ELSE {u \in DOMAIN member : step.actor \in Held(u)}
    IN  IF users = {} THEN {Everyone} ELSE users

-----------------------------------------------------------------------------
\* CreateChain
CreateChain(steps, enabled) ==
    /\ TeamRequest /\ edits < MaxEdits /\ Len(chains) < MaxChains
    /\ ActorsExist(steps)
    /\ chains' = Append(chains, [steps |-> steps, enabled |-> enabled])
    /\ edits' = edits + 1
    /\ UNCHANGED <<instance, status, ready, submits, teamVars>>

\* UpdateChain makes the chain the last updated one.
UpdateChain(i, steps, enabled) ==
    /\ TeamRequest /\ edits < MaxEdits
    /\ i \in DOMAIN chains
    /\ ActorsExist(steps)
    /\ chains' = Append(RemoveAt(chains, i), [steps |-> steps, enabled |-> enabled])
    /\ edits' = edits + 1
    /\ UNCHANGED <<instance, status, ready, submits, teamVars>>

\* DeleteChain: instances of the chain lose its id only.
DeleteChain(i) ==
    /\ TeamRequest /\ edits < MaxEdits
    /\ i \in DOMAIN chains
    /\ chains' = RemoveAt(chains, i)
    /\ edits' = edits + 1
    /\ UNCHANGED <<instance, status, ready, submits, teamVars>>

Enabled == {i \in DOMAIN chains : chains[i].enabled}

\* SubmitBid with activeBidChain: the enabled chain updated last
SubmitBid(u) ==
    /\ SignedIn(u) /\ submits < MaxSubmits
    /\ ready /\ instance.status # "pending"
    /\ Enabled # {}
    /\ LET steps == ActiveSteps(chains[Max(Enabled)].steps)
       IN  instance' = [status |-> "pending", step |-> 1, snapshot |-> steps, entries |-> <<>>,
                        told |-> Told(steps[1])]
    /\ status' = "in_review"
    /\ submits' = submits + 1
    /\ UNCHANGED <<chains, ready, edits, teamVars>>

\* The route asks for the level read of the module "team".
Decides(u) ==
    /\ SignedIn(u) /\ LevelOf(u) >= Read
    /\ instance.status = "pending"
    /\ MayDecide(u, ActiveSteps(instance.snapshot)[instance.step])

Logged(u) ==
    [instance EXCEPT !.entries = Append(@, [step |-> instance.step, by |-> u, held |-> Held(u)])]

\* Approve; the submitter is told of the end.
Approve(u) ==
    /\ Decides(u) /\ ready
    /\ LET steps == ActiveSteps(instance.snapshot) IN
       IF instance.step >= Len(steps)
       THEN /\ instance' = [Logged(u) EXCEPT !.status = "approved"]
            /\ status' = "approved"
       ELSE /\ instance' = [Logged(u) EXCEPT !.step = @ + 1, !.told = Told(steps[instance.step + 1])]
            /\ UNCHANGED status
    /\ UNCHANGED <<chains, ready, edits, submits, teamVars>>

\* Reject
Reject(u) ==
    /\ Decides(u)
    /\ instance' = [Logged(u) EXCEPT !.status = "rejected"]
    /\ status' = "editing"
    /\ UNCHANGED <<chains, ready, edits, submits, teamVars>>

\* Chapters, gates and facts change in BidReview.tla.
ContentsChange ==
    /\ ready' = ~ready
    /\ UNCHANGED <<chains, instance, status, edits, submits, teamVars>>

-----------------------------------------------------------------------------
ApprovalInit ==
    /\ TeamInit
    /\ chains = <<>> /\ instance = NoInstance
    /\ status = "editing" /\ ready = FALSE
    /\ edits = 0 /\ submits = 0

ChainStep ==
    \/ \E steps \in StepLists, enabled \in BOOLEAN : CreateChain(steps, enabled)
    \/ \E i \in 1..MaxChains, steps \in StepLists, enabled \in BOOLEAN : UpdateChain(i, steps, enabled)
    \/ \E i \in 1..MaxChains : DeleteChain(i)

DecisionStep ==
    \/ \E u \in Users : SubmitBid(u) \/ Approve(u) \/ Reject(u)
    \/ ContentsChange

\* The requests of Team.tla, here with one request and one token at a time.
TeamStep ==
    /\ TeamNext
    /\ changes' + (clock' - 1) <= MaxShifts
    /\ Cardinality({s \in Servers : serving'[s] # Free}) <= 1
    /\ Cardinality(tokens') <= 1
    /\ UNCHANGED <<chains, instance, status, ready, edits, submits>>

ApprovalNext ==
    \/ ChainStep \/ DecisionStep
    \/ TeamStep

ApprovalSpec == ApprovalInit /\ [][ApprovalNext]_approvalVars

-----------------------------------------------------------------------------
\* An approved bid was approved step by step, in order, by the steps of the
\* chain as it was when the bid was submitted: by the user of a step, or by one
\* who had the role of the step when he decided, whatever was done to chains,
\* members and roles in between.
ApprovedByEveryStep ==
    instance.status = "approved" =>
        /\ Len(instance.entries) = Len(instance.snapshot)
        /\ \A i \in DOMAIN instance.snapshot :
              LET step == instance.snapshot[i]  entry == instance.entries[i] IN
              /\ entry.step = i
              /\ entry.by = step.actor \/ step.actor \in entry.held

=============================================================================
