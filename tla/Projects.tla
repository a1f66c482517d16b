------------------------------ MODULE Projects ------------------------------
(***************************************************************************)
(* backend/internal/platform/project/store.go and cost/store.go, and the   *)
(* project that tender/store.go makes of a tender: one project with its    *)
(* members and milestones, its cost project, and the AI tasks that give    *)
(* advice on the costs.                                                    *)
(*                                                                         *)
(* Update and Transition read the status without a lock and write status   *)
(* and result in one statement later; CreateCostProject and                *)
(* DeleteProjectMember also check before they write.  Each is two steps,   *)
(* with what was read in asking[a].                                        *)
(***************************************************************************)
EXTENDS Naturals, FiniteSets

CONSTANTS Staff,      \* active members of the tenant
          Milestones, \* ids of milestones
          Clients,    \* requests served at a time
          MaxMoves,   \* bound: requests
          MaxAdvice   \* bound: tasks for advice

ASSUME ProjectBoundsAssumption == MaxMoves \in Nat /\ MaxAdvice \in Nat

Stages  == {"opportunity", "bidding", "compliance_review", "submitted", "closed"}
Ends    == {"pending", "won", "lost"}
Advices == 1..MaxAdvice

VARIABLES
    project,   \* the row of projects
    owners, others, \* project_members by role; others are member or viewer
    milestone, \* milestones, with whether completed_at is set
    linked,    \* whether a bid document has the id of the project
    cost,      \* the row of cost_projects: the task of its last_ai_advice
    advice,    \* ai_tasks of the cost project; queued and running are open
    asking,    \* asking[a]: what a request has read and will write
    excused,   \* history: the project was made without an owner, an owner was
               \* made something else, or two removals overlapped
    moves

projectVars == <<project, owners, others, milestone, linked, cost, advice, asking, excused, moves>>

Gone    == [status |-> "gone"]  \* not there yet, or deleted
Project == [status : Stages, result : Ends \union {"none"}]
NoCost  == [row |-> FALSE, last |-> 0]
Cost    == [row : {TRUE}, last : Advices \union {0}]
Quiet   == [kind |-> "quiet"]
Asking  == [kind : {"write"}, status : Stages, result : Ends \union {"none"}]
           \union [kind : {"remove"}, user : Staff]
           \union [kind : {"cost"}]

ProjectTypeOK ==
    /\ project \in Project \union {Gone}
    /\ owners \subseteq Staff /\ others \subseteq Staff /\ owners \intersect others = {}
    /\ milestone \in [Milestones -> [status : {"absent", "pending", "done"}, completed : BOOLEAN]]
    /\ linked \in BOOLEAN /\ excused \in BOOLEAN
    /\ cost \in Cost \union {NoCost}
    /\ advice \in [Advices -> [status : {"absent", "open", "done", "failed"}, sending : BOOLEAN, taken : BOOLEAN]]
    /\ asking \in [Clients -> Asking \union {Quiet}]
    /\ moves \in 0..MaxMoves

-----------------------------------------------------------------------------
Exists   == project # Gone
NoStone  == [status |-> "absent", completed |-> FALSE]
NoAdvice == [status |-> "absent", sending |-> FALSE, taken |-> FALSE]
Removing == {a \in Clients : asking[a].kind = "remove"}

Counts == moves < MaxMoves /\ moves' = moves + 1

\* allowedTransition
allowedTransition(current, target) ==
    \/ current = target
    \/ target = "closed"
    \/ <<current, target>> \in {<<"opportunity", "bidding">>, <<"bidding", "compliance_review">>,
                               <<"compliance_review", "submitted">>}

\* normalizeResultPointer and normalizeResultValue; "none" is a NULL, and a
\* request without a result gives "pending"
ResultFor(status, requested) == IF status = "closed" THEN requested ELSE "none"

\* The request of a has ended.
Done(a) == asking' = [asking EXCEPT ![a] = Quiet]

-----------------------------------------------------------------------------
\* Create: the creator owns the project.  It is made once, and deleted for good.
Create(u, status, requested) ==
    /\ ~Exists /\ moves = 0 /\ Counts
    /\ project' = [status |-> status, result |-> ResultFor(status, requested)]
    /\ owners' = {u}
    /\ UNCHANGED <<others, milestone, linked, cost, advice, asking, excused>>

\* tender CreateProject: nobody owns it
CreateFromTender ==
    /\ ~Exists /\ moves = 0 /\ Counts
    /\ project' = [status |-> "opportunity", result |-> "none"]
    /\ excused' = TRUE
    /\ UNCHANGED <<owners, others, milestone, linked, cost, advice, asking>>

\* Delete, with the rows that are deleted with it
Delete ==
    /\ Exists
    /\ project' = Gone /\ cost' = NoCost /\ linked' = FALSE
    /\ owners' = {} /\ others' = {}
    /\ milestone' = [m \in Milestones |-> NoStone]
    /\ UNCHANGED <<advice, asking, excused, moves>>

\* Update reads; without a result in the request a closed project keeps its own.
Update(a, target, requested) ==
    /\ asking[a] = Quiet /\ Exists /\ Counts
    /\ allowedTransition(project.status, target)
    /\ asking' = [asking EXCEPT ![a] = [kind |-> "write", status |-> target,
          result |-> ResultFor(target, IF requested = "none" THEN project.result ELSE requested)]]
    /\ UNCHANGED <<project, owners, others, milestone, linked, cost, advice, excused>>

\* Transition reads
Transition(a, target, requested) ==
    /\ asking[a] = Quiet /\ Exists /\ Counts
    /\ allowedTransition(project.status, target)
    /\ asking' = [asking EXCEPT ![a] =
          [kind |-> "write", status |-> target, result |-> ResultFor(target, requested)]]
    /\ UNCHANGED <<project, owners, others, milestone, linked, cost, advice, excused>>

\* The update of Update and Transition, which finds no row after Delete.
WriteProject(a) ==
    /\ asking[a].kind = "write"
    /\ project' = IF Exists THEN [status |-> asking[a].status, result |-> asking[a].result] ELSE Gone
    /\ Done(a)
    /\ UNCHANGED <<owners, others, milestone, linked, cost, advice, excused, moves>>

\* bid/store.go CreateDocument, of a bid for the project
LinkBid ==
    /\ Exists /\ Counts
    /\ linked' = TRUE
    /\ UNCHANGED <<project, owners, others, milestone, cost, advice, asking, excused>>

-----------------------------------------------------------------------------
\* AddMember gives a role, also to one who has another, if no removal of him is open.
AddMember(u, owner) ==
    /\ Exists /\ Counts
    /\ \A a \in Removing : asking[a].user # u
    /\ owners' = IF owner THEN owners \union {u} ELSE owners \ {u}
    /\ others' = IF owner THEN others \ {u} ELSE others \union {u}
    /\ excused' = (excused \/ (u \in owners /\ ~owner))
    /\ UNCHANGED <<project, milestone, linked, cost, advice, asking>>

\* Mutant: the owner who leaves is counted with the others.
CountsHimself(a, u) ==
    /\ asking[a] = Quiet /\ Exists /\ Counts
    /\ u \in owners \union others /\ \A b \in Removing : asking[b].user # u
    /\ u \in owners => owners # {}
    /\ asking' = [asking EXCEPT ![a] = [kind |-> "remove", user |-> u]]
    /\ excused' = (excused \/ Removing # {})
    /\ UNCHANGED <<project, owners, others, milestone, linked, cost, advice>>

\* DeleteProjectMember locks the row of u and counts the other owners.
DeleteProjectMember(a, u) ==
    /\ asking[a] = Quiet /\ Exists /\ Counts
    /\ u \in owners \union others /\ \A b \in Removing : asking[b].user # u
    /\ u \in owners => owners \ {u} # {}
    /\ asking' = [asking EXCEPT ![a] = [kind |-> "remove", user |-> u]]
    /\ excused' = (excused \/ Removing # {})
    /\ UNCHANGED <<project, owners, others, milestone, linked, cost, advice>>

RemoveMember(a) ==
    /\ asking[a].kind = "remove"
    /\ owners' = owners \ {asking[a].user} /\ others' = others \ {asking[a].user}
    /\ Done(a)
    /\ UNCHANGED <<project, milestone, linked, cost, advice, excused, moves>>

\* CreateMilestone and UpdateMilestone: completed_at is set when it is done first.
SetMilestone(m, status) ==
    /\ Exists /\ Counts
    /\ milestone' = [milestone EXCEPT ![m] = [status |-> status, completed |-> status = "done"]]
    /\ UNCHANGED <<project, owners, others, linked, cost, advice, asking, excused>>

\* DeleteMilestone
DeleteMilestone(m) ==
    /\ milestone[m] # NoStone /\ Counts
    /\ milestone' = [milestone EXCEPT ![m] = NoStone]
    /\ UNCHANGED <<project, owners, others, linked, cost, advice, asking, excused>>

-----------------------------------------------------------------------------
\* CreateCostProject of a project that was won, as it reads it
CreateCostProject(a) ==
    /\ asking[a] = Quiet /\ Exists /\ Counts
    /\ project.status = "closed" /\ project.result = "won"
    /\ asking' = [asking EXCEPT ![a] = [kind |-> "cost"]]
    /\ UNCHANGED <<project, owners, others, milestone, linked, cost, advice, excused>>

\* The upsert of CreateCostProject and of cost CreateProject, which asks for no
\* result; the foreign key refuses a project deleted meanwhile.
UpsertCost == cost' = IF Exists /\ cost = NoCost THEN [row |-> TRUE, last |-> 0] ELSE cost

InsertCost(a) ==
    /\ asking[a].kind = "cost" /\ UpsertCost /\ Done(a)
    /\ UNCHANGED <<project, owners, others, milestone, linked, advice, excused, moves>>

CreateCost ==
    /\ Exists /\ Counts /\ UpsertCost
    /\ UNCHANGED <<project, owners, others, milestone, linked, advice, asking, excused>>

-----------------------------------------------------------------------------
\* What the advice leaves alone.
ProjectRows == <<project, owners, others, milestone, linked, asking, excused>>

\* Advice inserts the task and then calls the AI service.
Advice(k) ==
    /\ cost # NoCost /\ Counts
    /\ advice[k] = NoAdvice /\ \A j \in Advices : j < k => advice[j] # NoAdvice
    /\ advice' = [advice EXCEPT ![k] = [status |-> "open", sending |-> TRUE, taken |-> FALSE]]
    /\ UNCHANGED <<cost, ProjectRows>>

\* submitCostAdvice: the AI service takes the task.
SubmitCostAdvice(k) ==
    /\ advice[k].sending /\ ~advice[k].taken
    /\ advice' = [advice EXCEPT ![k].taken = TRUE]
    /\ UNCHANGED <<cost, moves, ProjectRows>>

\* Mutant: the status of the answer is written whatever the task has become.
AcceptedReopens(k) ==
    /\ advice[k].sending /\ advice[k].taken
    /\ advice' = [advice EXCEPT ![k].sending = FALSE, ![k].status = "open"]
    /\ UNCHANGED <<cost, moves, ProjectRows>>

\* applyAcceptedTask: a status that is final is kept.
ApplyAcceptedTask(k) ==
    /\ advice[k].sending /\ advice[k].taken
    /\ advice' = [advice EXCEPT ![k].sending = FALSE]
    /\ UNCHANGED <<cost, moves, ProjectRows>>

\* markTaskFailed: the call failed, or its answer was lost with the task taken,
\* which may be done by now.
MarkTaskFailed(k) ==
    /\ advice[k].sending
    /\ advice' = [advice EXCEPT ![k].sending = FALSE, ![k].status = "failed"]
    /\ UNCHANGED <<cost, moves, ProjectRows>>

\* ApplyAdviceCallback, once or again; "open" is a callback that it runs.
ApplyAdviceCallback(k, status) ==
    /\ advice[k].taken /\ advice[k].status = "open"
    /\ advice' = [advice EXCEPT ![k].status = status]
    /\ cost' = IF status = "done" /\ cost # NoCost THEN [cost EXCEPT !.last = k] ELSE cost
    /\ UNCHANGED <<moves, ProjectRows>>

\* taskstatus ExpireInterruptedTasks, for a task without a resource to reset
ExpireAdvice(k) ==
    /\ advice[k].status = "open"
    /\ advice' = [advice EXCEPT ![k].status = "failed"]
    /\ UNCHANGED <<cost, moves, ProjectRows>>

-----------------------------------------------------------------------------
ProjectInit ==
    /\ project = Gone /\ owners = {} /\ others = {}
    /\ milestone = [m \in Milestones |-> NoStone]
    /\ linked = FALSE /\ cost = NoCost
    /\ advice = [k \in Advices |-> NoAdvice]
    /\ asking = [a \in Clients |-> Quiet]
    /\ excused = FALSE /\ moves = 0

ProjectStep ==
    \/ \E u \in Staff, status \in Stages, requested \in Ends : Create(u, status, requested)
    \/ CreateFromTender \/ Delete \/ LinkBid
    \/ \E a \in Clients, target \in Stages :
          \/ \E requested \in Ends \union {"none"} : Update(a, target, requested)
          \/ \E requested \in Ends : Transition(a, target, requested)
    \/ \E a \in Clients : WriteProject(a)

PartStep ==
    \/ \E u \in Staff :
          \/ \E owner \in BOOLEAN : AddMember(u, owner)
          \/ \E a \in Clients : DeleteProjectMember(a, u)
    \/ \E a \in Clients : RemoveMember(a)
    \/ \E m \in Milestones : DeleteMilestone(m) \/ \E status \in {"pending", "done"} : SetMilestone(m, status)

CostStep ==
    \/ \E a \in Clients : CreateCostProject(a) \/ InsertCost(a)
    \/ CreateCost
    \/ \E k \in Advices :
          \/ Advice(k) \/ SubmitCostAdvice(k) \/ ApplyAcceptedTask(k)
          \/ MarkTaskFailed(k) \/ ExpireAdvice(k)
          \/ \E status \in {"open", "done", "failed"} : ApplyAdviceCallback(k, status)

ProjectNext == ProjectStep \/ PartStep \/ CostStep

ProjectSpec == ProjectInit /\ [][ProjectNext]_projectVars

-----------------------------------------------------------------------------
\* A project made with an owner keeps one: nobody takes himself, or another,
\* away as the last owner, unless two removals overlap or an owner was given
\* another role, which nothing in AddMember prevents.
OwnerRemains == Exists /\ ~excused => owners # {}

\* Advice is given once.  An ended task is never open again, whether the AI
\* service answers the call late or repeats its callback; and the advice shown
\* changes only when an open task is done, or with the cost project.
AdviceAnsweredOnce ==
    [][/\ \A k \in Advices :
             advice[k].status \in {"done", "failed"} => advice'[k].status \in {advice[k].status, "failed"}
       /\ cost' # cost /\ cost'.last # 0 =>
             advice[cost'.last].status = "open" /\ advice'[cost'.last].status = "done"]_projectVars
=============================================================================
