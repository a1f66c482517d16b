---------------------------- MODULE ToolGateway ----------------------------
(***************************************************************************)
(* backend/internal/platform/externaltool/store.go: calls of a paid tool   *)
(* outside the system, with a budget for the month.  Invoke reads the      *)
(* configuration and what the audit log says was spent, calls the tool     *)
(* without any lock, and logs the call with its cost afterwards.           *)
(***************************************************************************)
EXTENDS Naturals, FiniteSets

CONSTANTS Calls,      \* requests served at a time
          Budgets,    \* monthly_budget a configuration can have; 0 is no limit
          Costs,      \* metadata.cost_per_call
          MaxConfigs, \* bound: writes of the configuration
          MaxSpent    \* bound: what a month is followed up to

ASSUME GatewayBoundsAssumption ==
    /\ IsFiniteSet(Calls) /\ Calls # {}
    /\ Budgets \subseteq Nat /\ Costs \subseteq Nat
    /\ MaxConfigs \in Nat /\ MaxSpent \in Nat

VARIABLES
    tool,    \* the row of external_tool_configs
    spent,   \* what the successful calls of this month's audit log cost
    call,    \* call[c]: the cost of a call that is out
    admitted,\* history: the largest budget, the largest cost, and whether there was no limit
    configs

toolVars == <<tool, spent, call, admitted, configs>>

NoTool == [row |-> FALSE]
Tool   == [row : {TRUE}, enabled : BOOLEAN, allowed : BOOLEAN, budget : Budgets, cost : Costs]
Home   == [out |-> FALSE, cost |-> 0]

ToolTypeOK ==
    /\ tool \in Tool \union {NoTool}
    /\ spent \in Nat
    /\ call \in [Calls -> [out : {TRUE}, cost : Costs] \union {Home}]
    /\ admitted \in [budget : Nat, cost : Nat, unlimited : BOOLEAN]
    /\ configs \in 0..MaxConfigs

\* What the calls that are out will have cost, each unit of it.
Out == UNION {{c} \X (1..call[c].cost) : c \in Calls}

-----------------------------------------------------------------------------
\* UpsertConfig.  normalizeConfig lets no enabled tool be without an endpoint;
\* allowed is whether the tool that is asked for is in allowed_tools.
UpsertConfig(config) ==
    /\ configs < MaxConfigs /\ configs' = configs + 1
    /\ tool' = config
    /\ admitted' = [budget |-> IF config.budget > admitted.budget THEN config.budget ELSE admitted.budget,
                    cost |-> IF config.cost > admitted.cost THEN config.cost ELSE admitted.cost,
                    unlimited |-> (admitted.unlimited \/ config.budget = 0)]
    /\ UNCHANGED <<spent, call>>

\* Mutant: the cost of the call itself is not counted.
LeftForMore == tool.budget = 0 \/ spent <= tool.budget

\* Blocked calls are logged with a status that is not counted.
WithinBudget == tool.budget = 0 \/ spent + tool.cost <= tool.budget

\* Invoke up to the request: configForInvoke and the checks.
Invoke(c) ==
    /\ ~call[c].out
    /\ tool.row
    /\ tool.enabled /\ tool.allowed /\ WithinBudget
    /\ call' = [call EXCEPT ![c] = [out |-> TRUE, cost |-> tool.cost]]
    /\ UNCHANGED <<tool, spent, admitted, configs>>

\* callStreamableHTTP has its answer and recordAudit logs the success.
RecordSuccess(c) ==
    /\ call[c].out /\ spent + call[c].cost <= MaxSpent
    /\ spent' = spent + call[c].cost
    /\ call' = [call EXCEPT ![c] = Home]
    /\ UNCHANGED <<tool, admitted, configs>>

\* The call timed out or failed, which is logged and not counted; or the audit row
\* was not written, although the tool may have done its work.
RecordNothing(c) ==
    /\ call[c].out
    /\ call' = [call EXCEPT ![c] = Home]
    /\ UNCHANGED <<tool, spent, admitted, configs>>

\* A new month begins.
NewMonth ==
    /\ spent > 0
    /\ spent' = 0
    /\ UNCHANGED <<tool, call, admitted, configs>>

ToolInit ==
    /\ tool = NoTool
    /\ spent = 0
    /\ call = [c \in Calls |-> Home]
    /\ admitted = [budget |-> 0, cost |-> 0, unlimited |-> FALSE]
    /\ configs = 0

ToolNext ==
    \/ \E config \in Tool : UpsertConfig(config)
    \/ \E c \in Calls : Invoke(c) \/ RecordSuccess(c) \/ RecordNothing(c)
    \/ NewMonth

ToolSpec == ToolInit /\ [][ToolNext]_toolVars

-----------------------------------------------------------------------------
\* The budget is checked before a call and the cost is logged after it, so calls that
\* overlap can overspend; by no more than one call for each request that was served
\* beside the last one that fitted.  It counts what is spent and what is still out.
OverspendBounded ==
    \/ admitted.unlimited
    \/ spent + Cardinality(Out)
          <= admitted.budget + (Cardinality(Calls) - 1) * admitted.cost
=============================================================================
