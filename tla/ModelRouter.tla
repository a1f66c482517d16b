----------------------------- MODULE ModelRouter -----------------------------
(*****************************************************************************)
(* ai-service: gateway/model_router.py, and run_provider_task and the        *)
(* accounting around it in main.py.  A request asks the router once which    *)
(* targets it may use, tries one after the other until one answers, and logs *)
(* what the answer cost.  The requests of a tenant run in threads of their   *)
(* own; only log_call takes the lock of the router.  Amounts are counted in  *)
(* the smallest unit the router rounds to.                                   *)
(*****************************************************************************)
EXTENDS Naturals, FiniteSets, Sequences, FiniteSetsExt

CONSTANTS Requests,    \* requests of one tenant served at a time
          Providers,   \* those the configuration registers
          ZeroCost,    \* providers of type mock or local
          Mock,
          Routes,      \* primary and fallbacks of a route, as lists of targets
          Overrides,   \* targets the environment can ask for instead of the primary
          NoTarget,
          Budget,      \* the monthly budget of the tenant; 0 is none
          Downgrades,  \* on_exceed is downgrade_then_block
          MaxCost      \* bound: what one answer costs, MAX_AI_ESTIMATED_COST

Target == [provider : Providers, model : STRING]

ASSUME RouterAssumption ==
    /\ IsFiniteSet(Requests)
    /\ Routes \subseteq Seq(Target)
    /\ NoTarget \in Overrides /\ Overrides \subseteq Target \union {NoTarget}
    /\ \A route \in Routes : route # <<>>
    /\ ZeroCost \subseteq Providers /\ Mock \in ZeroCost
    /\ Budget \in Nat /\ MaxCost \in Nat /\ Downgrades \in BOOLEAN

VARIABLES
    env,   \* the environment of the process: the override, the providers with a key,
           \* ALLOW_MOCK_FALLBACK
    usage, \* _tenant_usage of the tenant, in memory
    run    \* run[r]: what a request has left to try

routerVars == <<env, usage, run>>

Resting == [at |-> "resting"]
\* targets: the route, by its places; now: the place of the target that is called;
\* within: the tenant was within its quota; tried: history
Run == [at : {"calling", "answered"}, targets : Seq(Target), now : Nat \ {0},
        left : SUBSET Nat, tried : SUBSET Nat, within : BOOLEAN]

RouterTypeOK ==
    /\ env \in [override : Overrides, healthy : SUBSET Providers, mock : BOOLEAN]
    /\ usage \in Nat
    /\ run \in [Requests -> Run \union {Resting}]

-----------------------------------------------------------------------------
\* Mutant: the budget may be used up and is not exceeded by that.
ExceededOnlyAbove == Budget > 0 /\ usage > Budget

\* quota_status, the answer of enforce_quota
Exceeded == Budget > 0 /\ usage >= Budget

\* _apply_provider_mode, where mock answers may be given: the places of a route that
\* remain; mock as a primary is replaced by the configuration before.
WithFallback(route) == {i \in DOMAIN route : i = 1 \/ env.mock \/ route[i].provider # Mock}

\* _route_target: only the primary is overridden, and never mock or local.
RouteTarget(route, i) ==
    IF i = 1 /\ route[i].provider \notin ZeroCost /\ env.override # NoTarget
    THEN env.override ELSE route[i]

\* Mutant: the override makes a fallback of its own.
AsDeclared(route) == WithFallback(route)

\* The same provider and model are not tried twice.
Unique(route) ==
    {i \in WithFallback(route) :
        \A j \in WithFallback(route) : RouteTarget(route, j) = RouteTarget(route, i) => i <= j}

\* resolve_candidates, of a route of one of the kinds that cost: the places that are
\* tried; none where it raises
ResolveCandidates(route) ==
    {i \in Unique(route) :
        /\ RouteTarget(route, i).provider \in env.healthy
        /\ Exceeded => Downgrades /\ RouteTarget(route, i).provider \in ZeroCost}

-----------------------------------------------------------------------------
\* run_provider_task calls the first target; the quota is not looked at again.
RunProviderTask(r, route) ==
    /\ run[r] = Resting /\ ResolveCandidates(route) # {}
    /\ LET first == Min(ResolveCandidates(route)) IN
       run' = [run EXCEPT ![r] =
          [at |-> "calling", targets |-> [i \in DOMAIN route |-> RouteTarget(route, i)], now |-> first,
           left |-> ResolveCandidates(route) \ {first}, tried |-> {first}, within |-> ~Exceeded]]
    /\ UNCHANGED <<env, usage>>

NextTarget(of) ==
    LET next == Min(of.left) IN
    [of EXCEPT !.now = next, !.left = of.left \ {next}, !.tried = of.tried \union {next}]

\* The operation raises: the next target, or ProviderTaskError.  What the provider
\* charged for it is not known.
OperationRaises(r) ==
    /\ run[r].at = "calling"
    /\ run' = [run EXCEPT ![r] =
          IF run[r].left = {} THEN Resting ELSE NextTarget(run[r])]
    /\ UNCHANGED <<env, usage>>

OperationReturns(r) ==
    /\ run[r].at = "calling"
    /\ run' = [run EXCEPT ![r].at = "answered"]
    /\ UNCHANGED <<env, usage>>

\* _cost_from_call, by tokens and prices; an amount above the limit is taken for
\* none.  There is no price for mock and local.
MayCost(target, amount) ==
    /\ amount \in 0..MaxCost
    /\ target.provider \in ZeroCost => amount = 0

\* ai_call_accounting and log_call
LogCall(r, amount) ==
    /\ run[r].at = "answered" /\ MayCost(run[r].targets[run[r].now], amount)
    /\ usage' = usage + amount
    /\ run' = [run EXCEPT ![r] = Resting]
    /\ UNCHANGED env

\* The task fails on what was answered before it is logged, as a document does whose
\* embeddings are not as many as its chunks.
AnswerUnlogged(r) ==
    /\ run[r].at = "answered"
    /\ run' = [run EXCEPT ![r] = Resting]
    /\ UNCHANGED <<env, usage>>

\* The process is started anew: what was used is forgotten.
StartRouter(override, healthy, mock) ==
    /\ env' = [override |-> override, healthy |-> healthy, mock |-> mock]
    /\ usage' = 0
    /\ run' = [r \in Requests |-> Resting]

RouterInit ==
    /\ env = [override |-> NoTarget, healthy |-> Providers, mock |-> TRUE]
    /\ usage = 0
    /\ run = [r \in Requests |-> Resting]

RouterNext ==
    \/ \E r \in Requests :
          \/ \E route \in Routes : RunProviderTask(r, route)
          \/ OperationRaises(r) \/ OperationReturns(r) \/ AnswerUnlogged(r)
          \/ \E amount \in 0..MaxCost : LogCall(r, amount)
    \/ \E override \in Overrides, healthy \in SUBSET Providers, mock \in BOOLEAN :
          StartRouter(override, healthy, mock)

RouterSpec == RouterInit /\ [][RouterNext]_routerVars

-----------------------------------------------------------------------------
\* The quota is asked for when a request begins and what it cost is known when it
\* has ended, whatever began in between.  So a tenant may exceed its budget, but by
\* less than one answer for each request served at a time: those on their way that
\* were admitted are counted with the most they can cost.
QuotaBounded ==
    Budget > 0 =>
        usage + MaxCost * Cardinality({r \in Requests : run[r] # Resting /\ run[r].within})
            < Budget + MaxCost * Cardinality(Requests)

\* However the environment overrides the primary: one request never calls the same
\* target twice, for each call may wait for a timeout; it calls none without a key,
\* falls back to no mock unless that is allowed, and calls none that costs when its
\* tenant had used up the budget.
TriedAsAllowed ==
    \A r \in Requests : run[r] # Resting =>
        LET target(i) == run[r].targets[i] IN
        \A i \in run[r].tried :
            /\ \A j \in run[r].tried : target(i) = target(j) => i = j
            /\ target(i).provider \in env.healthy
            /\ i > 1 /\ ~env.mock => target(i).provider # Mock
            /\ run[r].within \/ target(i).provider \in ZeroCost
=============================================================================
