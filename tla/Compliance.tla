----------------------------- MODULE Compliance -----------------------------
(***************************************************************************)
(* backend/internal/platform/compliance/store.go: rules, checks with their *)
(* issues, and the check gate of one bid.                                  *)
(*                                                                         *)
(* A check is created in one transaction nobody sees before it commits.    *)
(* Handling an issue locks the issue's row only: it reads the other issues *)
(* of the check as they are committed then, and writes the summary it made *)
(* of them when it commits, whatever was committed in between.             *)
(***************************************************************************)
EXTENDS Naturals, FiniteSets

CONSTANTS Codes,      \* codes of compliance_rules
          RuleLevels, \* level of a rule, chosen from by a check
          Severities, \* those a rule is given here, out of the four there are
          Fact,       \* the issue for what factualreview found
          Handlers,   \* requests about issues served at a time
          MaxChecks,  \* bound: checks
          MaxUpdates  \* bound: times an issue is handled

Results == {"pass", "warn", "fail_candidate", "fail"}

ASSUME FactAssumption     == Fact \notin Codes
ASSUME SeverityAssumption == Severities \subseteq Results
ASSUME ChecksAssumption   == MaxChecks \in Nat /\ MaxUpdates \in Nat

Checks == 1..MaxChecks
Ids    == Codes \union {Fact}

VARIABLES
    rule,    \* compliance_rules by code, which is unique
    check,   \* compliance_checks: whether of the bid, and result_status
    issue,   \* issue[k]: the issues of check k, by the rule they are for
    gate,    \* the check gate, and the check its metadata names
    pending, \* pending[h]: what the open transaction of h will commit
    updates

complianceVars == <<rule, check, issue, gate, pending, updates>>

Rule     == [level : RuleLevels, severity : Severities, enabled : BOOLEAN]
NoRule   == [level |-> "none"]
Check    == [bid : BOOLEAN, result : Results]
NoCheck  == [result |-> "none"]
Issue    == [severity : Results, status : {"open", "waived", "confirmed_fail"}]
Gate     == [status : {"passed", "needs_review", "blocked"}, of : Checks]
NoGate   == [status |-> "absent"]
Handling == [of : Checks, id : Ids, row : Issue, result : Results]
Idle     == [result |-> "idle"]

ComplianceTypeOK ==
    /\ rule \in [Codes -> Rule \union {NoRule}]
    /\ check \in [Checks -> Check \union {NoCheck}]
    /\ DOMAIN issue = Checks
    /\ \A k \in Checks : DOMAIN issue[k] \subseteq Ids /\ issue[k] \in [DOMAIN issue[k] -> Issue]
    /\ gate \in Gate \union {NoGate}
    /\ pending \in [Handlers -> Handling \union {Idle}]
    /\ updates \in 0..MaxUpdates

-----------------------------------------------------------------------------
Counted(issues) == {x \in DOMAIN issues : issues[x].status \in {"open", "confirmed_fail"}}

\* summarizeIssues: the worst severity counts.
Summary(issues) ==
    LET found == {issues[x].severity : x \in Counted(issues)} IN
    CASE "fail" \in found           -> "fail"
      [] "fail" \notin found /\ "fail_candidate" \in found -> "fail_candidate"
      [] found \intersect {"fail", "fail_candidate"} = {} /\ "warn" \in found -> "warn"
      [] found \subseteq {"pass"}   -> "pass"

\* compliancePipelineGateStatus
GateStatus(result) ==
    CASE result = "pass"                        -> "passed"
      [] result \in {"warn", "fail_candidate"}  -> "needs_review"
      [] result = "fail"                        -> "blocked"

\* Mutant: on conflict the status of the gate is left as it was.
OnConflictKeepsStatus(k, bid, result) ==
    IF ~bid THEN gate
    ELSE IF gate = NoGate THEN [status |-> GateStatus(result), of |-> k] ELSE [gate EXCEPT !.of = k]

\* upsertCompliancePipelineGate, for a check of the bid
GateAfter(k, bid, result) == IF bid THEN [status |-> GateStatus(result), of |-> k] ELSE gate

-----------------------------------------------------------------------------
\* CreateRule; ensureUniqueRuleCode and the unique index keep a code to one row.
CreateRule(r, row) ==
    /\ rule[r] = NoRule
    /\ rule' = [rule EXCEPT ![r] = row]
    /\ UNCHANGED <<check, issue, gate, pending, updates>>

\* UpdateRule may give the rule the code q if no other rule has it.
UpdateRule(r, q, row) ==
    /\ rule[r] # NoRule /\ (q = r \/ rule[q] = NoRule)
    /\ rule' = [rule EXCEPT ![r] = NoRule, ![q] = row]
    /\ UNCHANGED <<check, issue, gate, pending, updates>>

\* DeleteRule: the issues stay, without their rule_id.
DeleteRule(r) ==
    /\ rule[r] # NoRule
    /\ rule' = [rule EXCEPT ![r] = NoRule]
    /\ UNCHANGED <<check, issue, gate, pending, updates>>

\* generateIssues
Applying(levels) ==
    {r \in Codes : /\ rule[r] # NoRule
                   /\ rule[r].enabled /\ rule[r].severity # "pass" /\ rule[r].level \in levels}

NewIssues(levels, found) ==
    [x \in Applying(levels) \union (IF found THEN {Fact} ELSE {}) |->
        [severity |-> IF x = Fact THEN "fail" ELSE rule[x].severity, status |-> "open"]]

\* CreateCheck, of the bid or of none
CreateCheck(k, bid, levels, found) ==
    /\ check[k] = NoCheck /\ \A j \in Checks : j < k => check[j] # NoCheck
    /\ found => bid
    /\ LET issues == NewIssues(levels, found)
           result == Summary(issues)
       IN  /\ issue' = [issue EXCEPT ![k] = issues]
           /\ check' = [check EXCEPT ![k] = [bid |-> bid, result |-> result]]
           /\ gate' = GateAfter(k, bid, result)
    /\ UNCHANGED <<rule, pending, updates>>

-----------------------------------------------------------------------------
\* The row of the issue is locked by the first statement of a transaction.
Locked(k, x) == \E h \in Handlers : pending[h] # Idle /\ pending[h].of = k /\ pending[h].id = x

\* A handler has changed the row and summed up what it can see.
Handle(h, k, x, row) ==
    /\ pending[h] = Idle /\ x \in DOMAIN issue[k] /\ ~Locked(k, x)
    /\ updates < MaxUpdates
    /\ updates' = updates + 1
    /\ pending' = [pending EXCEPT ![h] =
          [of |-> k, id |-> x, row |-> row, result |-> Summary([issue[k] EXCEPT ![x] = row])]]
    /\ UNCHANGED <<rule, check, issue, gate>>

\* Mutant: an issue about a fact may be fixed or ignored like the others.
WaivesFacts(h, k, x) ==
    x \in DOMAIN issue[k] /\ Handle(h, k, x, [issue[k][x] EXCEPT !.status = "waived"])

\* AutofixIssue and IgnoreIssue: fixed and ignored are told apart by no code.
UpdateIssueStatus(h, k, x) ==
    /\ x \in DOMAIN issue[k] /\ x # Fact
    /\ Handle(h, k, x, [issue[k][x] EXCEPT !.status = "waived"])

ConfirmFailIssue(h, k, x) == Handle(h, k, x, [severity |-> "fail", status |-> "confirmed_fail"])

\* refreshCheckSummary, and the commit
CommitIssue(h) ==
    /\ pending[h] # Idle
    /\ LET p == pending[h] IN
          /\ issue' = [issue EXCEPT ![p.of][p.id] = p.row]
          /\ check' = [check EXCEPT ![p.of].result = p.result]
          /\ gate' = GateAfter(p.of, check[p.of].bid, p.result)
    /\ pending' = [pending EXCEPT ![h] = Idle]
    /\ UNCHANGED <<rule, updates>>

\* The request ends before the commit.
RollbackIssue(h) ==
    /\ pending[h] # Idle
    /\ pending' = [pending EXCEPT ![h] = Idle]
    /\ UNCHANGED <<rule, check, issue, gate, updates>>

-----------------------------------------------------------------------------
\* bid/store.go invalidateChapterReviewGates: a chapter was written.
InvalidateGate ==
    /\ gate # NoGate
    /\ gate' = [gate EXCEPT !.status = "needs_review"]
    /\ UNCHANGED <<rule, check, issue, pending, updates>>

ComplianceInit ==
    /\ rule = [r \in Codes |-> NoRule]
    /\ check = [k \in Checks |-> NoCheck]
    /\ issue = [k \in Checks |-> <<>>]
    /\ gate = NoGate
    /\ pending = [h \in Handlers |-> Idle]
    /\ updates = 0

ComplianceNext ==
    \/ \E r \in Codes :
          \/ DeleteRule(r)
          \/ \E row \in Rule : CreateRule(r, row) \/ \E q \in Codes : UpdateRule(r, q, row)
    \/ \E k \in Checks :
          \/ \E bid, found \in BOOLEAN, levels \in SUBSET RuleLevels : CreateCheck(k, bid, levels, found)
          \/ \E h \in Handlers, x \in Ids : ConfirmFailIssue(h, k, x) \/ UpdateIssueStatus(h, k, x)
    \/ \E h \in Handlers : CommitIssue(h) \/ RollbackIssue(h)
    \/ InvalidateGate

ComplianceSpec == ComplianceInit /\ [][ComplianceNext]_complianceVars

-----------------------------------------------------------------------------
\* What factualreview found cannot be waived: the check it is an issue of has
\* the result fail, whatever is done to the other issues at the same time, in
\* whatever order it commits.
FactsNotWaived ==
    \A k \in Checks : Fact \in DOMAIN issue[k] => check[k].result = "fail"

\* The check gate is never better than the committed result of the check its
\* metadata names, although checks, issues and chapters write it in any order.
GateFollowsCheck ==
    gate # NoGate => /\ check[gate.of] # NoCheck /\ check[gate.of].bid
                     /\ gate.status \in {GateStatus(check[gate.of].result), "needs_review"}

\* Whoever confirms a failure sees the check failed and its bid blocked when
\* that commits, also if another issue of the check is being waived.
ConfirmedFailBlocks ==
    [][\A k \in Checks : \A x \in DOMAIN issue[k] :
          issue[k][x].status # "confirmed_fail" /\ issue'[k][x].status = "confirmed_fail"
              => check'[k].result = "fail" /\ (check[k].bid => gate'.status = "blocked")]_complianceVars
=============================================================================
