------------------------------ MODULE DeskProofs ------------------------------
(***************************************************************************)
(* Proofs about the parts of Office that keep rows people work on: the     *)
(* qualifications, for any files, people, rows and number of               *)
(* synchronisations; the compliance checks, for any rules, number of       *)
(* checks and of requests that handle issues at the same time; the         *)
(* project, for any staff and number of requests; and the tenders and      *)
(* their sources, for any rows, patches and number of requests.            *)
(***************************************************************************)
EXTENDS Qualification, Compliance, Projects, Tenders, TLAPS

(***************************************************************************)
(* Qualifications: what a person concluded stays, and the rank of a        *)
(* certificate is that of its level.                                       *)
(***************************************************************************)
USE QualificationAssumption

\* What is fetched and not yet written carries the rank of its own level.
BatchRanked ==
    \A s \in Syncs : \A item \in sync[s].batch :
        item.ref \in Files => item.rank = NormalizeLevel(item.level).rank

QualIInv == QualTypeOK /\ VerdictKept /\ RankMatchesLevel /\ BatchRanked

-----------------------------------------------------------------------------
\* A level is named by words, and its rank is at most that of a special grade.
LEMMA NormalizeType ==
  ASSUME NEW text
  PROVE  /\ NormalizeLevel(text).level \subseteq Words
         /\ NormalizeLevel(text).rank \in 0..4
BY DEF NormalizeLevel, Words

\* The level a category stands for has the rank of its words.
LEMMA MapCategoryRanked ==
  ASSUME NEW turn
  PROVE  /\ MapCategory(turn).level \subseteq Words
         /\ MapCategory(turn).rank \in 0..4
         /\ MapCategory(turn).rank = NormalizeLevel(MapCategory(turn).level).rank
<1>1. CASE turn = 1
  BY <1>1 DEF MapCategory, NormalizeLevel, Words
<1>2. CASE turn = 2
  BY <1>2 DEF MapCategory, NormalizeLevel, Words
<1>3. CASE turn # 1 /\ turn # 2
  BY <1>3 DEF MapCategory, NormalizeLevel, Words
<1> QED
  BY <1>1, <1>2, <1>3

\* NormalizeLevel keeps the rank of the level it returns.
LEMMA NormalizeIdempotent ==
  ASSUME NEW text
  PROVE  NormalizeLevel(NormalizeLevel(text).level).rank = NormalizeLevel(text).rank
BY DEF NormalizeLevel

\* ResolveLevel: whichever of the two names wins, the rank is that of the name.
LEMMA ResolveLevelRanked ==
  ASSUME NEW text, NEW turn
  PROVE  LET resolved == ResolveLevel(text, MapCategory(turn))
         IN  /\ resolved.level \subseteq Words
             /\ resolved.rank \in 0..4
             /\ resolved.rank = NormalizeLevel(resolved.level).rank
<1>1. CASE ResolveLevel(text, MapCategory(turn)) = MapCategory(turn)
  BY <1>1, MapCategoryRanked
<1>2. CASE ResolveLevel(text, MapCategory(turn)) = NormalizeLevel(text)
  BY <1>2, NormalizeType, NormalizeIdempotent
<1> QED
  BY <1>1, <1>2 DEF ResolveLevel

\* What a turn finds has the type of a batch, and the ranks of its levels.
LEMMA FoundRanked ==
  ASSUME NEW turn
  PROVE  /\ Found(turn) \subseteq Fetched
         /\ \A item \in Found(turn) :
               item.ref \in Files => item.rank = NormalizeLevel(item.level).rank
<1> SUFFICES ASSUME NEW item \in Found(turn)
             PROVE  item \in Fetched /\ (item.ref \in Files => item.rank = NormalizeLevel(item.level).rank)
  OBVIOUS
<1>1. PICK r \in Sources :
        item = [ref |-> r, level |-> ResolveLevel(zizhi[r].text, MapCategory(turn)).level,
                rank |-> IF r \in Files THEN ResolveLevel(zizhi[r].text, MapCategory(turn)).rank ELSE 0]
  BY DEF Found
<1> QED
  BY <1>1, ResolveLevelRanked DEF Fetched

-----------------------------------------------------------------------------
\* There are no rows, and no synchronisation has begun.
LEMMA QualInitIInv == QualInit => QualIInv
<1> SUFFICES ASSUME QualInit PROVE QualIInv
  OBVIOUS
<1>1. QualTypeOK
  <2>1. sourced \in 0..MaxSource /\ saves \in 0..MaxReviews
    BY DEF QualInit
  <2>2. zizhi \in [Sources -> [turn : 0..4, text : SUBSET Words]]
    BY DEF QualInit, Unknown
  <2>3. sync \in [Syncs -> [turn : 0..5, batch : SUBSET Fetched]]
    BY DEF QualInit
  <2> QED
    BY <2>1, <2>2, <2>3 DEF QualInit, QualTypeOK
<1>2. VerdictKept
  BY DEF QualInit, VerdictKept, NoRow, Decided
<1>3. RankMatchesLevel /\ BatchRanked
  BY DEF QualInit, RankMatchesLevel, BatchRanked
<1> QED
  BY <1>1, <1>2, <1>3 DEF QualIInv

\* What a synchronisation does between its writes changes no row.
LEMMA FetchingKeepsIInv ==
  ASSUME QualIInv, NEW s \in Syncs,
         SyncFromZizhi(s) \/ Fetch(s) \/ FetchFails(s) \/ SyncEnds(s)
  PROVE  QualIInv'
<1>1. PICK turn \in 0..5, batch \in SUBSET Fetched :
        /\ sync' = [sync EXCEPT ![s] = [turn |-> turn, batch |-> batch]]
        /\ \A item \in batch : item.ref \in Files => item.rank = NormalizeLevel(item.level).rank
  <2>1. CASE SyncFromZizhi(s) \/ FetchFails(s) \/ SyncEnds(s)
    BY <2>1 DEF SyncFromZizhi, FetchFails, SyncEnds, QualIInv, QualTypeOK, BatchRanked, Turns
  <2>2. CASE Fetch(s)
    <3>1. sync[s].turn \in 1..4 /\ sync[s].turn + 1 \in 0..5
      BY <2>2 DEF Fetch, Turns
    <3>2. Found(sync[s].turn) \in SUBSET Fetched
      BY FoundRanked
    <3>3. sync' = [sync EXCEPT ![s] = [turn |-> sync[s].turn + 1, batch |-> Found(sync[s].turn)]]
      BY <2>2 DEF Fetch
    <3>4. \A item \in Found(sync[s].turn) : item.ref \in Files => item.rank = NormalizeLevel(item.level).rank
      BY FoundRanked
    <3> USE <3>1, <3>2
    <3> WITNESS sync[s].turn + 1 \in 0..5, Found(sync[s].turn) \in SUBSET Fetched
    <3> QED
      BY <3>3, <3>4
  <2> QED
    BY <2>1, <2>2
<1>2. UNCHANGED <<zizhi, rows, said, sourced, saves>>
  BY DEF SyncFromZizhi, Fetch, FetchFails, SyncEnds
<1>3. QualTypeOK'
  <2>1. [turn |-> turn, batch |-> batch] \in [turn : 0..5, batch : SUBSET Fetched]
    OBVIOUS
  <2>2. sync' \in [Syncs -> [turn : 0..5, batch : SUBSET Fetched]]
    BY <1>1, <2>1 DEF QualIInv, QualTypeOK
  <2> QED
    BY <1>2, <2>2 DEF QualIInv, QualTypeOK
<1>4. BatchRanked'
  BY <1>1 DEF QualIInv, QualTypeOK, BatchRanked
<1> QED
  BY <1>2, <1>3, <1>4 DEF QualIInv, VerdictKept, RankMatchesLevel

\* The write of an item leaves alone what is confirmed or rejected, and puts the level
\* and its rank into the others together.
LEMMA UpsertKeepsIInv ==
  ASSUME QualIInv, NEW s \in Syncs, NEW item \in sync[s].batch, UpsertItem(s, item)
  PROVE  QualIInv'
<1>0. /\ item \in Fetched /\ item.ref \in Sources /\ item.ref \in Certs \union Persons
      /\ item.level \in SUBSET Words /\ item.rank \in 0..4
  BY DEF QualIInv, QualTypeOK, Fetched, Sources, Certs, Persons
<1>1. /\ rows' = [rows EXCEPT ![item.ref] = Refreshed(rows[item.ref], item)]
      /\ sync' = [sync EXCEPT ![s].batch = @ \ {item}]
      /\ UNCHANGED <<zizhi, said, sourced, saves>>
  BY DEF UpsertItem
<1>2. Refreshed(rows[item.ref], item) \in Row
  <2>1. rows[item.ref] \in Row \union {NoRow}
    BY <1>0 DEF QualIInv, QualTypeOK
  <2>2. CASE rows[item.ref] = NoRow
    BY <1>0, <2>2 DEF Refreshed, Row, NoRow
  <2>3. CASE rows[item.ref] # NoRow /\ rows[item.ref].status = "pending_review"
    <3>1. rows[item.ref].serving \in BOOLEAN
      BY <2>1, <2>3 DEF Row
    <3> QED
      BY <1>0, <2>3, <3>1 DEF Refreshed, Row
  <2>4. CASE rows[item.ref] # NoRow /\ rows[item.ref].status # "pending_review"
    BY <2>1, <2>4 DEF Refreshed
  <2> QED
    BY <2>2, <2>3, <2>4
<1>3. QualTypeOK'
  BY <1>0, <1>1, <1>2 DEF QualIInv, QualTypeOK
<1>4. VerdictKept'
  <2> SUFFICES ASSUME NEW r \in Certs \union Persons
               PROVE  /\ rows'[r].status \in Decided => rows'[r] = said[r]
                      /\ said[r] # NoRow => rows'[r] # NoRow /\ rows'[r].serving = said[r].serving
    BY <1>1 DEF VerdictKept
  <2>1. CASE r # item.ref
    BY <1>1, <2>1 DEF QualIInv, QualTypeOK, VerdictKept
  <2>2. CASE r = item.ref
    <3>1. rows'[r] = Refreshed(rows[r], item)
      BY <1>0, <1>1, <2>2 DEF QualIInv, QualTypeOK
    <3>2. rows[r] \in Row \union {NoRow}
      BY DEF QualIInv, QualTypeOK
    <3>3. /\ rows[r].status \in Decided => rows[r] = said[r]
          /\ said[r] # NoRow => rows[r] # NoRow /\ rows[r].serving = said[r].serving
      BY DEF QualIInv, VerdictKept
    <3>4. rows'[r] # NoRow
      BY <1>2, <2>2, <3>1 DEF Row, NoRow, Decided
    <3>5. CASE rows[r] = NoRow
      <4>1. rows'[r].status = "pending_review"
        BY <3>1, <3>5 DEF Refreshed, NoRow
      <4> QED
        BY <3>3, <3>5, <4>1 DEF Decided
    <3>6. CASE rows[r] # NoRow /\ rows[r].status = "pending_review"
      <4>1. rows'[r].status = "pending_review" /\ rows'[r].serving = rows[r].serving
        BY <3>1, <3>6 DEF Refreshed
      <4> QED
        BY <3>3, <3>4, <4>1 DEF Decided
    <3>7. CASE rows[r] # NoRow /\ rows[r].status # "pending_review"
      <4>1. rows'[r] = rows[r]
        BY <3>1, <3>7 DEF Refreshed
      <4> QED
        BY <3>3, <4>1
    <3> QED
      BY <3>5, <3>6, <3>7
  <2> QED
    BY <2>1, <2>2
<1>5. RankMatchesLevel'
  <2> SUFFICES ASSUME NEW r \in Certs, rows'[r] # NoRow
               PROVE  rows'[r].rank = NormalizeLevel(rows'[r].level).rank
    BY DEF RankMatchesLevel
  <2>1. CASE r # item.ref
    BY <1>1, <2>1 DEF QualIInv, QualTypeOK, RankMatchesLevel
  <2>2. CASE r = item.ref
    <3>1. rows'[r] = Refreshed(rows[r], item)
      BY <1>0, <1>1, <2>2 DEF QualIInv, QualTypeOK
    <3>2. item.rank = NormalizeLevel(item.level).rank
      BY <1>0, <2>2 DEF QualIInv, BatchRanked, Sources, Certs
    <3>3. rows[r] # NoRow => rows[r].rank = NormalizeLevel(rows[r].level).rank
      BY DEF QualIInv, RankMatchesLevel
    <3> QED
      BY <3>1, <3>2, <3>3 DEF Refreshed
  <2> QED
    BY <2>1, <2>2
<1>6. BatchRanked'
  BY <1>1 DEF QualIInv, QualTypeOK, BatchRanked
<1> QED
  BY <1>3, <1>4, <1>5, <1>6 DEF QualIInv

\* A person's row is what that person said, with the rank of what was said.
LEMMA SavedKeepsIInv ==
  ASSUME QualIInv, NEW r \in Certs \union Persons, NEW row \in Row, Saved(r, row),
         r \in Certs => row.rank = NormalizeLevel(row.level).rank
  PROVE  QualIInv'
<1>1. QualTypeOK'
  <2>1. saves' \in 0..MaxReviews
    BY DEF Saved, QualIInv, QualTypeOK
  <2> QED
    BY <2>1 DEF Saved, QualIInv, QualTypeOK
<1>2. VerdictKept'
  <2>1. row # NoRow
    BY DEF Row, NoRow, Decided
  <2> QED
    BY <2>1 DEF Saved, QualIInv, QualTypeOK, VerdictKept
<1>3. RankMatchesLevel'
  BY DEF Saved, QualIInv, QualTypeOK, RankMatchesLevel
<1>4. BatchRanked'
  BY DEF Saved, QualIInv, BatchRanked
<1> QED
  BY <1>1, <1>2, <1>3, <1>4 DEF QualIInv

LEMMA ReviewKeepsIInv ==
  ASSUME QualIInv, ReviewStep
  PROVE  QualIInv'
<1>0. Texts \subseteq SUBSET Words
  BY DEF Words
<1>1. ASSUME NEW r \in Certs \union Persons, NEW status \in {"pending_review"} \union Decided,
             NEW serving \in BOOLEAN, Review(r, status, serving)
      PROVE  QualIInv'
  <2>1. rows[r] \in Row /\ rows[r] # NoRow
    BY <1>1 DEF Review, QualIInv, QualTypeOK
  <2>2. ASSUME Saved(r, [status |-> status, level |-> rows[r].level, rank |-> rows[r].rank, serving |-> serving])
        PROVE  QualIInv'
    <3> DEFINE row == [status |-> status, level |-> rows[r].level, rank |-> rows[r].rank, serving |-> serving]
    <3>1. row \in Row
      BY <2>1 DEF Row
    <3>2. r \in Certs => row.rank = NormalizeLevel(row.level).rank
      BY <2>1 DEF QualIInv, RankMatchesLevel
    <3> HIDE DEF row
    <3> QED
      BY <2>2, <3>1, <3>2, SavedKeepsIInv DEF row
  <2>3. ASSUME NEW text \in Texts,
               Saved(r, [status |-> status, level |-> applyLevel(r, text).level,
                         rank |-> applyLevel(r, text).rank, serving |-> serving])
        PROVE  QualIInv'
    <3> DEFINE row == [status |-> status, level |-> applyLevel(r, text).level,
                       rank |-> applyLevel(r, text).rank, serving |-> serving]
    <3>1. row \in Row
      BY <1>0, NormalizeType DEF Row, applyLevel
    <3>2. r \in Certs => row.rank = NormalizeLevel(row.level).rank
      BY DEF applyLevel
    <3> HIDE DEF row
    <3> QED
      BY <2>3, <3>1, <3>2, SavedKeepsIInv DEF row
  <2> QED
    BY <1>1, <2>2, <2>3 DEF Review
<1>2. ASSUME NEW r \in HandCerts \union HandPeople, NEW text \in Texts, NEW serving \in BOOLEAN,
             CreateByHand(r, text, serving)
      PROVE  QualIInv'
  <2> DEFINE row == [status |-> "confirmed", level |-> text, serving |-> serving,
                     rank |-> IF r \in HandCerts THEN NormalizeLevel(text).rank ELSE 0]
  <2>1. row \in Row
    BY <1>0, NormalizeType DEF Row, Decided
  <2>2. r \in Certs \union Persons /\ (r \in Certs => r \in HandCerts)
    BY DEF Certs, Persons
  <2>3. r \in Certs => row.rank = NormalizeLevel(row.level).rank
    BY <2>2
  <2>4. Saved(r, row)
    BY <1>2 DEF CreateByHand
  <2> HIDE DEF row
  <2> QED
    BY <2>1, <2>2, <2>3, <2>4, SavedKeepsIInv
<1> QED
  BY <1>1, <1>2 DEF ReviewStep

\* The source changes under the rows and the batches without touching them.
LEMMA SourceKeepsIInv ==
  ASSUME QualIInv, NEW r \in Sources, NEW turn \in 0..4, NEW text \in Texts,
         SourceChanges(r, turn, text)
  PROVE  QualIInv'
<1>1. QualTypeOK'
  <2>1. sourced' \in 0..MaxSource
    BY DEF SourceChanges, QualIInv, QualTypeOK
  <2>2. (IF turn = 0 THEN Unknown ELSE [turn |-> turn, text |-> text]) \in [turn : 0..4, text : SUBSET Words]
    BY DEF Unknown, Words
  <2> QED
    BY <2>1, <2>2 DEF SourceChanges, QualIInv, QualTypeOK
<1> QED
  BY <1>1 DEF SourceChanges, QualIInv, VerdictKept, RankMatchesLevel, BatchRanked

LEMMA QualStepIInv == QualIInv /\ [QualNext]_qualVars => QualIInv'
<1> SUFFICES ASSUME QualIInv, [QualNext]_qualVars PROVE QualIInv'
  OBVIOUS
<1>1. CASE SyncStep
  <2>1. ASSUME NEW s \in Syncs, NEW item \in sync[s].batch, UpsertFails(s, item)
        PROVE  QualIInv'
    BY <2>1 DEF UpsertFails, QualIInv, QualTypeOK, VerdictKept, RankMatchesLevel, BatchRanked
  <2> QED
    BY <1>1, <2>1, FetchingKeepsIInv, UpsertKeepsIInv DEF SyncStep
<1>2. CASE ReviewStep
  BY <1>2, ReviewKeepsIInv
<1>3. CASE \E r \in Sources, turn \in 0..4, text \in Texts : SourceChanges(r, turn, text)
  BY <1>3, SourceKeepsIInv
<1>4. CASE UNCHANGED qualVars
  BY <1>4 DEF qualVars, QualIInv, QualTypeOK, VerdictKept, RankMatchesLevel, BatchRanked
<1> QED
  BY <1>1, <1>2, <1>3, <1>4 DEF QualNext

-----------------------------------------------------------------------------
\* Every row is what ReviewCertificate, the synchronisations and the entry by hand
\* write, whatever the source says.
THEOREM QualTypeCorrect == QualSpec => []QualTypeOK
<1>1. QualIInv => QualTypeOK
  BY DEF QualIInv
<1> QED
  BY <1>1, QualInitIInv, QualStepIInv, PTL DEF QualSpec

\* SyncFromZizhi never takes back what a person confirmed or rejected.
THEOREM VerdictIsKept == QualSpec => []VerdictKept
<1>1. QualIInv => VerdictKept
  BY DEF QualIInv
<1> QED
  BY <1>1, QualInitIInv, QualStepIInv, PTL DEF QualSpec

\* cert_level_rank is the rank of cert_level, whichever of the four operations wrote it.
THEOREM RankIsOfLevel == QualSpec => []RankMatchesLevel
<1>1. QualIInv => RankMatchesLevel
  BY DEF QualIInv
<1> QED
  BY <1>1, QualInitIInv, QualStepIInv, PTL DEF QualSpec

-----------------------------------------------------------------------------
(***************************************************************************)
(* Compliance checks: a fact that was found wrong is never waived, and the *)
(* gate follows the check it names.                                        *)
(***************************************************************************)
HIDE QualificationAssumption
USE FactAssumption, SeverityAssumption, ChecksAssumption

\* A check that was not made has no issues.
IssuesOfChecks ==
    \A k \in Checks : check[k] = NoCheck => DOMAIN issue[k] = {}

\* The issue about a fact is severe, and it counts.
FactCounts ==
    \A k \in Checks : Fact \in DOMAIN issue[k] =>
        issue[k][Fact].severity = "fail" /\ issue[k][Fact].status \in {"open", "confirmed_fail"}

\* What a transaction will commit: a row of a check there is, and a summary that has
\* not lost a fact or a failure the transaction itself confirms.
PendingOK(h) ==
    pending[h] # Idle =>
        /\ pending[h].id \in DOMAIN issue[pending[h].of]
        /\ Fact \in DOMAIN issue[pending[h].of] => pending[h].result = "fail"
        /\ pending[h].row.status = "confirmed_fail" => pending[h].result = "fail"
        /\ pending[h].id = Fact =>
              pending[h].row.severity = "fail" /\ pending[h].row.status = "confirmed_fail"

AllPendingOK == \A h \in Handlers : PendingOK(h)

ComplianceIInv ==
    /\ ComplianceTypeOK
    /\ IssuesOfChecks /\ FactCounts /\ AllPendingOK
    /\ FactsNotWaived /\ GateFollowsCheck

-----------------------------------------------------------------------------
\* The summary is one of the four results.
LEMMA SummaryType ==
  ASSUME NEW issues, \A x \in DOMAIN issues : issues[x].severity \in Results
  PROVE  Summary(issues) \in Results
<1> DEFINE found == {issues[x].severity : x \in Counted(issues)}
<1>1. found \subseteq Results
  BY DEF Counted
<1> HIDE DEF found
<1>2. CASE "fail" \in found
  BY <1>2 DEF Summary, Results, found
<1>3. CASE "fail" \notin found /\ "fail_candidate" \in found
  BY <1>3 DEF Summary, Results, found
<1>4. CASE found \intersect {"fail", "fail_candidate"} = {} /\ "warn" \in found
  <2>1. "fail" \notin found /\ "fail_candidate" \notin found /\ ~(found \subseteq {"pass"})
    BY <1>4
  <2> QED
    BY <1>4, <2>1 DEF Summary, Results, found
<1>5. CASE found \subseteq {"pass"}
  <2>1. "fail" \notin found /\ "fail_candidate" \notin found /\ "warn" \notin found
    BY <1>5
  <2> QED
    BY <1>5, <2>1 DEF Summary, Results, found
<1>6. \/ "fail" \in found
      \/ "fail" \notin found /\ "fail_candidate" \in found
      \/ found \intersect {"fail", "fail_candidate"} = {} /\ "warn" \in found
      \/ found \subseteq {"pass"}
  BY <1>1 DEF Results
<1> QED
  BY <1>2, <1>3, <1>4, <1>5, <1>6

\* One counted failure makes the check fail.
LEMMA FailureCounts ==
  ASSUME NEW issues, NEW x \in DOMAIN issues,
         issues[x].severity = "fail", issues[x].status \in {"open", "confirmed_fail"}
  PROVE  Summary(issues) = "fail"
<1> DEFINE found == {issues[y].severity : y \in Counted(issues)}
<1>1. "fail" \in found
  BY DEF Counted
<1>2. ~(found \intersect {"fail", "fail_candidate"} = {}) /\ ~(found \subseteq {"pass"})
  BY <1>1
<1> HIDE DEF found
<1> QED
  BY <1>1, <1>2 DEF Summary, found

\* The status a gate takes from a result is one a gate has.
LEMMA GateStatusType ==
  ASSUME NEW result \in Results
  PROVE  GateStatus(result) \in {"passed", "needs_review", "blocked"}
BY DEF GateStatus, Results

\* No check, no issue and no gate yet.
LEMMA ComplianceInitIInv == ComplianceInit => ComplianceIInv
<1> SUFFICES ASSUME ComplianceInit PROVE ComplianceIInv
  OBVIOUS
<1>1. ComplianceTypeOK
  <2>1. updates \in 0..MaxUpdates
    BY DEF ComplianceInit
  <2>2. \A k \in Checks : DOMAIN issue[k] = {} /\ issue[k] \in [{} -> Issue]
    BY DEF ComplianceInit
  <2>3. \A k \in Checks : DOMAIN issue[k] \subseteq Ids /\ issue[k] \in [DOMAIN issue[k] -> Issue]
    BY <2>2
  <2> QED
    BY <2>1, <2>3 DEF ComplianceInit, ComplianceTypeOK
<1>2. IssuesOfChecks /\ FactCounts /\ FactsNotWaived
  BY DEF ComplianceInit, IssuesOfChecks, FactCounts, FactsNotWaived
<1>3. AllPendingOK /\ GateFollowsCheck
  BY DEF ComplianceInit, AllPendingOK, PendingOK, GateFollowsCheck
<1> QED
  BY <1>1, <1>2, <1>3 DEF ComplianceIInv

-----------------------------------------------------------------------------
\* What is said of checks, issues and pending handlings does not speak of the rules.
LEMMA RulesKeepIInv ==
  ASSUME ComplianceIInv, rule' \in [Codes -> Rule \union {NoRule}],
         UNCHANGED <<check, issue, gate, pending, updates>>
  PROVE  ComplianceIInv'
<1>1. ComplianceTypeOK'
  BY DEF ComplianceIInv, ComplianceTypeOK
<1>2. (IssuesOfChecks /\ FactCounts /\ FactsNotWaived /\ GateFollowsCheck)'
  BY DEF ComplianceIInv, IssuesOfChecks, FactCounts, FactsNotWaived, GateFollowsCheck
<1>3. AllPendingOK'
  BY DEF ComplianceIInv, AllPendingOK, PendingOK
<1> QED
  BY <1>1, <1>2, <1>3 DEF ComplianceIInv

LEMMA RuleStepKeepsIInv ==
  ASSUME ComplianceIInv, NEW r \in Codes,
         \/ DeleteRule(r)
         \/ \E row \in Rule : CreateRule(r, row) \/ \E q \in Codes : UpdateRule(r, q, row)
  PROVE  ComplianceIInv'
<1>0. rule \in [Codes -> Rule \union {NoRule}]
  BY DEF ComplianceIInv, ComplianceTypeOK
<1>1. CASE DeleteRule(r)
  BY <1>0, <1>1, RulesKeepIInv DEF DeleteRule
<1>2. ASSUME NEW row \in Rule, CreateRule(r, row) PROVE ComplianceIInv'
  BY <1>0, <1>2, RulesKeepIInv DEF CreateRule
<1>3. ASSUME NEW row \in Rule, NEW q \in Codes, UpdateRule(r, q, row) PROVE ComplianceIInv'
  BY <1>0, <1>3, RulesKeepIInv DEF UpdateRule
<1> QED
  BY <1>1, <1>2, <1>3

-----------------------------------------------------------------------------
\* The issues of a new check are rows of the table; a fact among them is severe.
LEMMA NewIssuesOK ==
  ASSUME ComplianceIInv, NEW levels, NEW found \in BOOLEAN
  PROVE  LET issues == NewIssues(levels, found)
         IN  /\ DOMAIN issues \subseteq Ids /\ issues \in [DOMAIN issues -> Issue]
             /\ Fact \in DOMAIN issues =>
                   found /\ issues[Fact].severity = "fail" /\ issues[Fact].status = "open"
<1> DEFINE issues == NewIssues(levels, found)
<1>1. DOMAIN issues = Applying(levels) \union (IF found THEN {Fact} ELSE {})
  BY DEF NewIssues
<1>2. Applying(levels) \subseteq Codes
  BY DEF Applying
<1>3. \A x \in DOMAIN issues : issues[x] \in Issue
  <2> SUFFICES ASSUME NEW x \in DOMAIN issues PROVE issues[x] \in Issue
    OBVIOUS
  <2>1. issues[x] = [severity |-> IF x = Fact THEN "fail" ELSE rule[x].severity, status |-> "open"]
    BY DEF NewIssues
  <2>2. CASE x = Fact
    BY <2>1, <2>2 DEF Issue, Results
  <2>3. CASE x # Fact
    <3>1. x \in Codes /\ rule[x] \in Rule
      BY <1>1, <1>2, <2>3 DEF Applying, ComplianceIInv, ComplianceTypeOK
    <3>2. rule[x].severity \in Results
      BY <3>1 DEF Rule
    <3> QED
      BY <2>1, <2>3, <3>2 DEF Issue
  <2> QED
    BY <2>2, <2>3
<1>4. issues \in [DOMAIN issues -> Issue]
  BY <1>3 DEF NewIssues
<1>5. Fact \in DOMAIN issues =>
        found /\ issues[Fact].severity = "fail" /\ issues[Fact].status = "open"
  BY <1>1, <1>2 DEF NewIssues
<1> QED
  BY <1>1, <1>2, <1>4, <1>5 DEF Ids

\* A check appears with its issues, its result and its gate at once.
LEMMA CreateKeepsIInv ==
  ASSUME ComplianceIInv, NEW k \in Checks, NEW bid \in BOOLEAN, NEW found \in BOOLEAN,
         NEW levels \in SUBSET RuleLevels, CreateCheck(k, bid, levels, found)
  PROVE  ComplianceIInv'
<1> DEFINE issues == NewIssues(levels, found)
           result == Summary(issues)
<1>1. /\ DOMAIN issues \subseteq Ids /\ issues \in [DOMAIN issues -> Issue]
      /\ Fact \in DOMAIN issues => issues[Fact].severity = "fail" /\ issues[Fact].status = "open"
  BY NewIssuesOK
<1> HIDE DEF issues
<1>2. /\ issue' = [issue EXCEPT ![k] = issues]
      /\ check' = [check EXCEPT ![k] = [bid |-> bid, result |-> result]]
      /\ gate' = GateAfter(k, bid, result)
      /\ check[k] = NoCheck
      /\ UNCHANGED <<rule, pending, updates>>
  BY DEF CreateCheck, issues
<1>3. result \in Results
  BY <1>1, SummaryType DEF Issue
<1>4. Fact \in DOMAIN issues => result = "fail"
  BY <1>1, FailureCounts
<1> HIDE DEF result
<1>5. [bid |-> bid, result |-> result] \in Check /\ [bid |-> bid, result |-> result] # NoCheck
  <2>1. [bid |-> bid, result |-> result] \in Check
    BY <1>3 DEF Check
  <2>2. result # "none"
    BY <1>3 DEF Results
  <2> QED
    BY <2>1, <2>2 DEF NoCheck
<1>6. ComplianceTypeOK'
  <2>1. gate' \in Gate \union {NoGate}
    BY <1>2, <1>3, GateStatusType DEF GateAfter, Gate, ComplianceIInv, ComplianceTypeOK
  <2>2. /\ DOMAIN issue' = Checks
        /\ \A j \in Checks : DOMAIN issue'[j] \subseteq Ids /\ issue'[j] \in [DOMAIN issue'[j] -> Issue]
    BY <1>1, <1>2 DEF ComplianceIInv, ComplianceTypeOK
  <2>3. check' \in [Checks -> Check \union {NoCheck}]
    BY <1>2, <1>5 DEF ComplianceIInv, ComplianceTypeOK
  <2> QED
    BY <1>2, <2>1, <2>2, <2>3 DEF ComplianceIInv, ComplianceTypeOK
<1>7. /\ issue'[k] = issues /\ check'[k] = [bid |-> bid, result |-> result]
      /\ \A j \in Checks : j # k => issue'[j] = issue[j] /\ check'[j] = check[j]
  BY <1>2 DEF ComplianceIInv, ComplianceTypeOK
<1>8. (IssuesOfChecks /\ FactCounts /\ FactsNotWaived)'
  BY <1>1, <1>4, <1>5, <1>7 DEF ComplianceIInv, IssuesOfChecks, FactCounts, FactsNotWaived
<1>9. AllPendingOK'
  <2> SUFFICES ASSUME NEW h \in Handlers, pending[h] # Idle PROVE PendingOK(h)'
    BY <1>2 DEF AllPendingOK, PendingOK
  <2>1. pending[h].of \in Checks /\ pending[h].of # k
    BY <1>2 DEF ComplianceIInv, ComplianceTypeOK, Handling, AllPendingOK, PendingOK, IssuesOfChecks
  <2> QED
    BY <1>2, <1>7, <2>1 DEF ComplianceIInv, AllPendingOK, PendingOK
<1>10. GateFollowsCheck'
  <2>1. CASE bid
    <3>1. gate' = [status |-> GateStatus(result), of |-> k]
      BY <1>2, <2>1 DEF GateAfter
    <3> QED
      BY <1>5, <1>7, <2>1, <3>1 DEF GateFollowsCheck
  <2>2. CASE ~bid
    <3>1. gate' = gate
      BY <1>2, <2>2 DEF GateAfter
    <3>2. gate # NoGate => gate.of \in Checks /\ gate.of # k
      BY <1>2 DEF ComplianceIInv, ComplianceTypeOK, Gate, GateFollowsCheck
    <3> QED
      BY <1>7, <3>1, <3>2 DEF ComplianceIInv, GateFollowsCheck
  <2> QED
    BY <2>1, <2>2
<1> QED
  BY <1>6, <1>8, <1>9, <1>10 DEF ComplianceIInv

-----------------------------------------------------------------------------
\* What a handler sums up counts the fact and the failure it confirms itself.
LEMMA HandleKeepsIInv ==
  ASSUME ComplianceIInv, NEW h \in Handlers, NEW k \in Checks, NEW x \in Ids,
         NEW row \in Issue, Handle(h, k, x, row),
         row.status = "confirmed_fail" => row.severity = "fail",
         x = Fact => row.status = "confirmed_fail"
  PROVE  ComplianceIInv'
<1> DEFINE issues == [issue[k] EXCEPT ![x] = row]
           p == [of |-> k, id |-> x, row |-> row, result |-> Summary(issues)]
<1>1. /\ pending' = [pending EXCEPT ![h] = p] /\ x \in DOMAIN issue[k]
      /\ updates' = updates + 1 /\ updates < MaxUpdates
      /\ UNCHANGED <<rule, check, issue, gate>>
  BY DEF Handle
<1>2. DOMAIN issues = DOMAIN issue[k] /\ issues[x] = row
      /\ \A y \in DOMAIN issues : issues[y] = (IF y = x THEN row ELSE issue[k][y])
  BY <1>1
<1>3. \A y \in DOMAIN issues : issues[y].severity \in Results
  <2>1. \A y \in DOMAIN issue[k] : issue[k][y] \in Issue
    BY DEF ComplianceIInv, ComplianceTypeOK
  <2> QED
    BY <1>2, <2>1 DEF Issue
<1> HIDE DEF issues
<1>4. p \in Handling
  BY <1>3, SummaryType DEF Handling
<1>5. row.status = "confirmed_fail" => Summary(issues) = "fail"
  BY <1>1, <1>2, FailureCounts
<1>6. Fact \in DOMAIN issue[k] => Summary(issues) = "fail"
  <2> SUFFICES ASSUME Fact \in DOMAIN issue[k] PROVE Summary(issues) = "fail"
    OBVIOUS
  <2>1. issues[Fact].severity = "fail" /\ issues[Fact].status \in {"open", "confirmed_fail"}
    BY <1>2 DEF ComplianceIInv, FactCounts
  <2> QED
    BY <1>2, <2>1, FailureCounts
<1>7. p.of = k /\ p.id = x /\ p.row = row /\ p.result = Summary(issues)
  OBVIOUS
<1> HIDE DEF p
<1>8. ComplianceTypeOK'
  <2>1. updates' \in 0..MaxUpdates
    BY <1>1 DEF ComplianceIInv, ComplianceTypeOK
  <2>2. pending' \in [Handlers -> Handling \union {Idle}]
    BY <1>1, <1>4 DEF ComplianceIInv, ComplianceTypeOK
  <2> QED
    BY <1>1, <2>1, <2>2 DEF ComplianceIInv, ComplianceTypeOK
<1>9. AllPendingOK'
  <2> SUFFICES ASSUME NEW g \in Handlers PROVE PendingOK(g)'
    BY DEF AllPendingOK
  <2>1. CASE g = h
    <3>1. pending'[g] = p
      BY <1>1, <2>1 DEF ComplianceIInv, ComplianceTypeOK
    <3> QED
      BY <1>1, <1>5, <1>6, <1>7, <3>1 DEF PendingOK
  <2>2. CASE g # h
    <3>1. pending'[g] = pending[g]
      BY <1>1, <2>2 DEF ComplianceIInv, ComplianceTypeOK
    <3> QED
      BY <1>1, <3>1 DEF ComplianceIInv, AllPendingOK, PendingOK
  <2> QED
    BY <2>1, <2>2
<1>10. (IssuesOfChecks /\ FactCounts /\ FactsNotWaived /\ GateFollowsCheck)'
  BY <1>1 DEF ComplianceIInv, IssuesOfChecks, FactCounts, FactsNotWaived, GateFollowsCheck
<1> QED
  BY <1>8, <1>9, <1>10 DEF ComplianceIInv

LEMMA UpdateKeepsIInv ==
  ASSUME ComplianceIInv, NEW h \in Handlers, NEW k \in Checks, NEW x \in Ids,
         ConfirmFailIssue(h, k, x) \/ UpdateIssueStatus(h, k, x)
  PROVE  ComplianceIInv'
<1>1. CASE ConfirmFailIssue(h, k, x)
  <2>1. [severity |-> "fail", status |-> "confirmed_fail"] \in Issue
    BY DEF Issue, Results
  <2> QED
    BY <1>1, <2>1, HandleKeepsIInv DEF ConfirmFailIssue
<1>2. CASE UpdateIssueStatus(h, k, x)
  <2> DEFINE row == [issue[k][x] EXCEPT !.status = "waived"]
  <2>1. issue[k][x] \in Issue
    BY <1>2 DEF UpdateIssueStatus, ComplianceIInv, ComplianceTypeOK
  <2>2. row \in Issue /\ row.status = "waived"
    BY <2>1 DEF Issue
  <2>3. Handle(h, k, x, row) /\ x # Fact
    BY <1>2 DEF UpdateIssueStatus
  <2> HIDE DEF row
  <2> QED
    BY <2>2, <2>3, HandleKeepsIInv
<1> QED
  BY <1>1, <1>2

\* What a commit does to the tables.
LEMMA CommitEffect ==
  ASSUME ComplianceIInv, NEW h \in Handlers, CommitIssue(h)
  PROVE  LET p == pending[h] IN
         /\ p \in Handling /\ check[p.of] \in Check
         /\ p.id \in DOMAIN issue[p.of]
         /\ DOMAIN issue' = Checks
         /\ \A k \in Checks : DOMAIN issue'[k] = DOMAIN issue[k]
         /\ \A k \in Checks : \A x \in DOMAIN issue[k] :
               issue'[k][x] = (IF k = p.of /\ x = p.id THEN p.row ELSE issue[k][x])
         /\ \A k \in Checks : issue'[k] \in [DOMAIN issue[k] -> Issue]
         /\ check' = [check EXCEPT ![p.of] = [bid |-> check[p.of].bid, result |-> p.result]]
         /\ gate' = GateAfter(p.of, check[p.of].bid, p.result)
<1> DEFINE p == pending[h]
<1>1. p \in Handling /\ p # Idle
  BY DEF CommitIssue, ComplianceIInv, ComplianceTypeOK
<1>2. p.of \in Checks /\ p.id \in Ids /\ p.row \in Issue /\ p.result \in Results
  BY <1>1 DEF Handling
<1>3. p.id \in DOMAIN issue[p.of]
  BY <1>1 DEF ComplianceIInv, AllPendingOK, PendingOK
<1>4. check[p.of] \in Check
  BY <1>2, <1>3 DEF ComplianceIInv, ComplianceTypeOK, IssuesOfChecks
<1>5. /\ issue' = [issue EXCEPT ![p.of][p.id] = p.row]
      /\ check' = [check EXCEPT ![p.of].result = p.result]
      /\ gate' = GateAfter(p.of, check[p.of].bid, p.result)
  BY DEF CommitIssue
<1>6. /\ DOMAIN issue = Checks
      /\ \A k \in Checks : issue[k] \in [DOMAIN issue[k] -> Issue]
  BY DEF ComplianceIInv, ComplianceTypeOK
<1> HIDE DEF p
<1>7. DOMAIN issue' = Checks /\ \A k \in Checks : DOMAIN issue'[k] = DOMAIN issue[k]
  BY <1>2, <1>5, <1>6
<1>8. \A k \in Checks : \A x \in DOMAIN issue[k] :
         issue'[k][x] = (IF k = p.of /\ x = p.id THEN p.row ELSE issue[k][x])
  BY <1>2, <1>3, <1>5, <1>6
<1>9. \A k \in Checks : issue'[k] \in [DOMAIN issue[k] -> Issue]
  BY <1>2, <1>3, <1>5, <1>6
<1>10. check' = [check EXCEPT ![p.of] = [bid |-> check[p.of].bid, result |-> p.result]]
  <2>1. [check[p.of] EXCEPT !.result = p.result] = [bid |-> check[p.of].bid, result |-> p.result]
    BY <1>4 DEF Check
  <2> QED
    BY <1>5, <2>1
<1> QED
  BY <1>1, <1>3, <1>4, <1>5, <1>7, <1>8, <1>9, <1>10 DEF p

LEMMA CommitKeepsIInv ==
  ASSUME ComplianceIInv, NEW h \in Handlers, CommitIssue(h)
  PROVE  ComplianceIInv'
<1> DEFINE p == pending[h]
<1>1. /\ p \in Handling /\ check[p.of] \in Check
      /\ p.id \in DOMAIN issue[p.of]
      /\ DOMAIN issue' = Checks
      /\ \A k \in Checks : DOMAIN issue'[k] = DOMAIN issue[k]
      /\ \A k \in Checks : \A x \in DOMAIN issue[k] :
            issue'[k][x] = (IF k = p.of /\ x = p.id THEN p.row ELSE issue[k][x])
      /\ \A k \in Checks : issue'[k] \in [DOMAIN issue[k] -> Issue]
      /\ check' = [check EXCEPT ![p.of] = [bid |-> check[p.of].bid, result |-> p.result]]
      /\ gate' = GateAfter(p.of, check[p.of].bid, p.result)
  BY CommitEffect
<1>2. /\ p # Idle /\ pending' = [pending EXCEPT ![h] = Idle] /\ UNCHANGED <<rule, updates>>
  BY DEF CommitIssue
<1>3. /\ Fact \in DOMAIN issue[p.of] => p.result = "fail"
      /\ p.id = Fact => p.row.severity = "fail" /\ p.row.status = "confirmed_fail"
  BY <1>2 DEF ComplianceIInv, AllPendingOK, PendingOK
<1>4. p.of \in Checks /\ p.row \in Issue /\ p.result \in Results /\ p.id \in Ids
  BY <1>1 DEF Handling
<1>5. pending \in [Handlers -> Handling \union {Idle}] /\ check \in [Checks -> Check \union {NoCheck}]
  BY DEF ComplianceIInv, ComplianceTypeOK
<1> HIDE DEF p
<1> DEFINE new == [bid |-> check[p.of].bid, result |-> p.result]
<1>6. new \in Check /\ new # NoCheck /\ new.bid = check[p.of].bid /\ new.result = p.result
  <2>1. new \in Check
    BY <1>1, <1>4 DEF Check
  <2>2. new.result # "none"
    BY <1>4 DEF Results
  <2> QED
    BY <2>1, <2>2 DEF NoCheck
<1> HIDE DEF new
<1>7. check'[p.of] = new /\ \A k \in Checks : k # p.of => check'[k] = check[k]
  BY <1>1, <1>4, <1>5 DEF new
<1>8. ComplianceTypeOK'
  <2>1. gate' \in Gate \union {NoGate}
    BY <1>1, <1>4, GateStatusType DEF GateAfter, Gate, ComplianceIInv, ComplianceTypeOK
  <2>2. check' \in [Checks -> Check \union {NoCheck}]
    BY <1>1, <1>5, <1>6 DEF new
  <2>3. \A k \in Checks : DOMAIN issue'[k] \subseteq Ids /\ issue'[k] \in [DOMAIN issue'[k] -> Issue]
    BY <1>1 DEF ComplianceIInv, ComplianceTypeOK
  <2>4. pending' \in [Handlers -> Handling \union {Idle}]
    BY <1>2, <1>5
  <2> QED
    BY <1>1, <1>2, <2>1, <2>2, <2>3, <2>4 DEF ComplianceIInv, ComplianceTypeOK
<1>9. IssuesOfChecks'
  BY <1>1, <1>6, <1>7 DEF ComplianceIInv, IssuesOfChecks
<1>10. FactCounts'
  BY <1>1, <1>3 DEF ComplianceIInv, FactCounts
<1>11. FactsNotWaived'
  BY <1>1, <1>3, <1>6, <1>7 DEF ComplianceIInv, FactsNotWaived
<1>12. AllPendingOK'
  <2> SUFFICES ASSUME NEW g \in Handlers PROVE PendingOK(g)'
    BY DEF AllPendingOK
  <2>1. CASE g = h
    BY <1>2, <1>5, <2>1 DEF PendingOK
  <2>2. CASE g # h
    <3>1. pending'[g] = pending[g]
      BY <1>2, <1>5, <2>2
    <3>2. pending[g] # Idle => pending[g].of \in Checks
      BY <1>5 DEF Handling
    <3> QED
      BY <1>1, <3>1, <3>2 DEF ComplianceIInv, AllPendingOK, PendingOK
  <2> QED
    BY <2>1, <2>2
<1>13. GateFollowsCheck'
  <2>1. CASE check[p.of].bid
    <3>1. gate' = [status |-> GateStatus(p.result), of |-> p.of]
      BY <1>1, <2>1 DEF GateAfter
    <3> QED
      BY <1>6, <1>7, <2>1, <3>1 DEF GateFollowsCheck
  <2>2. CASE ~check[p.of].bid
    <3>1. gate' = gate
      BY <1>1, <2>2 DEF GateAfter
    <3>2. gate # NoGate => gate.of \in Checks /\ gate.of # p.of
      BY <2>2 DEF ComplianceIInv, ComplianceTypeOK, Gate, GateFollowsCheck
    <3> QED
      BY <1>7, <3>1, <3>2 DEF ComplianceIInv, GateFollowsCheck
  <2> QED
    BY <2>1, <2>2
<1> QED
  BY <1>8, <1>9, <1>10, <1>11, <1>12, <1>13 DEF ComplianceIInv

\* A request that ends leaves no trace, and a written chapter only makes the gate worse.
LEMMA RollbackKeepsIInv ==
  ASSUME ComplianceIInv, (\E h \in Handlers : RollbackIssue(h)) \/ InvalidateGate
  PROVE  ComplianceIInv'
<1>1. ASSUME NEW h \in Handlers, RollbackIssue(h) PROVE ComplianceIInv'
  <2>1. ComplianceTypeOK'
    BY <1>1 DEF RollbackIssue, ComplianceIInv, ComplianceTypeOK
  <2>2. AllPendingOK'
    BY <1>1 DEF RollbackIssue, ComplianceIInv, ComplianceTypeOK, AllPendingOK, PendingOK
  <2>3. (IssuesOfChecks /\ FactCounts /\ FactsNotWaived /\ GateFollowsCheck)'
    BY <1>1 DEF RollbackIssue, ComplianceIInv, IssuesOfChecks, FactCounts, FactsNotWaived, GateFollowsCheck
  <2> QED
    BY <2>1, <2>2, <2>3 DEF ComplianceIInv
<1>2. CASE InvalidateGate
  <2>1. gate \in Gate /\ gate' = [gate EXCEPT !.status = "needs_review"]
    BY <1>2 DEF InvalidateGate, ComplianceIInv, ComplianceTypeOK
  <2>2. gate' \in Gate /\ gate'.status = "needs_review" /\ gate'.of = gate.of
    BY <2>1 DEF Gate
  <2>3. GateFollowsCheck'
    BY <1>2, <2>2 DEF InvalidateGate, ComplianceIInv, GateFollowsCheck
  <2>4. ComplianceTypeOK'
    BY <1>2, <2>2 DEF InvalidateGate, ComplianceIInv, ComplianceTypeOK
  <2>5. AllPendingOK'
    BY <1>2 DEF InvalidateGate, ComplianceIInv, AllPendingOK, PendingOK
  <2>6. (IssuesOfChecks /\ FactCounts /\ FactsNotWaived)'
    BY <1>2 DEF InvalidateGate, ComplianceIInv, IssuesOfChecks, FactCounts, FactsNotWaived
  <2> QED
    BY <2>3, <2>4, <2>5, <2>6 DEF ComplianceIInv
<1> QED
  BY <1>1, <1>2

LEMMA ComplianceStepIInv == ComplianceIInv /\ [ComplianceNext]_complianceVars => ComplianceIInv'
<1> SUFFICES ASSUME ComplianceIInv, [ComplianceNext]_complianceVars PROVE ComplianceIInv'
  OBVIOUS
<1>1. CASE ComplianceNext
  BY <1>1, RuleStepKeepsIInv, CreateKeepsIInv, UpdateKeepsIInv, CommitKeepsIInv, RollbackKeepsIInv
  DEF ComplianceNext
<1>2. CASE UNCHANGED complianceVars
  <2>1. rule' \in [Codes -> Rule \union {NoRule}] /\ UNCHANGED <<check, issue, gate, pending, updates>>
    BY <1>2 DEF complianceVars, ComplianceIInv, ComplianceTypeOK
  <2> QED
    BY <2>1, RulesKeepIInv
<1> QED
  BY <1>1, <1>2

\* A row becomes confirmed_fail by the commit of the handler that confirmed it, and
\* that handler has summed up a failure.
LEMMA ConfirmedByCommit ==
  ASSUME ComplianceIInv, [ComplianceNext]_complianceVars, NEW k \in Checks, NEW x \in DOMAIN issue[k],
         issue[k][x].status # "confirmed_fail", issue'[k][x].status = "confirmed_fail"
  PROVE  check'[k].result = "fail" /\ (check[k].bid => gate'.status = "blocked")
<1>1. PICK h \in Handlers : CommitIssue(h)
  <2>1. ASSUME NEW j \in Checks, NEW bid \in BOOLEAN, NEW found \in BOOLEAN,
               NEW levels \in SUBSET RuleLevels, CreateCheck(j, bid, levels, found)
        PROVE  issue'[k] = issue[k]
    <3>1. j # k
      BY <2>1 DEF CreateCheck, ComplianceIInv, IssuesOfChecks
    <3> QED
      BY <2>1, <3>1 DEF CreateCheck, ComplianceIInv, ComplianceTypeOK
  <2>2. CASE ComplianceNext
    BY <2>1, <2>2 DEF ComplianceNext, DeleteRule, CreateRule, UpdateRule, ConfirmFailIssue,
                     UpdateIssueStatus, Handle, RollbackIssue, InvalidateGate
  <2>3. CASE UNCHANGED complianceVars
    BY <2>3 DEF complianceVars
  <2> QED
    BY <2>2, <2>3
<1> DEFINE p == pending[h]
<1>2. k = p.of /\ x = p.id /\ p.row.status = "confirmed_fail"
  <2>1. issue'[k][x] = (IF k = p.of /\ x = p.id THEN p.row ELSE issue[k][x])
    BY <1>1, CommitEffect
  <2> HIDE DEF p
  <2> QED
    BY <2>1
<1>3. p.result = "fail"
  BY <1>1, <1>2 DEF CommitIssue, ComplianceIInv, AllPendingOK, PendingOK
<1>4. /\ check' = [check EXCEPT ![k] = [bid |-> check[k].bid, result |-> "fail"]]
      /\ gate' = GateAfter(k, check[k].bid, "fail")
  BY <1>1, <1>2, <1>3, CommitEffect
<1>5. check'[k].result = "fail"
  BY <1>4 DEF ComplianceIInv, ComplianceTypeOK
<1>6. check[k].bid => gate'.status = "blocked"
  BY <1>4 DEF GateAfter, GateStatus
<1> QED
  BY <1>5, <1>6

-----------------------------------------------------------------------------
\* Rules, checks, issues and the gate are rows of their tables.
THEOREM ComplianceTypeCorrect == ComplianceSpec => []ComplianceTypeOK
<1>1. ComplianceIInv => ComplianceTypeOK
  BY DEF ComplianceIInv
<1> QED
  BY <1>1, ComplianceInitIInv, ComplianceStepIInv, PTL DEF ComplianceSpec

\* No order in which concurrent handlers of issues commit gives a check with an issue
\* about a fact another result than fail.
THEOREM FactsAreNotWaived == ComplianceSpec => []FactsNotWaived
<1>1. ComplianceIInv => FactsNotWaived
  BY DEF ComplianceIInv
<1> QED
  BY <1>1, ComplianceInitIInv, ComplianceStepIInv, PTL DEF ComplianceSpec

\* The gate names a check of the bid and is never better than that check's result.
THEOREM GateIsNoBetter == ComplianceSpec => []GateFollowsCheck
<1>1. ComplianceIInv => GateFollowsCheck
  BY DEF ComplianceIInv
<1> QED
  BY <1>1, ComplianceInitIInv, ComplianceStepIInv, PTL DEF ComplianceSpec

\* A confirmed failure blocks when it commits, whatever is handled beside it.
THEOREM ConfirmedFailIsBlocking == ComplianceSpec => ConfirmedFailBlocks
<1> DEFINE Blocks ==
       \A k \in Checks : \A x \in DOMAIN issue[k] :
          issue[k][x].status # "confirmed_fail" /\ issue'[k][x].status = "confirmed_fail"
              => check'[k].result = "fail" /\ (check[k].bid => gate'.status = "blocked")
<1>1. ComplianceIInv /\ [ComplianceNext]_complianceVars => [Blocks]_complianceVars
  BY ConfirmedByCommit
<1> QED
  BY <1>1, ComplianceInitIInv, ComplianceStepIInv, PTL DEF ComplianceSpec, ConfirmedFailBlocks

-----------------------------------------------------------------------------
(***************************************************************************)
(* The project: it keeps an owner, and its advice is given once.           *)
(***************************************************************************)

\* A project that is not there has no members.
GoneIsEmpty == ~Exists => owners = {} /\ others = {}

\* Who is taking a member away asked for it after the project was made, which
\* happens once.
RemovingCounted == Removing # {} => moves > 0

\* Without an excuse one removal is open at a time,
OneRemoval == ~excused => \A a, b \in Removing : a = b

\* and it leaves an owner.
OwnersBesides == Exists /\ ~excused => \A a \in Removing : owners \ {asking[a].user} # {}

MembersOK == GoneIsEmpty /\ RemovingCounted /\ OneRemoval /\ OwnersBesides /\ OwnerRemains

ProjectIInv == ProjectTypeOK /\ MembersOK

-----------------------------------------------------------------------------
\* What is counted stays within the bound.
LEMMA CountsEffect ==
  ASSUME ProjectTypeOK, Counts
  PROVE  moves \in Nat /\ moves' \in 0..MaxMoves /\ moves' > 0
BY ProjectBoundsAssumption DEF ProjectTypeOK, Counts

\* The result that is given with a status.
LEMMA ResultForType ==
  ASSUME NEW s, NEW requested \in Ends \union {"none"}
  PROVE  ResultFor(s, requested) \in Ends \union {"none"}
BY DEF ResultFor

\* Whatever leaves the members and the removals alone leaves an owner.
LEMMA SameMembers ==
  ASSUME ProjectIInv, UNCHANGED <<owners, others, excused>>, Exists' <=> Exists,
         Removing' = Removing, \A a \in Removing : asking'[a] = asking[a],
         moves' = moves \/ Counts
  PROVE  MembersOK'
<1>1. moves' > 0 \/ moves' = moves
  BY CountsEffect DEF ProjectIInv
<1> QED
  BY <1>1 DEF ProjectIInv, MembersOK, GoneIsEmpty, RemovingCounted, OneRemoval, OwnersBesides, OwnerRemains

\* A request that is no removal, before and after, is none of the removals.
LEMMA SameRemovals ==
  ASSUME ProjectTypeOK, NEW a \in Clients, NEW row, asking' = [asking EXCEPT ![a] = row],
         asking[a].kind # "remove", row.kind # "remove"
  PROVE  Removing' = Removing /\ \A b \in Removing : asking'[b] = asking[b]
<1>1. asking'[a] = row /\ \A b \in Clients : b # a => asking'[b] = asking[b]
  BY DEF ProjectTypeOK
<1> QED
  BY <1>1 DEF Removing

\* There is no project.
LEMMA ProjectInitIInv == ProjectInit => ProjectIInv
<1> SUFFICES ASSUME ProjectInit PROVE ProjectIInv
  OBVIOUS
<1>1. Removing = {}
  BY DEF ProjectInit, Removing, Quiet
<1>2. ProjectTypeOK
  <2>1. moves \in 0..MaxMoves
    BY ProjectBoundsAssumption DEF ProjectInit
  <2> QED
    BY <2>1 DEF ProjectInit, ProjectTypeOK, NoStone, NoAdvice, NoCost
<1>3. ~Exists
  BY DEF ProjectInit, Exists
<1> QED
  BY <1>1, <1>2, <1>3 DEF ProjectInit, ProjectIInv, MembersOK, GoneIsEmpty, RemovingCounted, OneRemoval,
                          OwnersBesides, OwnerRemains

\* The project is made before anyone can be removed.
LEMMA MakingKeepsIInv ==
  ASSUME ProjectIInv,
         \/ CreateFromTender
         \/ \E u \in Staff, s \in Stages, requested \in Ends : Create(u, s, requested)
  PROVE  ProjectIInv'
<1>0. ProjectTypeOK
  BY DEF ProjectIInv
<1>1. /\ ~Exists /\ moves = 0 /\ Counts
      /\ UNCHANGED <<others, milestone, linked, cost, advice, asking>>
      /\ owners = {} /\ others = {}
  BY DEF CreateFromTender, Create, ProjectIInv, MembersOK, GoneIsEmpty
<1>2. project' \in Project /\ owners' \subseteq Staff /\ (owners' # {} \/ excused') /\ excused' \in BOOLEAN
  <2>1. CASE CreateFromTender
    BY <1>0, <2>1 DEF CreateFromTender, ProjectTypeOK, Project, Stages
  <2>2. ASSUME NEW u \in Staff, NEW s \in Stages, NEW requested \in Ends, Create(u, s, requested)
        PROVE  project' \in Project /\ owners' \subseteq Staff /\ owners' # {} /\ excused' \in BOOLEAN
    BY <1>0, <2>2, ResultForType DEF Create, Project, ProjectTypeOK
  <2> QED
    BY <2>1, <2>2
<1>3. ProjectTypeOK'
  BY <1>0, <1>1, <1>2, CountsEffect DEF ProjectTypeOK
<1>4. Removing' = {}
  <2>1. Removing = {}
    BY <1>1, ProjectBoundsAssumption DEF ProjectIInv, MembersOK, RemovingCounted
  <2> QED
    BY <1>1, <2>1 DEF Removing
<1>5. Exists'
  BY <1>2 DEF Exists, Project, Gone
<1> QED
  BY <1>2, <1>3, <1>4, <1>5 DEF ProjectIInv, MembersOK, GoneIsEmpty, RemovingCounted, OneRemoval,
                                 OwnersBesides, OwnerRemains

\* A project that is deleted has no members, and needs no owner.
LEMMA DeleteKeepsIInv ==
  ASSUME ProjectIInv, Delete
  PROVE  ProjectIInv'
<1>1. ProjectTypeOK'
  BY DEF ProjectIInv, ProjectTypeOK, Delete, NoStone, NoCost
<1>2. Removing' = Removing
  BY DEF Delete, Removing
<1>3. ~Exists' /\ owners' = {} /\ others' = {}
  BY DEF Delete, Exists
<1> QED
  BY <1>1, <1>2, <1>3 DEF Delete, ProjectIInv, MembersOK, GoneIsEmpty, RemovingCounted, OneRemoval,
                          OwnersBesides, OwnerRemains

\* What Update and Transition read and write is a status with a result, and no member.
LEMMA WritingKeepsIInv ==
  ASSUME ProjectIInv, NEW a \in Clients,
         \/ WriteProject(a) \/ CreateCostProject(a) \/ InsertCost(a)
         \/ \E target \in Stages, requested \in Ends \union {"none"} : Update(a, target, requested)
         \/ \E target \in Stages, requested \in Ends : Transition(a, target, requested)
  PROVE  ProjectIInv'
<1>0. ProjectTypeOK
  BY DEF ProjectIInv
<1>1. CASE WriteProject(a)
  <2>1. asking[a] \in [kind : {"write"}, status : Stages, result : Ends \union {"none"}]
    BY <1>0, <1>1 DEF WriteProject, ProjectTypeOK, Asking, Quiet
  <2>2. project' \in Project \union {Gone} /\ (Exists' <=> Exists)
    BY <2>1, <1>1 DEF WriteProject, Project, Exists, Gone
  <2>3. Quiet.kind # "remove" /\ asking[a].kind # "remove"
    BY <2>1 DEF Quiet
  <2>4. ProjectTypeOK'
    BY <1>0, <1>1, <2>2 DEF WriteProject, Done, ProjectTypeOK
  <2> QED
    BY <1>0, <1>1, <2>2, <2>3, <2>4, SameRemovals, SameMembers DEF WriteProject, Done, ProjectIInv
<1>2. CASE InsertCost(a)
  <2>1. Quiet.kind # "remove" /\ asking[a].kind # "remove"
    BY <1>2 DEF Quiet, InsertCost
  <2>2. cost' \in Cost \union {NoCost}
    BY <1>0, <1>2 DEF InsertCost, UpsertCost, ProjectTypeOK, Cost
  <2>3. ProjectTypeOK'
    BY <1>0, <1>2, <2>2 DEF InsertCost, Done, ProjectTypeOK
  <2>4. Exists' <=> Exists
    BY <1>2 DEF InsertCost, Exists
  <2> QED
    BY <1>0, <1>2, <2>1, <2>3, <2>4, SameRemovals, SameMembers DEF InsertCost, Done, ProjectIInv
<1>3. ASSUME NEW row \in Asking, row.kind # "remove", asking[a] = Quiet, Exists, Counts,
             asking' = [asking EXCEPT ![a] = row],
             UNCHANGED <<project, owners, others, milestone, linked, cost, advice, excused>>
      PROVE  ProjectIInv'
  <2>1. ProjectTypeOK'
    BY <1>0, <1>3, CountsEffect DEF ProjectTypeOK
  <2>2. Removing' = Removing /\ \A b \in Removing : asking'[b] = asking[b]
    <3>1. asking[a].kind # "remove" /\ asking' = [asking EXCEPT ![a] = row]
      BY <1>3 DEF Quiet
    <3> QED
      BY <1>0, <1>3, <3>1, SameRemovals
  <2>3. Exists' <=> Exists
    BY <1>3 DEF Exists
  <2> QED
    BY <1>3, <2>1, <2>2, <2>3, SameMembers DEF ProjectIInv
<1>4. CASE CreateCostProject(a)
  <2>1. [kind |-> "cost"] \in Asking /\ [kind |-> "cost"].kind # "remove"
    BY DEF Asking
  <2> QED
    BY <1>3, <1>4, <2>1 DEF CreateCostProject
<1>5. ASSUME NEW target \in Stages, NEW result \in Ends \union {"none"}
      PROVE  /\ [kind |-> "write", status |-> target, result |-> result] \in Asking
             /\ [kind |-> "write", status |-> target, result |-> result].kind # "remove"
  BY DEF Asking
<1>6. ASSUME NEW target \in Stages, NEW requested \in Ends \union {"none"}, Update(a, target, requested)
      PROVE  ProjectIInv'
  <2> DEFINE asked == IF requested = "none" THEN project.result ELSE requested
  <2>1. asked \in Ends \union {"none"}
    BY <1>0, <1>6 DEF Update, Exists, ProjectTypeOK, Project
  <2> HIDE DEF asked
  <2>2. ResultFor(target, asked) \in Ends \union {"none"}
    BY <2>1, ResultForType
  <2> QED
    BY <1>3, <1>5, <1>6, <2>2 DEF Update, asked
<1>7. ASSUME NEW target \in Stages, NEW requested \in Ends, Transition(a, target, requested)
      PROVE  ProjectIInv'
  <2>1. ResultFor(target, requested) \in Ends \union {"none"}
    BY ResultForType
  <2> QED
    BY <1>3, <1>5, <1>7, <2>1 DEF Transition
<1> QED
  BY <1>1, <1>2, <1>4, <1>6, <1>7
-----------------------------------------------------------------------------
\* A member who is given a role is an owner, or a reason to excuse.
LEMMA AddMemberKeepsIInv ==
  ASSUME ProjectIInv, NEW u \in Staff, NEW owner \in BOOLEAN, AddMember(u, owner)
  PROVE  ProjectIInv'
<1>0. ProjectTypeOK
  BY DEF ProjectIInv
<1>1. /\ Exists /\ Counts
      /\ owners' = IF owner THEN owners \union {u} ELSE owners \ {u}
      /\ others' = IF owner THEN others \ {u} ELSE others \union {u}
      /\ excused' = (excused \/ (u \in owners /\ ~owner))
      /\ UNCHANGED <<project, milestone, linked, cost, advice, asking>>
  BY DEF AddMember
<1>2. owners' \subseteq Staff /\ others' \subseteq Staff /\ owners' \intersect others' = {} /\ excused' \in BOOLEAN
  BY <1>0, <1>1 DEF ProjectTypeOK
<1>3. ProjectTypeOK'
  BY <1>0, <1>1, <1>2, CountsEffect DEF ProjectTypeOK
<1>4. Removing' = Removing /\ Exists' /\ moves' > 0
  BY <1>0, <1>1, CountsEffect DEF Removing, Exists
<1>5. ~excused' => ~excused /\ owners \subseteq owners'
  BY <1>1
<1> QED
  BY <1>1, <1>3, <1>4, <1>5 DEF ProjectIInv, MembersOK, GoneIsEmpty, RemovingCounted, OneRemoval,
                                 OwnersBesides, OwnerRemains

\* Whoever is to be removed leaves an owner behind.
LEMMA DeleteMemberKeepsIInv ==
  ASSUME ProjectIInv, NEW a \in Clients, NEW u \in Staff, DeleteProjectMember(a, u)
  PROVE  ProjectIInv'
<1>0. ProjectTypeOK
  BY DEF ProjectIInv
<1>1. /\ Exists /\ Counts /\ asking[a].kind # "remove"
      /\ u \in owners => owners \ {u} # {}
      /\ asking' = [asking EXCEPT ![a] = [kind |-> "remove", user |-> u]]
      /\ excused' = (excused \/ Removing # {})
      /\ UNCHANGED <<project, owners, others, milestone, linked, cost, advice>>
  BY DEF DeleteProjectMember, Quiet
<1>2. [kind |-> "remove", user |-> u] \in Asking
  BY DEF Asking
<1>3. ProjectTypeOK'
  BY <1>0, <1>1, <1>2, CountsEffect DEF ProjectTypeOK
<1>4. /\ asking'[a] = [kind |-> "remove", user |-> u]
      /\ \A b \in Clients : b # a => asking'[b] = asking[b]
  BY <1>0, <1>1 DEF ProjectTypeOK
<1>5. Removing' = Removing \union {a}
  BY <1>1, <1>4 DEF Removing
<1>6. ~excused' => ~excused /\ Removing' = {a}
  BY <1>1, <1>5
<1>7. moves' > 0 /\ (Exists' <=> Exists)
  BY <1>0, <1>1, CountsEffect DEF Exists
<1>8. ~excused' => owners' \ {u} # {}
  BY <1>1, <1>6 DEF ProjectIInv, MembersOK, OwnerRemains
<1>9. asking'[a].user = u
  BY <1>4
<1> QED
  BY <1>1, <1>3, <1>6, <1>7, <1>8, <1>9 DEF ProjectIInv, MembersOK, GoneIsEmpty, RemovingCounted,
                                             OneRemoval, OwnersBesides, OwnerRemains

\* The only removal that is open, if nothing is excused, leaves the owner it found.
LEMMA RemoveKeepsIInv ==
  ASSUME ProjectIInv, NEW a \in Clients, RemoveMember(a)
  PROVE  ProjectIInv'
<1>0. ProjectTypeOK
  BY DEF ProjectIInv
<1>1. /\ a \in Removing
      /\ owners' = owners \ {asking[a].user} /\ others' = others \ {asking[a].user}
      /\ asking' = [asking EXCEPT ![a] = Quiet]
      /\ UNCHANGED <<project, milestone, linked, cost, advice, excused, moves>>
  BY DEF RemoveMember, Removing, Done
<1>2. ProjectTypeOK'
  BY <1>0, <1>1 DEF ProjectTypeOK
<1>3. asking'[a].kind # "remove" /\ \A b \in Clients : b # a => asking'[b] = asking[b]
  BY <1>0, <1>1 DEF ProjectTypeOK, Quiet
<1>4. Removing' = Removing \ {a}
  BY <1>3 DEF Removing
<1>5. ~excused' => Removing' = {}
  BY <1>1, <1>4 DEF ProjectIInv, MembersOK, OneRemoval
<1>6. Exists' <=> Exists
  BY <1>1 DEF Exists
<1> QED
  BY <1>1, <1>2, <1>4, <1>5, <1>6 DEF ProjectIInv, MembersOK, GoneIsEmpty, RemovingCounted, OneRemoval,
                                       OwnersBesides, OwnerRemains

\* Milestones, costs and advice have no part in it.
LEMMA PartsKeepIInv ==
  ASSUME ProjectIInv,
         \/ LinkBid \/ CreateCost
         \/ \E m \in Milestones : \/ DeleteMilestone(m)
                                  \/ \E s \in {"pending", "done"} : SetMilestone(m, s)
         \/ \E k \in Advices :
              \/ Advice(k) \/ SubmitCostAdvice(k) \/ ApplyAcceptedTask(k) \/ MarkTaskFailed(k) \/ ExpireAdvice(k)
              \/ \E s \in {"open", "done", "failed"} : ApplyAdviceCallback(k, s)
  PROVE  ProjectIInv'
<1>0. ProjectTypeOK
  BY DEF ProjectIInv
<1>1. UNCHANGED <<project, owners, others, asking, excused>> /\ (moves' = moves \/ Counts)
  BY DEF LinkBid, CreateCost, DeleteMilestone, SetMilestone, Advice, SubmitCostAdvice, ApplyAcceptedTask,
         MarkTaskFailed, ExpireAdvice, ApplyAdviceCallback, ProjectRows
<1>2. moves' \in 0..MaxMoves
  BY <1>0, <1>1, CountsEffect DEF ProjectTypeOK
<1>3. linked' \in BOOLEAN
  BY <1>0 DEF ProjectTypeOK, LinkBid, CreateCost, DeleteMilestone, SetMilestone, Advice, SubmitCostAdvice,
              ApplyAcceptedTask, MarkTaskFailed, ExpireAdvice, ApplyAdviceCallback, ProjectRows
<1>4. milestone' \in [Milestones -> [status : {"absent", "pending", "done"}, completed : BOOLEAN]]
  <2>1. ASSUME NEW m \in Milestones,
               DeleteMilestone(m) \/ \E s \in {"pending", "done"} : SetMilestone(m, s)
        PROVE  \E row \in [status : {"absent", "pending", "done"}, completed : BOOLEAN] :
                   milestone' = [milestone EXCEPT ![m] = row]
    BY <2>1 DEF DeleteMilestone, SetMilestone, NoStone
  <2>2. \/ milestone' = milestone
        \/ \E m \in Milestones : DeleteMilestone(m) \/ \E s \in {"pending", "done"} : SetMilestone(m, s)
    BY DEF LinkBid, CreateCost, Advice, SubmitCostAdvice, ApplyAcceptedTask, MarkTaskFailed, ExpireAdvice,
           ApplyAdviceCallback, ProjectRows
  <2> QED
    BY <1>0, <2>1, <2>2 DEF ProjectTypeOK
<1>5. cost' \in Cost \union {NoCost}
  <2>1. \/ cost' = cost \/ cost' = [row |-> TRUE, last |-> 0]
        \/ cost # NoCost /\ \E k \in Advices : cost' = [cost EXCEPT !.last = k]
    BY DEF LinkBid, CreateCost, DeleteMilestone, SetMilestone, Advice, SubmitCostAdvice, ApplyAcceptedTask,
           MarkTaskFailed, ExpireAdvice, ApplyAdviceCallback, UpsertCost
  <2>2. cost \in Cost \union {NoCost}
    BY <1>0 DEF ProjectTypeOK
  <2>3. [row |-> TRUE, last |-> 0] \in Cost
    BY DEF Cost
  <2>4. ASSUME NEW row \in Cost, NEW k \in Advices PROVE [row EXCEPT !.last = k] \in Cost
    BY DEF Cost
  <2> QED
    BY <2>1, <2>2, <2>3, <2>4
<1>6. advice' \in [Advices -> [status : {"absent", "open", "done", "failed"}, sending : BOOLEAN, taken : BOOLEAN]]
  <2> DEFINE Given == [status : {"absent", "open", "done", "failed"}, sending : BOOLEAN, taken : BOOLEAN]
  <2>1. advice \in [Advices -> Given]
    BY <1>0 DEF ProjectTypeOK
  <2>2. ASSUME NEW k \in Advices,
               \/ Advice(k) \/ SubmitCostAdvice(k) \/ ApplyAcceptedTask(k) \/ MarkTaskFailed(k) \/ ExpireAdvice(k)
               \/ \E s \in {"open", "done", "failed"} : ApplyAdviceCallback(k, s)
        PROVE  advice' \in [Advices -> Given]
    <3>1. CASE Advice(k)
      BY <2>1, <3>1 DEF Advice
    <3>2. ASSUME NEW f \in [Advices -> Given]
          PROVE  /\ [f EXCEPT ![k].taken = TRUE] \in [Advices -> Given]
                 /\ [f EXCEPT ![k].sending = FALSE] \in [Advices -> Given]
                 /\ \A s \in {"open", "done", "failed"} : [f EXCEPT ![k].status = s] \in [Advices -> Given]
      <4>1. f[k] \in Given
        OBVIOUS
      <4>2. /\ [f[k] EXCEPT !.taken = TRUE] \in Given /\ [f[k] EXCEPT !.sending = FALSE] \in Given
            /\ \A s \in {"open", "done", "failed"} : [f[k] EXCEPT !.status = s] \in Given
        BY <4>1
      <4> QED
        BY <4>2
    <3> HIDE DEF Given
    <3>3. CASE SubmitCostAdvice(k) \/ ApplyAcceptedTask(k)
      BY <2>1, <3>2, <3>3 DEF SubmitCostAdvice, ApplyAcceptedTask
    <3>4. CASE MarkTaskFailed(k)
      <4>1. [advice EXCEPT ![k].sending = FALSE] \in [Advices -> Given]
        BY <2>1, <3>2
      <4> QED
        BY <3>2, <3>4, <4>1 DEF MarkTaskFailed
    <3>5. CASE ExpireAdvice(k)
      BY <2>1, <3>2, <3>5 DEF ExpireAdvice
    <3>6. CASE \E s \in {"open", "done", "failed"} : ApplyAdviceCallback(k, s)
      <4>1. PICK s \in {"open", "done", "failed"} : advice' = [advice EXCEPT ![k].status = s]
        BY <3>6 DEF ApplyAdviceCallback
      <4>2. [advice EXCEPT ![k].status = s] \in [Advices -> Given]
        BY <2>1, <3>2
      <4> QED
        BY <4>1, <4>2
    <3> QED
      BY <2>2, <3>1, <3>3, <3>4, <3>5, <3>6
  <2>3. \/ advice' = advice
        \/ \E k \in Advices :
              \/ Advice(k) \/ SubmitCostAdvice(k) \/ ApplyAcceptedTask(k) \/ MarkTaskFailed(k) \/ ExpireAdvice(k)
              \/ \E s \in {"open", "done", "failed"} : ApplyAdviceCallback(k, s)
    BY DEF LinkBid, CreateCost, DeleteMilestone, SetMilestone
  <2> QED
    BY <2>1, <2>2, <2>3
<1>7. ProjectTypeOK'
  BY <1>0, <1>1, <1>2, <1>3, <1>4, <1>5, <1>6 DEF ProjectTypeOK
<1>8. Removing' = Removing /\ (Exists' <=> Exists)
  BY <1>1 DEF Removing, Exists
<1> QED
  BY <1>1, <1>7, <1>8, SameMembers DEF ProjectIInv

LEMMA ProjectNextIInv == ProjectIInv /\ [ProjectNext]_projectVars => ProjectIInv'
<1> SUFFICES ASSUME ProjectIInv, [ProjectNext]_projectVars PROVE ProjectIInv'
  OBVIOUS
<1>1. CASE ProjectStep
  BY <1>1, MakingKeepsIInv, DeleteKeepsIInv, WritingKeepsIInv, PartsKeepIInv DEF ProjectStep
<1>2. CASE PartStep
  BY <1>2, AddMemberKeepsIInv, DeleteMemberKeepsIInv, RemoveKeepsIInv, PartsKeepIInv DEF PartStep
<1>3. CASE CostStep
  BY <1>3, WritingKeepsIInv, PartsKeepIInv DEF CostStep
<1>4. CASE UNCHANGED projectVars
  <2>1. Removing' = Removing /\ (Exists' <=> Exists)
    BY <1>4 DEF projectVars, Removing, Exists
  <2>2. ProjectTypeOK'
    BY <1>4 DEF projectVars, ProjectIInv, ProjectTypeOK
  <2> QED
    BY <1>4, <2>1, <2>2, SameMembers DEF projectVars, ProjectIInv
<1> QED
  BY <1>1, <1>2, <1>3, <1>4 DEF ProjectNext

-----------------------------------------------------------------------------
\* An answer, a refusal and a repeated callback find the task open, or leave its end.
LEMMA AdviceStep ==
  ASSUME ProjectTypeOK, [ProjectNext]_projectVars
  PROVE  /\ \A k \in Advices :
               advice[k].status \in {"done", "failed"} => advice'[k].status \in {advice[k].status, "failed"}
         /\ cost' # cost /\ cost'.last # 0 =>
               advice[cost'.last].status = "open" /\ advice'[cost'.last].status = "done"
<1> DEFINE Once == /\ \A k \in Advices :
                         advice[k].status \in {"done", "failed"} =>
                             advice'[k].status \in {advice[k].status, "failed"}
                   /\ cost' # cost /\ cost'.last # 0 =>
                         advice[cost'.last].status = "open" /\ advice'[cost'.last].status = "done"
<1>1. ASSUME advice' = advice, cost' = cost \/ cost'.last = 0 PROVE Once
  BY <1>1
<1>2. CASE ProjectStep \/ PartStep \/ UNCHANGED projectVars
  <2>1. advice' = advice /\ (cost' = cost \/ cost' = NoCost)
    BY <1>2 DEF ProjectStep, PartStep, projectVars, Create, CreateFromTender, Delete, LinkBid, Update, Transition,
                WriteProject, AddMember, DeleteProjectMember, RemoveMember, DeleteMilestone, SetMilestone
  <2> QED
    BY <1>1, <2>1 DEF NoCost
<1>3. ASSUME \/ CreateCost
             \/ \E a \in Clients : CreateCostProject(a) \/ InsertCost(a)
      PROVE  Once
  <2>1. advice' = advice /\ (cost' = cost \/ cost' = [row |-> TRUE, last |-> 0])
    BY <1>3 DEF CreateCost, CreateCostProject, InsertCost, UpsertCost
  <2> QED
    BY <1>1, <2>1
<1>4. ASSUME NEW k \in Advices,
             Advice(k) \/ SubmitCostAdvice(k) \/ ApplyAcceptedTask(k) \/ MarkTaskFailed(k) \/ ExpireAdvice(k)
      PROVE  Once
  <2>1. cost' = cost
    BY <1>4 DEF Advice, SubmitCostAdvice, ApplyAcceptedTask, MarkTaskFailed, ExpireAdvice
  <2>2. \A j \in Advices : j # k => advice'[j] = advice[j]
    BY <1>4 DEF ProjectTypeOK, Advice, SubmitCostAdvice, ApplyAcceptedTask, MarkTaskFailed, ExpireAdvice
  <2>3. advice[k].status \in {"done", "failed"} => advice'[k].status \in {advice[k].status, "failed"}
    BY <1>4 DEF ProjectTypeOK, Advice, SubmitCostAdvice, ApplyAcceptedTask, MarkTaskFailed, ExpireAdvice, NoAdvice
  <2> QED
    BY <2>1, <2>2, <2>3
<1>5. ASSUME NEW k \in Advices, NEW s \in {"open", "done", "failed"}, ApplyAdviceCallback(k, s)
      PROVE  Once
  <2>1. /\ advice[k].status = "open" /\ advice'[k].status = s
        /\ \A j \in Advices : j # k => advice'[j] = advice[j]
    BY <1>5 DEF ApplyAdviceCallback, ProjectTypeOK
  <2>2. cost' # cost => s = "done" /\ cost' = [cost EXCEPT !.last = k] /\ cost # NoCost
    BY <1>5 DEF ApplyAdviceCallback
  <2>3. cost' # cost => cost'.last = k
    BY <2>2 DEF ProjectTypeOK, Cost
  <2> QED
    BY <2>1, <2>2, <2>3
<1> QED
  BY <1>2, <1>3, <1>4, <1>5 DEF ProjectNext, CostStep

-----------------------------------------------------------------------------
\* Create, Update, Transition, the members, the milestones, the costs and their advice
\* write rows of their types, whatever the requests in between.
THEOREM ProjectTypeCorrect == ProjectSpec => []ProjectTypeOK
<1>1. ProjectIInv => ProjectTypeOK
  BY DEF ProjectIInv
<1> QED
  BY <1>1, ProjectInitIInv, ProjectNextIInv, PTL DEF ProjectSpec

\* DeleteProjectMember never takes the last owner of a project that was made with
\* one, unless removals overlap or AddMember made an owner something else.
THEOREM ProjectKeepsOwner == ProjectSpec => []OwnerRemains
<1>1. ProjectIInv => OwnerRemains
  BY DEF ProjectIInv, MembersOK
<1> QED
  BY <1>1, ProjectInitIInv, ProjectNextIInv, PTL DEF ProjectSpec

\* ApplyAdviceCallback writes the advice of a task once: an ended task stays ended, and
\* the advice that is shown is that of a task that was open until then.
THEOREM AdviceGivenOnce == ProjectSpec => AdviceAnsweredOnce
<1>1. ProjectIInv => ProjectTypeOK
  BY DEF ProjectIInv
<1>2. ProjectTypeOK /\ [ProjectNext]_projectVars =>
        [/\ \A k \in Advices :
               advice[k].status \in {"done", "failed"} => advice'[k].status \in {advice[k].status, "failed"}
         /\ cost' # cost /\ cost'.last # 0 =>
               advice[cost'.last].status = "open" /\ advice'[cost'.last].status = "done"]_projectVars
  BY AdviceStep
<1> QED
  BY <1>1, <1>2, ProjectInitIInv, ProjectNextIInv, PTL DEF ProjectSpec, AdviceAnsweredOnce

(***************************************************************************)
(* Tenders: what two requests write at the same time is kept, and every    *)
(* tender's source is there.                                               *)
(***************************************************************************)

\* The tender and the source a request has locked.
HoldsTender(w, t) ==
    \/ editing[w].kind = "tender" /\ editing[w].id = t
    \/ editing[w].kind = "delete" /\ t \in editing[w].detached
HoldsSource(w, s) == editing[w].kind = "source" /\ editing[w].id = s

\* A row that was read for update is still what it was: what is going to be written
\* is the patch of it.
TenderIsRead(w) ==
    editing[w].kind = "tender" =>
        LET request == mergeTenderUpdateRequest(tenderRow[editing[w].id], editing[w].patch) IN
        /\ HasTender(editing[w].id) /\ TenderAccepted(request)
        /\ editing[w].row = normalizeTenderWriteRequest(request)

SourceIsRead(w) ==
    editing[w].kind = "source" =>
        LET request == mergeSourceUpdateRequest(sourceRow[editing[w].id], editing[w].patch) IN
        /\ HasSource(editing[w].id) /\ SourceAccepted(request)
        /\ editing[w].row = normalizeSourceWriteRequest(request)

\* Tenders that a deletion detaches still belong to its source.
DetachedBelong(w) ==
    editing[w].kind = "delete" =>
        \A t \in editing[w].detached : HasTender(t) /\ tenderRow[t].source = editing[w].id

\* No row is locked twice.
LockedOnce ==
    \A v, w \in Editors : v # w =>
        /\ \A t \in TenderIds : ~(HoldsTender(v, t) /\ HoldsTender(w, t))
        /\ \A s \in SourceIds : ~(HoldsSource(v, s) /\ HoldsSource(w, s))

EditsKept == \A w \in Editors : TenderIsRead(w) /\ SourceIsRead(w) /\ DetachedBelong(w)

TendersIInv == TendersTypeOK /\ EditsKept /\ LockedOnce /\ TenderSourceExists

\* What a request has open, by kind.
LEMMA EditKinds ==
  ASSUME TendersTypeOK, NEW w \in Editors
  PROVE  /\ editing[w].kind = "tender" =>
              /\ editing[w].id \in TenderIds /\ editing[w].patch \in TenderPatches /\ editing[w].row \in TenderRow
         /\ editing[w].kind = "source" =>
              /\ editing[w].id \in SourceIds /\ editing[w].patch \in SourcePatches /\ editing[w].row \in SourceRow
         /\ editing[w].kind = "delete" => editing[w].id \in SourceIds /\ editing[w].detached \subseteq TenderIds
         /\ editing[w].kind = "verify" => editing[w].id \in SourceIds
BY DEF TendersTypeOK, Edit, NoEdit

LEMMA RowKinds ==
  ASSUME TendersTypeOK
  PROVE  /\ \A t \in TenderIds : HasTender(t) => tenderRow[t] \in TenderRow
         /\ \A s \in SourceIds : HasSource(s) => sourceRow[s] \in SourceRow
         /\ \A t \in TenderIds : ~HasTender(t) => tenderRow[t] = Unborn
         /\ \A s \in SourceIds : ~HasSource(s) => sourceRow[s] \in {Unborn, Deleted}
         /\ Unborn.status \notin TenderStatuses \union SourceStatuses
         /\ Deleted.status \notin SourceStatuses
BY DEF TendersTypeOK, HasTender, HasSource, TenderRow, SourceRow, Unborn, Deleted, TenderStatuses, SourceStatuses

LEMMA Locks ==
  /\ \A t : TenderLocked(t) <=> \E w \in Editors : HoldsTender(w, t)
  /\ \A s : SourceLocked(s) <=> \E w \in Editors : HoldsSource(w, s)
BY DEF TenderLocked, SourceLocked, HoldsTender, HoldsSource

-----------------------------------------------------------------------------
\* A normalized request is a row.
LEMMA TenderNormalized ==
  ASSUME NEW request \in TenderRequest, TenderAccepted(request)
  PROVE  /\ normalizeTenderWriteRequest(request) \in TenderRow
         /\ normalizeTenderWriteRequest(request).title = request.title
         /\ normalizeTenderWriteRequest(request).source = request.source
         /\ request.status \in TenderStatuses => normalizeTenderWriteRequest(request).status = request.status
BY DEF TenderRequest, TenderRow, TenderAccepted, normalizeTenderWriteRequest, TenderStatuses, Blank, Unlisted

LEMMA SourceNormalized ==
  ASSUME NEW request \in SourceRequest, SourceAccepted(request)
  PROVE  /\ normalizeSourceWriteRequest(request) \in SourceRow
         /\ normalizeSourceWriteRequest(request).name = request.name
BY DEF SourceRequest, SourceRow, SourceAccepted, normalizeSourceWriteRequest, SourceStatuses, Blank, Unlisted

\* A patched row is a request.
LEMMA TenderMerged ==
  ASSUME NEW row \in TenderRow, NEW patch \in TenderPatches
  PROVE  mergeTenderUpdateRequest(row, patch) \in TenderRequest
<1>1. PICK request \in TenderRequest : PartOf(request, patch)
  BY TendersAssumption
<1>2. row \in TenderRequest
  BY DEF TenderRow, TenderRequest
<1>3. \A f \in {"title", "source", "status"} : f \in DOMAIN patch => patch[f] = request[f]
  BY <1>1 DEF PartOf
<1>4. /\ Patched(row, patch, "title") \in {row.title, request.title}
      /\ Patched(row, patch, "source") \in {row.source, request.source}
      /\ Patched(row, patch, "status") \in {row.status, request.status}
  BY <1>3 DEF Patched
<1> QED
  BY <1>2, <1>4 DEF mergeTenderUpdateRequest, TenderRequest

LEMMA SourceMerged ==
  ASSUME NEW row \in SourceRow, NEW patch \in SourcePatches
  PROVE  mergeSourceUpdateRequest(row, patch) \in SourceRequest
<1>1. PICK request \in SourceRequest : PartOf(request, patch)
  BY TendersAssumption
<1>2. row \in SourceRequest
  BY DEF SourceRow, SourceRequest
<1>3. \A f \in {"name", "status"} : f \in DOMAIN patch => patch[f] = request[f]
  BY <1>1 DEF PartOf
<1>4. /\ Patched(row, patch, "name") \in {row.name, request.name}
      /\ Patched(row, patch, "status") \in {row.status, request.status}
  BY <1>3 DEF Patched
<1> QED
  BY <1>2, <1>4 DEF mergeSourceUpdateRequest, SourceRequest

\* Of it, only the fields of the patch differ from the row.
LEMMA NamedTenderFields ==
  ASSUME NEW row \in TenderRow, NEW patch \in TenderPatches, NEW f \in {"title", "source", "status"},
         f \notin DOMAIN patch, TenderAccepted(mergeTenderUpdateRequest(row, patch))
  PROVE  normalizeTenderWriteRequest(mergeTenderUpdateRequest(row, patch))[f] = row[f]
<1> DEFINE request == mergeTenderUpdateRequest(row, patch)
<1>1. request \in TenderRequest
  BY TenderMerged
<1>2. request[f] = row[f]
  BY DEF mergeTenderUpdateRequest, Patched
<1>3. row.status \in TenderStatuses
  BY DEF TenderRow
<1> QED
  BY <1>1, <1>2, <1>3, TenderNormalized

-----------------------------------------------------------------------------
\* Requests end or go on, and the rows of those that go on stay as they are.
LEMMA RowsChange ==
  ASSUME TendersIInv, editing' \in [Editors -> Edit \union {NoEdit}],
         \A v \in Editors : editing'[v] = editing[v] \/ editing'[v] = NoEdit,
         tenderRow' \in [TenderIds -> TenderRow \union {Unborn}],
         sourceRow' \in [SourceIds -> SourceRow \union {Unborn, Deleted}],
         favorites' \subseteq TenderIds,
         \A v \in Editors : editing'[v] = editing[v] =>
             /\ \A t \in TenderIds : HoldsTender(v, t) => tenderRow'[t] = tenderRow[t]
             /\ \A s \in SourceIds : HoldsSource(v, s) => sourceRow'[s] = sourceRow[s],
         TenderSourceExists'
  PROVE  TendersIInv'
<1>0. TendersTypeOK /\ EditsKept /\ LockedOnce /\ NoEdit.kind = "none"
  BY DEF TendersIInv, NoEdit
<1>1. TendersTypeOK'
  BY DEF TendersTypeOK
<1>2. ASSUME NEW v \in Editors PROVE (TenderIsRead(v) /\ SourceIsRead(v) /\ DetachedBelong(v))'
  <2>1. CASE editing'[v] = NoEdit
    BY <1>0, <2>1 DEF TenderIsRead, SourceIsRead, DetachedBelong
  <2>2. CASE editing'[v] = editing[v]
    <3>1. TenderIsRead(v)'
      <4> SUFFICES ASSUME editing[v].kind = "tender" PROVE TenderIsRead(v)'
        BY <2>2 DEF TenderIsRead
      <4>1. editing[v].id \in TenderIds /\ HoldsTender(v, editing[v].id)
        BY <1>0, EditKinds DEF HoldsTender
      <4>2. tenderRow'[editing[v].id] = tenderRow[editing[v].id]
        BY <2>2, <4>1
      <4> QED
        BY <1>0, <2>2, <4>2 DEF EditsKept, TenderIsRead, HasTender
    <3>2. SourceIsRead(v)'
      <4> SUFFICES ASSUME editing[v].kind = "source" PROVE SourceIsRead(v)'
        BY <2>2 DEF SourceIsRead
      <4>1. editing[v].id \in SourceIds /\ HoldsSource(v, editing[v].id)
        BY <1>0, EditKinds DEF HoldsSource
      <4>2. sourceRow'[editing[v].id] = sourceRow[editing[v].id]
        BY <2>2, <4>1
      <4> QED
        BY <1>0, <2>2, <4>2 DEF EditsKept, SourceIsRead, HasSource
    <3>3. DetachedBelong(v)'
      <4> SUFFICES ASSUME editing[v].kind = "delete", NEW t \in editing[v].detached
                   PROVE  HasTender(t)' /\ tenderRow'[t].source = editing[v].id
        BY <2>2 DEF DetachedBelong
      <4>1. t \in TenderIds /\ HoldsTender(v, t)
        BY <1>0, EditKinds DEF HoldsTender
      <4>2. tenderRow'[t] = tenderRow[t]
        BY <2>2, <4>1
      <4> QED
        BY <1>0, <4>2 DEF EditsKept, DetachedBelong, HasTender
    <3> QED
      BY <3>1, <3>2, <3>3
  <2> QED
    BY <2>1, <2>2
<1>3. LockedOnce'
  <2>1. ASSUME NEW v \in Editors PROVE /\ \A t : HoldsTender(v, t)' => HoldsTender(v, t)
                                       /\ \A s : HoldsSource(v, s)' => HoldsSource(v, s)
    BY <1>0 DEF HoldsTender, HoldsSource
  <2> QED
    BY <1>0, <2>1 DEF LockedOnce
<1> QED
  BY <1>1, <1>2, <1>3 DEF TendersIInv, EditsKept

\* A request begins with what nobody has locked.
LEMMA EditBegins ==
  ASSUME TendersIInv, NEW w \in Editors, NEW e \in Edit, editing[w] = NoEdit,
         editing' = [editing EXCEPT ![w] = e], UNCHANGED <<tenderRow, sourceRow, favorites>>,
         TenderIsRead(w)', SourceIsRead(w)', DetachedBelong(w)',
         \A t \in TenderIds : HoldsTender(w, t)' => ~TenderLocked(t),
         \A s \in SourceIds : HoldsSource(w, s)' => ~SourceLocked(s)
  PROVE  TendersIInv'
<1>0. TendersTypeOK /\ EditsKept /\ LockedOnce /\ TenderSourceExists
  BY DEF TendersIInv
<1>1. editing' \in [Editors -> Edit \union {NoEdit}] /\ \A v \in Editors : v # w => editing'[v] = editing[v]
  BY <1>0 DEF TendersTypeOK
<1>2. TendersTypeOK'
  BY <1>0, <1>1 DEF TendersTypeOK
<1>3. EditsKept'
  BY <1>0, <1>1 DEF EditsKept, TenderIsRead, SourceIsRead, DetachedBelong, HasTender, HasSource
<1>4. ASSUME NEW v \in Editors, v # w
      PROVE  /\ \A t : HoldsTender(v, t)' => HoldsTender(v, t)
             /\ \A s : HoldsSource(v, s)' => HoldsSource(v, s)
  BY <1>1, <1>4 DEF HoldsTender, HoldsSource
<1>5. LockedOnce'
  BY <1>0, <1>4, Locks DEF LockedOnce
<1>6. TenderSourceExists'
  BY <1>0 DEF TenderSourceExists, HasTender, HasSource, SourceExists
<1> QED
  BY <1>2, <1>3, <1>5, <1>6 DEF TendersIInv

LEMMA TendersInitIInv == TendersInit => TendersIInv
<1> SUFFICES ASSUME TendersInit PROVE TendersIInv
  OBVIOUS
<1>1. NoEdit.kind = "none" /\ Unborn.status = "unborn"
  BY DEF NoEdit, Unborn
<1>2. TendersTypeOK
  BY DEF TendersInit, TendersTypeOK
<1>3. EditsKept /\ LockedOnce
  BY <1>1 DEF TendersInit, EditsKept, TenderIsRead, SourceIsRead, DetachedBelong, LockedOnce, HoldsTender, HoldsSource
<1>4. TenderSourceExists
  BY <1>1 DEF TendersInit, TenderSourceExists, HasTender, TenderStatuses
<1> QED
  BY <1>2, <1>3, <1>4 DEF TendersIInv

-----------------------------------------------------------------------------
LEMMA TenderStepIInv == TendersIInv /\ TenderStep => TendersIInv'
<1> SUFFICES ASSUME TendersIInv, TenderStep PROVE TendersIInv'
  OBVIOUS
<1>0. TendersTypeOK /\ EditsKept /\ LockedOnce /\ TenderSourceExists /\ NoEdit.kind = "none"
  BY DEF TendersIInv, NoEdit
<1>1. ASSUME NEW t \in TenderIds, NEW favorite \in BOOLEAN, SetFavorite(t, favorite) PROVE TendersIInv'
  <2>1. TenderSourceExists'
    BY <1>0, <1>1 DEF SetFavorite, TenderSourceExists, HasTender, HasSource, SourceExists
  <2> QED
    BY <1>0, <1>1, <2>1, RowsChange DEF SetFavorite, TendersTypeOK
<1>2. ASSUME NEW t \in TenderIds, NEW request \in TenderInputs, CreateTender(t, request) PROVE TendersIInv'
  <2> DEFINE row == normalizeTenderWriteRequest(request)
  <2>1. row \in TenderRow
    BY <1>2, TendersAssumption, TenderNormalized DEF CreateTender
  <2>2. SourceExists(row) /\ tenderRow[t] = Unborn /\ tenderRow' = [tenderRow EXCEPT ![t] = row]
        /\ UNCHANGED <<sourceRow, favorites, editing>>
    BY <1>2 DEF CreateTender
  <2> HIDE DEF row
  <2>3. \A x \in TenderIds : tenderRow'[x] = IF x = t THEN row ELSE tenderRow[x]
    BY <1>0, <2>2 DEF TendersTypeOK
  <2>4. TenderSourceExists'
    BY <1>0, <2>2, <2>3 DEF TenderSourceExists, HasTender, HasSource, SourceExists
  <2>5. \A v \in Editors : ~HoldsTender(v, t)
    BY <1>0, <2>2, RowKinds DEF EditsKept, TenderIsRead, DetachedBelong, HoldsTender, HasTender
  <2>6. tenderRow' \in [TenderIds -> TenderRow \union {Unborn}]
    BY <1>0, <2>1, <2>2 DEF TendersTypeOK
  <2> QED
    BY <1>0, <2>2, <2>3, <2>4, <2>5, <2>6, RowsChange DEF TendersTypeOK
<1>3. ASSUME NEW w \in Editors, NEW t \in TenderIds, NEW patch \in TenderPatches, UpdateTender(w, t, patch)
      PROVE  TendersIInv'
  <2> DEFINE request == mergeTenderUpdateRequest(tenderRow[t], patch)
             e == [kind |-> "tender", id |-> t, patch |-> patch, row |-> normalizeTenderWriteRequest(request)]
  <2>1. /\ editing[w] = NoEdit /\ HasTender(t) /\ ~TenderLocked(t) /\ TenderAccepted(request)
        /\ editing' = [editing EXCEPT ![w] = e] /\ UNCHANGED <<tenderRow, sourceRow, favorites>>
    BY <1>3 DEF UpdateTender
  <2>2. request \in TenderRequest
    BY <1>0, <2>1, RowKinds, TenderMerged
  <2>3. normalizeTenderWriteRequest(request) \in TenderRow
    BY <2>1, <2>2, TenderNormalized
  <2>4. e \in Edit
    BY <2>3 DEF Edit
  <2>5. editing'[w] = e
    BY <1>0, <2>1 DEF TendersTypeOK
  <2>6. TenderIsRead(w)'
    BY <2>1, <2>5 DEF TenderIsRead, HasTender
  <2>7. SourceIsRead(w)' /\ DetachedBelong(w)' /\ \A s : ~HoldsSource(w, s)'
    BY <2>5 DEF SourceIsRead, DetachedBelong, HoldsSource
  <2>8. \A x \in TenderIds : HoldsTender(w, x)' => ~TenderLocked(x)
    BY <2>1, <2>5 DEF HoldsTender
  <2> QED
    BY <2>1, <2>4, <2>6, <2>7, <2>8, EditBegins
<1>4. ASSUME NEW w \in Editors, UpdateTenderWrites(w) PROVE TendersIInv'
  <2> DEFINE t == editing[w].id
             row == editing[w].row
  <2>1. /\ editing[w].kind = "tender" /\ SourceExists(row)
        /\ tenderRow' = [tenderRow EXCEPT ![t] = row] /\ editing' = [editing EXCEPT ![w] = NoEdit]
        /\ UNCHANGED <<sourceRow, favorites>>
    BY <1>4 DEF UpdateTenderWrites
  <2>2. t \in TenderIds /\ row \in TenderRow /\ HoldsTender(w, t)
    BY <1>0, <2>1, EditKinds DEF HoldsTender
  <2> HIDE DEF t, row
  <2>3. /\ \A x \in TenderIds : tenderRow'[x] = IF x = t THEN row ELSE tenderRow[x]
        /\ \A v \in Editors : editing'[v] = IF v = w THEN NoEdit ELSE editing[v]
        /\ editing[w] # NoEdit
    BY <1>0, <2>1 DEF TendersTypeOK
  <2>4. TenderSourceExists'
    BY <1>0, <2>1, <2>3 DEF TenderSourceExists, HasTender, HasSource, SourceExists
  <2>5. \A v \in Editors : v # w => ~HoldsTender(v, t)
    BY <1>0, <2>2 DEF LockedOnce
  <2>6. tenderRow' \in [TenderIds -> TenderRow \union {Unborn}] /\ editing' \in [Editors -> Edit \union {NoEdit}]
    BY <1>0, <2>1, <2>2 DEF TendersTypeOK
  <2> QED
    BY <1>0, <2>1, <2>3, <2>4, <2>5, <2>6, RowsChange DEF TendersTypeOK
<1>5. ASSUME NEW w \in Editors, EditFails(w) PROVE TendersIInv'
  <2>1. editing' \in [Editors -> Edit \union {NoEdit}] /\ \A v \in Editors : editing'[v] \in {editing[v], NoEdit}
    BY <1>0, <1>5 DEF EditFails, TendersTypeOK
  <2>2. TenderSourceExists'
    BY <1>0, <1>5 DEF EditFails, TenderSourceExists, HasTender, HasSource, SourceExists
  <2> QED
    BY <1>0, <1>5, <2>1, <2>2, RowsChange DEF EditFails, TendersTypeOK
<1> QED
  BY <1>1, <1>2, <1>3, <1>4, <1>5 DEF TenderStep

\* A source is written while nobody has it locked for update, and is still there.
LEMMA SourceWritten ==
  ASSUME TendersIInv, NEW s \in SourceIds, NEW row \in SourceRow,
         sourceRow' = [sourceRow EXCEPT ![s] = row], UNCHANGED <<tenderRow, favorites>>,
         editing' \in [Editors -> Edit \union {NoEdit}],
         \A v \in Editors : editing'[v] = editing[v] \/ editing'[v] = NoEdit,
         \A v \in Editors : HoldsSource(v, s) => editing'[v] # editing[v]
  PROVE  TendersIInv'
<1>0. TendersTypeOK /\ TenderSourceExists
  BY DEF TendersIInv
<1>1. \A x \in SourceIds : sourceRow'[x] = IF x = s THEN row ELSE sourceRow[x]
  BY <1>0 DEF TendersTypeOK
<1>2. HasSource(s)'
  BY <1>1 DEF HasSource, SourceRow
<1>3. TenderSourceExists'
  BY <1>0, <1>1, <1>2 DEF TenderSourceExists, HasTender, HasSource, SourceExists, TendersTypeOK
<1>4. sourceRow' \in [SourceIds -> SourceRow \union {Unborn, Deleted}]
  BY <1>0 DEF TendersTypeOK
<1> QED
  BY <1>0, <1>1, <1>3, <1>4, RowsChange DEF TendersTypeOK

LEMMA SourceStepIInv == TendersIInv /\ SourceStep => TendersIInv'
<1> SUFFICES ASSUME TendersIInv, SourceStep PROVE TendersIInv'
  OBVIOUS
<1>0. TendersTypeOK /\ EditsKept /\ LockedOnce /\ TenderSourceExists /\ NoEdit.kind = "none"
  BY DEF TendersIInv, NoEdit
<1>1. ASSUME NEW s \in SourceIds, NEW request \in SourceInputs, CreateSource(s, request) PROVE TendersIInv'
  <2> DEFINE row == normalizeSourceWriteRequest(request)
  <2>1. row \in SourceRow
    BY <1>1, TendersAssumption, SourceNormalized DEF CreateSource
  <2>2. /\ sourceRow' = [sourceRow EXCEPT ![s] = row] /\ UNCHANGED <<tenderRow, favorites, editing>>
        /\ sourceRow[s] = Unborn \/ ~SourceLocked(s)
    BY <1>1 DEF CreateSource
  <2>3. \A v \in Editors : ~HoldsSource(v, s)
    BY <1>0, <2>2, RowKinds, Locks DEF EditsKept, SourceIsRead, HoldsSource, HasSource
  <2> QED
    BY <1>0, <2>1, <2>2, <2>3, SourceWritten DEF TendersTypeOK
<1>2. ASSUME NEW w \in Editors, NEW s \in SourceIds, NEW patch \in SourcePatches, UpdateSource(w, s, patch)
      PROVE  TendersIInv'
  <2> DEFINE request == mergeSourceUpdateRequest(sourceRow[s], patch)
             e == [kind |-> "source", id |-> s, patch |-> patch, row |-> normalizeSourceWriteRequest(request)]
  <2>1. /\ editing[w] = NoEdit /\ HasSource(s) /\ ~SourceLocked(s) /\ SourceAccepted(request)
        /\ editing' = [editing EXCEPT ![w] = e] /\ UNCHANGED <<tenderRow, sourceRow, favorites>>
    BY <1>2 DEF UpdateSource
  <2>2. request \in SourceRequest
    BY <1>0, <2>1, RowKinds, SourceMerged
  <2>3. normalizeSourceWriteRequest(request) \in SourceRow
    BY <2>1, <2>2, SourceNormalized
  <2>4. e \in Edit
    BY <2>3 DEF Edit
  <2>5. editing'[w] = e
    BY <1>0, <2>1 DEF TendersTypeOK
  <2>6. SourceIsRead(w)'
    BY <2>1, <2>5 DEF SourceIsRead, HasSource
  <2>7. TenderIsRead(w)' /\ DetachedBelong(w)' /\ \A t : ~HoldsTender(w, t)'
    BY <2>5 DEF TenderIsRead, DetachedBelong, HoldsTender
  <2>8. \A x \in SourceIds : HoldsSource(w, x)' => ~SourceLocked(x)
    BY <2>1, <2>5 DEF HoldsSource
  <2> QED
    BY <2>1, <2>4, <2>6, <2>7, <2>8, EditBegins
<1>3. ASSUME NEW w \in Editors, UpdateSourceWrites(w) PROVE TendersIInv'
  <2>1. editing[w].id \in SourceIds /\ editing[w].row \in SourceRow /\ HoldsSource(w, editing[w].id)
    BY <1>0, <1>3, EditKinds DEF UpdateSourceWrites, HoldsSource
  <2>2. /\ \A v \in Editors : editing'[v] = IF v = w THEN NoEdit ELSE editing[v]
        /\ editing[w] # NoEdit /\ editing' \in [Editors -> Edit \union {NoEdit}]
    BY <1>0, <1>3 DEF UpdateSourceWrites, TendersTypeOK
  <2>3. \A v \in Editors : HoldsSource(v, editing[w].id) => v = w
    BY <1>0, <2>1 DEF LockedOnce
  <2> QED
    BY <1>3, <2>1, <2>2, <2>3, SourceWritten DEF UpdateSourceWrites
<1>4. ASSUME NEW w \in Editors, NEW s \in SourceIds, DeleteSource(w, s) PROVE TendersIInv'
  <2> DEFINE detached == {t \in TenderIds : HasTender(t) /\ tenderRow[t].source = s}
             e == [kind |-> "delete", id |-> s, detached |-> detached]
  <2>1. /\ editing[w] = NoEdit /\ \A t \in detached : ~TenderLocked(t)
        /\ editing' = [editing EXCEPT ![w] = e] /\ UNCHANGED <<tenderRow, sourceRow, favorites>>
    BY <1>4 DEF DeleteSource
  <2>2. e \in Edit
    BY DEF Edit
  <2>3. editing'[w] = e
    BY <1>0, <2>1 DEF TendersTypeOK
  <2>4. TenderIsRead(w)' /\ SourceIsRead(w)' /\ \A x : ~HoldsSource(w, x)'
    BY <2>3 DEF TenderIsRead, SourceIsRead, HoldsSource
  <2>5. DetachedBelong(w)'
    BY <2>1, <2>3 DEF DetachedBelong, HasTender
  <2>6. \A x \in TenderIds : HoldsTender(w, x)' => ~TenderLocked(x)
    BY <2>1, <2>3 DEF HoldsTender
  <2> QED
    BY <2>1, <2>2, <2>4, <2>5, <2>6, EditBegins
<1>5. ASSUME NEW w \in Editors, DeleteSourceCommits(w) PROVE TendersIInv'
  <2> DEFINE s == editing[w].id
             since == {t \in TenderIds : HasTender(t) /\ tenderRow[t].source = s} \ editing[w].detached
             all == editing[w].detached \union since
  <2>1. /\ editing[w].kind = "delete" /\ HasSource(s) /\ ~SourceLocked(s) /\ \A t \in since : ~TenderLocked(t)
        /\ tenderRow' = Detached(all) /\ sourceRow' = [sourceRow EXCEPT ![s] = Deleted]
        /\ editing' = [editing EXCEPT ![w] = NoEdit] /\ favorites' = favorites
    BY <1>5 DEF DeleteSourceCommits
  <2>2. s \in SourceIds /\ editing[w].detached \subseteq TenderIds
    BY <1>0, <2>1, EditKinds
  <2>3. \A t \in TenderIds : t \in all <=> HasTender(t) /\ tenderRow[t].source = s
    BY <1>0, <2>1 DEF EditsKept, DetachedBelong
  <2>4. \A t \in editing[w].detached : HoldsTender(w, t)
    BY <2>1 DEF HoldsTender
  <2>5. \A v \in Editors : v # w => \A t \in all : ~HoldsTender(v, t)
    BY <1>0, <2>1, <2>2, <2>4, Locks DEF LockedOnce
  <2>6. \A t \in TenderIds : tenderRow'[t] =
            IF t \in all THEN [tenderRow[t] EXCEPT !.source = NoSource] ELSE tenderRow[t]
    BY <2>1 DEF Detached
  <2>7. \A t \in TenderIds : t \in all =>
            tenderRow'[t] \in TenderRow /\ tenderRow'[t].source = NoSource
    BY <1>0, <2>3, <2>6, RowKinds DEF TenderRow
  <2>8. tenderRow' \in [TenderIds -> TenderRow \union {Unborn}]
    BY <1>0, <2>1, <2>6, <2>7 DEF Detached, TendersTypeOK
  <2> HIDE DEF s, all, since
  <2>9. \A x \in SourceIds : sourceRow'[x] = IF x = s THEN Deleted ELSE sourceRow[x]
    BY <1>0, <2>1 DEF TendersTypeOK
  <2>10. TenderSourceExists'
    <3> SUFFICES ASSUME NEW t \in TenderIds, HasTender(t)', tenderRow'[t].source # NoSource
                 PROVE  sourceRow'[tenderRow'[t].source].status \in SourceStatuses
      BY DEF TenderSourceExists, SourceExists, HasSource, HasTender
    <3>1. t \notin all /\ tenderRow'[t] = tenderRow[t]
      BY <2>6, <2>7
    <3>2. HasTender(t) /\ tenderRow[t].source # s
      BY <2>3, <3>1 DEF HasTender
    <3>3. HasSource(tenderRow[t].source) /\ tenderRow[t].source \in SourceIds
      BY <1>0, <3>1, <3>2, RowKinds DEF TenderSourceExists, SourceExists, TenderRow
    <3> QED
      BY <2>9, <3>1, <3>2, <3>3 DEF HasSource
  <2>11. /\ editing' \in [Editors -> Edit \union {NoEdit}]
         /\ \A v \in Editors : editing'[v] = IF v = w THEN NoEdit ELSE editing[v]
         /\ editing[w] # NoEdit
    BY <1>0, <2>1 DEF TendersTypeOK
  <2>12. sourceRow' \in [SourceIds -> SourceRow \union {Unborn, Deleted}]
    BY <1>0, <2>1 DEF TendersTypeOK
  <2>13. \A v \in Editors : ~HoldsSource(v, s)
    BY <2>1, Locks
  <2> QED
    BY <1>0, <2>1, <2>5, <2>6, <2>8, <2>9, <2>10, <2>11, <2>12, <2>13, RowsChange DEF TendersTypeOK
<1>6. ASSUME NEW w \in Editors, NEW s \in SourceIds, VerifySource(w, s) PROVE TendersIInv'
  <2> DEFINE e == [kind |-> "verify", id |-> s]
  <2>1. /\ editing[w] = NoEdit /\ editing' = [editing EXCEPT ![w] = e] /\ UNCHANGED <<tenderRow, sourceRow, favorites>>
    BY <1>6 DEF VerifySource
  <2>2. e \in Edit
    BY DEF Edit
  <2>3. editing'[w] = e
    BY <1>0, <2>1 DEF TendersTypeOK
  <2>4. /\ TenderIsRead(w)' /\ SourceIsRead(w)' /\ DetachedBelong(w)'
        /\ \A x : ~HoldsSource(w, x)' /\ ~HoldsTender(w, x)'
    BY <2>3 DEF TenderIsRead, SourceIsRead, DetachedBelong, HoldsSource, HoldsTender
  <2> QED
    BY <2>1, <2>2, <2>4, EditBegins
<1>7. ASSUME NEW w \in Editors, NEW status \in {"active", "failed"}, SourceVerified(w, status) PROVE TendersIInv'
  <2> DEFINE s == editing[w].id
  <2>1. /\ editing[w].kind = "verify" /\ ~SourceLocked(s) /\ UNCHANGED <<tenderRow, favorites>>
        /\ sourceRow' = IF HasSource(s) THEN [sourceRow EXCEPT ![s].status = status] ELSE sourceRow
        /\ editing' = [editing EXCEPT ![w] = NoEdit]
    BY <1>7 DEF SourceVerified
  <2>2. s \in SourceIds
    BY <1>0, <2>1, EditKinds
  <2>3. /\ editing' \in [Editors -> Edit \union {NoEdit}]
        /\ \A v \in Editors : editing'[v] \in {NoEdit, editing[v]}
    BY <1>0, <2>1 DEF TendersTypeOK
  <2>4. \A v \in Editors : ~HoldsSource(v, s)
    BY <2>1, Locks
  <2>5. CASE HasSource(s)
    <3>1. sourceRow[s] \in SourceRow
      BY <1>0, <2>2, <2>5, RowKinds
    <3>2. [sourceRow[s] EXCEPT !.status = status] \in SourceRow
      BY <3>1 DEF SourceRow, SourceStatuses
    <3>3. sourceRow' = [sourceRow EXCEPT ![s] = [sourceRow[s] EXCEPT !.status = status]]
      BY <2>1, <2>5
    <3> QED
      BY <2>1, <2>2, <2>3, <2>4, <3>2, <3>3, SourceWritten
  <2>6. CASE ~HasSource(s)
    <3>1. sourceRow' = sourceRow
      BY <2>1, <2>6
    <3>2. TenderSourceExists'
      BY <1>0, <2>1, <3>1 DEF TenderSourceExists, HasTender, HasSource, SourceExists
    <3> QED
      BY <1>0, <2>1, <2>3, <3>1, <3>2, RowsChange DEF TendersTypeOK
  <2> QED
    BY <2>5, <2>6
<1> QED
  BY <1>1, <1>2, <1>3, <1>4, <1>5, <1>6, <1>7 DEF SourceStep

LEMMA TendersStepIInv == TendersIInv /\ [TendersNext]_tendersVars => TendersIInv'
<1>1. TendersIInv /\ UNCHANGED tendersVars => TendersIInv'
  <2> SUFFICES ASSUME TendersIInv, UNCHANGED tendersVars PROVE TendersIInv'
    OBVIOUS
  <2>1. TenderSourceExists'
    BY DEF TendersIInv, tendersVars, TenderSourceExists, HasTender, HasSource, SourceExists
  <2> QED
    BY <2>1, RowsChange DEF TendersIInv, tendersVars, TendersTypeOK
<1> QED
  BY <1>1, TenderStepIInv, SourceStepIInv DEF TendersNext

-----------------------------------------------------------------------------
\* A step changes a field of a tender or the name of a source only for a request that
\* names it.
LEMMA TenderFieldNamed ==
  ASSUME TendersIInv, TendersNext, NEW t \in TenderIds, NEW f \in {"title", "source", "status"},
         HasTender(t), tenderRow'[t][f] # tenderRow[t][f]
  PROVE  \E w \in Editors :
            \/ editing[w].kind = "tender" /\ editing[w].id = t /\ f \in DOMAIN editing[w].patch
            \/ editing[w].kind = "delete" /\ editing[w].id = tenderRow[t].source /\ f = "source"
<1>0. TendersTypeOK /\ EditsKept /\ tenderRow[t] \in TenderRow
  BY RowKinds DEF TendersIInv
<1>1. ASSUME NEW x \in TenderIds, NEW request \in TenderInputs, CreateTender(x, request) PROVE FALSE
  <2>1. t # x
    BY <1>0, <1>1, RowKinds DEF CreateTender, HasTender
  <2> QED
    BY <1>0, <1>1, <2>1 DEF CreateTender, TendersTypeOK
<1>2. ASSUME NEW w \in Editors, UpdateTenderWrites(w)
      PROVE  editing[w].kind = "tender" /\ editing[w].id = t /\ f \in DOMAIN editing[w].patch
  <2>1. editing[w].kind = "tender" /\ tenderRow' = [tenderRow EXCEPT ![editing[w].id] = editing[w].row]
    BY <1>2 DEF UpdateTenderWrites
  <2>2. editing[w].id = t /\ tenderRow'[t] = editing[w].row
    BY <1>0, <2>1 DEF TendersTypeOK
  <2>3. editing[w].patch \in TenderPatches
    BY <1>0, <2>1, EditKinds
  <2>4. /\ TenderAccepted(mergeTenderUpdateRequest(tenderRow[t], editing[w].patch))
        /\ editing[w].row = normalizeTenderWriteRequest(mergeTenderUpdateRequest(tenderRow[t], editing[w].patch))
    BY <1>0, <2>1, <2>2 DEF EditsKept, TenderIsRead
  <2> QED
    BY <1>0, <2>1, <2>2, <2>3, <2>4, NamedTenderFields
<1>3. ASSUME NEW w \in Editors, DeleteSourceCommits(w)
      PROVE  editing[w].kind = "delete" /\ editing[w].id = tenderRow[t].source /\ f = "source"
  <2> DEFINE since == {x \in TenderIds : HasTender(x) /\ tenderRow[x].source = editing[w].id} \ editing[w].detached
  <2>1. editing[w].kind = "delete" /\ tenderRow' = Detached(editing[w].detached \union since)
    BY <1>3 DEF DeleteSourceCommits
  <2>2. tenderRow'[t] = IF t \in editing[w].detached \union since
                        THEN [tenderRow[t] EXCEPT !.source = NoSource] ELSE tenderRow[t]
    BY <2>1 DEF Detached
  <2>3. t \in editing[w].detached \union since /\ f = "source"
    BY <1>0, <2>2 DEF TenderRow
  <2>4. tenderRow[t].source = editing[w].id
    BY <1>0, <2>1, <2>3 DEF EditsKept, DetachedBelong
  <2> QED
    BY <2>1, <2>3, <2>4
<1>4. ASSUME tenderRow' = tenderRow PROVE FALSE
  BY <1>4
<1> QED
  BY <1>1, <1>2, <1>3, <1>4 DEF TendersNext, TenderStep, SourceStep, SetFavorite, UpdateTender, EditFails,
     CreateSource, UpdateSource, UpdateSourceWrites, DeleteSource, VerifySource, SourceVerified

LEMMA SourceNameNamed ==
  ASSUME TendersIInv, TendersNext, NEW s \in SourceIds,
         HasSource(s), HasSource(s)', sourceRow'[s].name # sourceRow[s].name
  PROVE  \E w \in Editors :
            editing[w].kind = "source" /\ editing[w].id = s /\ "name" \in DOMAIN editing[w].patch
<1>0. TendersTypeOK /\ EditsKept /\ sourceRow[s] \in SourceRow
  BY RowKinds DEF TendersIInv
<1>1. ASSUME NEW x \in SourceIds, NEW request \in SourceInputs, CreateSource(x, request) PROVE FALSE
  <2>1. /\ sourceRow' = [sourceRow EXCEPT ![x] = normalizeSourceWriteRequest(request)]
        /\ sourceRow[x] = Unborn \/ sourceRow[x].name = normalizeSourceWriteRequest(request).name
    BY <1>1 DEF CreateSource
  <2>2. s = x /\ sourceRow'[s] = normalizeSourceWriteRequest(request)
    BY <1>0, <2>1 DEF TendersTypeOK
  <2> QED
    BY <1>0, <2>1, <2>2, RowKinds DEF HasSource
<1>2. ASSUME NEW w \in Editors, UpdateSourceWrites(w)
      PROVE  editing[w].kind = "source" /\ editing[w].id = s /\ "name" \in DOMAIN editing[w].patch
  <2>1. editing[w].kind = "source" /\ sourceRow' = [sourceRow EXCEPT ![editing[w].id] = editing[w].row]
    BY <1>2 DEF UpdateSourceWrites
  <2>2. editing[w].id = s /\ sourceRow'[s] = editing[w].row
    BY <1>0, <2>1 DEF TendersTypeOK
  <2> DEFINE request == mergeSourceUpdateRequest(sourceRow[s], editing[w].patch)
  <2>3. SourceAccepted(request) /\ editing[w].row = normalizeSourceWriteRequest(request)
    BY <1>0, <2>1, <2>2 DEF EditsKept, SourceIsRead
  <2>4. request \in SourceRequest
    BY <1>0, <2>1, EditKinds, SourceMerged
  <2>5. request.name # sourceRow[s].name
    BY <2>2, <2>3, <2>4, SourceNormalized
  <2> QED
    BY <2>1, <2>2, <2>5 DEF mergeSourceUpdateRequest, Patched
<1>3. ASSUME NEW w \in Editors, DeleteSourceCommits(w) PROVE FALSE
  <2>1. sourceRow' = [sourceRow EXCEPT ![editing[w].id] = Deleted]
    BY <1>3 DEF DeleteSourceCommits
  <2> QED
    BY <1>0, <2>1, RowKinds DEF TendersTypeOK, HasSource
<1>4. ASSUME NEW w \in Editors, NEW status \in {"active", "failed"}, SourceVerified(w, status) PROVE FALSE
  <2>1. sourceRow' = IF HasSource(editing[w].id) THEN [sourceRow EXCEPT ![editing[w].id].status = status]
                     ELSE sourceRow
    BY <1>4 DEF SourceVerified
  <2>2. sourceRow'[s] \in {sourceRow[s], [sourceRow[s] EXCEPT !.status = status]}
    BY <1>0, <2>1 DEF TendersTypeOK
  <2> QED
    BY <1>0, <2>2 DEF SourceRow
<1>5. ASSUME sourceRow' = sourceRow PROVE FALSE
  BY <1>5
<1> QED
  BY <1>1, <1>2, <1>3, <1>4, <1>5 DEF TendersNext, TenderStep, SourceStep, SetFavorite, CreateTender, UpdateTender,
     UpdateTenderWrites, EditFails, UpdateSource, DeleteSource, VerifySource

-----------------------------------------------------------------------------
\* Rows, and what requests have open, are of their types.
THEOREM TendersTypeCorrect == TendersSpec => []TendersTypeOK
<1>1. TendersIInv => TendersTypeOK
  BY DEF TendersIInv
<1> QED
  BY <1>1, TendersInitIInv, TendersStepIInv, PTL DEF TendersSpec

\* DeleteSource and the foreign key leave no tender with a source that is gone, however
\* many tenders are attached to it while it is being deleted.
THEOREM TendersHaveTheirSource == TendersSpec => []TenderSourceExists
<1>1. TendersIInv => TenderSourceExists
  BY DEF TendersIInv
<1> QED
  BY <1>1, TendersInitIInv, TendersStepIInv, PTL DEF TendersSpec

\* No PATCH of a tender or a source takes back what another has written.
THEOREM PatchesAreKept == TendersSpec => OnlyNamedChange
<1> DEFINE Named ==
       /\ \A t \in TenderIds, f \in {"title", "source", "status"} :
             HasTender(t) /\ tenderRow'[t][f] # tenderRow[t][f] =>
                 \E w \in Editors :
                    \/ editing[w].kind = "tender" /\ editing[w].id = t /\ f \in DOMAIN editing[w].patch
                    \/ editing[w].kind = "delete" /\ editing[w].id = tenderRow[t].source /\ f = "source"
       /\ \A s \in SourceIds :
             HasSource(s) /\ HasSource(s)' /\ sourceRow'[s].name # sourceRow[s].name =>
                 \E w \in Editors :
                    editing[w].kind = "source" /\ editing[w].id = s /\ "name" \in DOMAIN editing[w].patch
<1>1. TendersIInv /\ TendersNext => Named
  BY TenderFieldNamed, SourceNameNamed
<1>2. TendersIInv /\ [TendersNext]_tendersVars => [Named]_tendersVars
  BY <1>1
<1> QED
  BY <1>2, TendersInitIInv, TendersStepIInv, PTL DEF TendersSpec, OnlyNamedChange
=============================================================================
