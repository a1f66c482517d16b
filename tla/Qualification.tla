--------------------------- MODULE Qualification ---------------------------
(***************************************************************************)
(* backend/internal/company/qualification: the company's certificates and  *)
(* people, extracted by zizhi-api from a file store, synchronised into the *)
(* tenant's tables and confirmed or rejected by people.                    *)
(*                                                                         *)
(* SyncFromZizhi fetches one category after the other and then writes what *)
(* it fetched row by row; other synchronisations, reviewers and the source *)
(* go on in between.  Every write of a row is one statement.               *)
(***************************************************************************)
EXTENDS Naturals, FiniteSets

CONSTANTS Files, People,         \* what zizhi has an id for: the source_ref of a row
          HandCerts, HandPeople, \* rows that people enter
          Syncs,                 \* synchronisations at a time
          Texts,                 \* what zizhi or a reviewer writes of a level: sets of words
          MaxSource,             \* bound: changes of the source
          MaxReviews             \* bound: rows people save

ASSUME QualificationAssumption ==
    /\ Texts \subseteq SUBSET {"special", "first", "grade_a", "second", "third"}
    /\ (Files \union HandCerts) \intersect (People \union HandPeople) = {}
    /\ (Files \union People) \intersect (HandCerts \union HandPeople) = {}
    /\ MaxSource \in Nat /\ MaxReviews \in Nat

Certs   == Files \union HandCerts
Persons == People \union HandPeople
Sources == Files \union People

\* The turns of a synchronisation: three of the twelve certificateCategories, in their
\* order, construction_grade_2, highway_maintenance_grade_a and iso; then the people.
Turns      == 1..4
PeopleTurn == 4

VARIABLES
    zizhi,   \* the source: the turn that finds an item (0: none), and its text
    rows,    \* company_certificates and company_personnel, by source_ref
    sync,    \* sync[s]: the turn to fetch next, and what is fetched and not written
    said,    \* history: a row as a person saved it last
    sourced, saves

qualVars == <<zizhi, rows, sync, said, sourced, saves>>

Words    == {"special", "first", "grade_a", "second", "third"}
Unknown  == [turn |-> 0, text |-> {}]
NoRow    == [status |-> "absent"]
Decided  == {"confirmed", "rejected"}
Row      == [status : {"pending_review"} \union Decided, level : SUBSET Words, rank : 0..4, serving : BOOLEAN]
Fetched  == [ref : Sources, level : SUBSET Words, rank : 0..4]

QualTypeOK ==
    /\ zizhi \in [Sources -> [turn : 0..4, text : SUBSET Words]]
    /\ rows \in [Certs \union Persons -> Row \union {NoRow}]
    /\ said \in [Certs \union Persons -> Row \union {NoRow}]
    /\ sync \in [Syncs -> [turn : 0..5, batch : SUBSET Fetched]]
    /\ sourced \in 0..MaxSource /\ saves \in 0..MaxReviews

-----------------------------------------------------------------------------
\* NormalizeLevel: the highest level among the words, by its first name
NormalizeLevel(text) ==
    IF "special" \in text THEN [level |-> {"special"}, rank |-> 4]
    ELSE IF "first" \in text \/ "grade_a" \in text THEN [level |-> {"first"}, rank |-> 3]
    ELSE IF "second" \in text THEN [level |-> {"second"}, rank |-> 2]
    ELSE IF "third" \in text THEN [level |-> {"third"}, rank |-> 1]
    ELSE [level |-> {}, rank |-> 0]

\* MapCategory: the level a category stands for
MapCategory(turn) ==
    CASE turn = 1 -> [level |-> {"second"}, rank |-> 2]
      [] turn = 2 -> [level |-> {"grade_a"}, rank |-> 3]
      [] OTHER    -> [level |-> {}, rank |-> 0]

\* ResolveLevel: the text counts, but where it has no level or the level of the
\* category it is called as the category calls it.
ResolveLevel(text, mapping) ==
    LET own == NormalizeLevel(text) IN
    IF mapping.rank # 0 /\ own.rank \in {0, mapping.rank} THEN mapping ELSE own

\* What a turn finds.  company_personnel has no rank.
Found(turn) ==
    {[ref |-> r, level |-> ResolveLevel(zizhi[r].text, MapCategory(turn)).level,
      rank |-> IF r \in Files THEN ResolveLevel(zizhi[r].text, MapCategory(turn)).rank ELSE 0] :
        r \in {q \in Sources : zizhi[q].turn = turn}}

-----------------------------------------------------------------------------
\* The synchronisation begins at the first category.
SyncFromZizhi(s) ==
    /\ sync[s].turn = 0
    /\ sync' = [sync EXCEPT ![s].turn = 1]
    /\ UNCHANGED <<zizhi, rows, said, sourced, saves>>

\* SearchByCategory and, at the last turn, People
Fetch(s) ==
    /\ sync[s].turn \in Turns /\ sync[s].batch = {}
    /\ sync' = [sync EXCEPT ![s] = [turn |-> @.turn + 1, batch |-> Found(@.turn)]]
    /\ UNCHANGED <<zizhi, rows, said, sourced, saves>>

\* The fetch failed or hit the limit of the interface: a warning, and on.
FetchFails(s) ==
    /\ sync[s].turn \in Turns /\ sync[s].batch = {}
    /\ sync' = [sync EXCEPT ![s].turn = @ + 1]
    /\ UNCHANGED <<zizhi, rows, said, sourced, saves>>

\* Mutant: the update has no where clause.
AlwaysRefreshed(row, item) ==
    IF row = NoRow
    THEN [status |-> "pending_review", level |-> item.level, rank |-> item.rank, serving |-> TRUE]
    ELSE [status |-> row.status, level |-> item.level, rank |-> item.rank, serving |-> row.serving]

\* insert ... on conflict do update where verify_status = 'pending_review': in_service
\* is not among the columns that are updated.
Refreshed(row, item) ==
    CASE row = NoRow ->
            [status |-> "pending_review", level |-> item.level, rank |-> item.rank, serving |-> TRUE]
      [] row.status = "pending_review" ->
            [status |-> row.status, level |-> item.level, rank |-> item.rank, serving |-> row.serving]
      [] OTHER -> row

\* upsertCertificate and upsertPerson
UpsertItem(s, item) ==
    /\ item \in sync[s].batch
    /\ sync' = [sync EXCEPT ![s].batch = @ \ {item}]
    /\ rows' = [rows EXCEPT ![item.ref] = Refreshed(@, item)]
    /\ UNCHANGED <<zizhi, said, sourced, saves>>

\* The write failed: a warning, and on.
UpsertFails(s, item) ==
    /\ item \in sync[s].batch
    /\ sync' = [sync EXCEPT ![s].batch = @ \ {item}]
    /\ UNCHANGED <<zizhi, rows, said, sourced, saves>>

\* The last row is written; countPendingReview only reads.
SyncEnds(s) ==
    /\ sync[s].turn = 5 /\ sync[s].batch = {}
    /\ sync' = [sync EXCEPT ![s].turn = 0]
    /\ UNCHANGED <<zizhi, rows, said, sourced, saves>>

-----------------------------------------------------------------------------
\* A person saves a row.
Saved(r, row) ==
    /\ saves < MaxReviews /\ saves' = saves + 1
    /\ rows' = [rows EXCEPT ![r] = row]
    /\ said' = [said EXCEPT ![r] = row]
    /\ UNCHANGED <<zizhi, sync, sourced>>

\* applyLevel: the words stay as they were written, the rank is computed.
applyLevel(r, text) == [level |-> text, rank |-> IF r \in Certs THEN NormalizeLevel(text).rank ELSE 0]

\* ReviewCertificate and ReviewPersonnel, with a level or without one; a decision can
\* be taken back to pending_review.  A person's in_service can be set.
Review(r, status, serving) ==
    /\ rows[r] # NoRow
    /\ r \in Certs => serving = rows[r].serving
    /\ \/ Saved(r, [status |-> status, level |-> rows[r].level, rank |-> rows[r].rank, serving |-> serving])
       \/ \E text \in Texts :
             Saved(r, [status |-> status, level |-> applyLevel(r, text).level,
                       rank |-> applyLevel(r, text).rank, serving |-> serving])

\* CreateCertificate and CreatePersonnel: confirmed at once
CreateByHand(r, text, serving) ==
    /\ rows[r] = NoRow /\ r \in HandCerts => serving
    /\ Saved(r, [status |-> "confirmed", level |-> text, serving |-> serving,
                 rank |-> IF r \in HandCerts THEN NormalizeLevel(text).rank ELSE 0])

\* zizhi reads its files anew: an item has another text, category, or is gone.
SourceChanges(r, turn, text) ==
    /\ sourced < MaxSource /\ sourced' = sourced + 1
    /\ turn \in (IF r \in Files THEN 0..3 ELSE {0, PeopleTurn})
    /\ zizhi' = [zizhi EXCEPT ![r] = IF turn = 0 THEN Unknown ELSE [turn |-> turn, text |-> text]]
    /\ UNCHANGED <<rows, sync, said, saves>>

QualInit ==
    /\ zizhi = [r \in Sources |-> Unknown]
    /\ rows = [r \in Certs \union Persons |-> NoRow]
    /\ said = [r \in Certs \union Persons |-> NoRow]
    /\ sync = [s \in Syncs |-> [turn |-> 0, batch |-> {}]]
    /\ sourced = 0 /\ saves = 0

SyncStep ==
    \E s \in Syncs :
        \/ SyncFromZizhi(s) \/ Fetch(s) \/ FetchFails(s) \/ SyncEnds(s)
        \/ \E item \in sync[s].batch : UpsertItem(s, item) \/ UpsertFails(s, item)

ReviewStep ==
    \/ \E r \in Certs \union Persons, status \in {"pending_review"} \union Decided, serving \in BOOLEAN :
          Review(r, status, serving)
    \/ \E r \in HandCerts \union HandPeople, text \in Texts, serving \in BOOLEAN :
          CreateByHand(r, text, serving)

QualNext ==
    \/ SyncStep
    \/ ReviewStep
    \/ \E r \in Sources, turn \in 0..4, text \in Texts : SourceChanges(r, turn, text)

QualSpec == QualInit /\ [][QualNext]_qualVars

-----------------------------------------------------------------------------
\* SyncFromZizhi: "the machine does not overwrite what a person concluded".  However
\* synchronisations overlap with reviews and with each other, a row that is confirmed
\* or rejected is as the person who saved it last left it, and whether somebody is in
\* service is nobody's word but a person's.
VerdictKept ==
    \A r \in Certs \union Persons :
        /\ rows[r].status \in Decided => rows[r] = said[r]
        /\ said[r] # NoRow => rows[r] # NoRow /\ rows[r].serving = said[r].serving

\* cert_level_rank decides whether a certificate meets a requirement, and is written
\* beside the words of cert_level by four operations.  It is always the rank of the
\* highest level among these words, whoever wrote them and whatever the category says.
RankMatchesLevel ==
    \A r \in Certs : rows[r] # NoRow => rows[r].rank = NormalizeLevel(rows[r].level).rank
=============================================================================
