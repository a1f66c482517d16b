------------------------------- MODULE Tenders -------------------------------
(*****************************************************************************)
(* backend/internal/platform/tender/store.go: the tenders a tenant keeps and *)
(* the sources it watches.  PATCH reads a row for update, merges and writes  *)
(* it in one transaction; DELETE of a source detaches its tenders first; the *)
(* check of a source asks its site between two transactions.  Of the columns *)
(* the title stands for all that carry text, dates and amounts, the name of  *)
(* a source for its type, URL and configuration.                             *)
(*****************************************************************************)
CONSTANTS TenderIds, SourceIds, \* rows that can come to be; an id is given once
          Titles, SourceNames,
          TenderInputs,  \* requests to create a tender
          TenderPatches, \* and to change one: only the fields it names
          SourceInputs, SourcePatches,
          Editors,       \* requests served at a time
          NoSource

Blank   == "blank"       \* an empty text
Unlisted == "unknown"     \* a status there is not
TenderStatuses == {"open", "closed", "awarded", "cancelled"}
SourceStatuses == {"active", "inactive", "failed"}

TenderRow == [title : Titles, source : SourceIds \union {NoSource}, status : TenderStatuses]
SourceRow == [name : SourceNames, status : SourceStatuses]
TenderRequest == [title : Titles \union {Blank}, source : SourceIds \union {NoSource},
                  status : TenderStatuses \union {Blank, Unlisted}]
SourceRequest == [name : SourceNames \union {Blank}, status : SourceStatuses \union {Blank, Unlisted}]

PartOf(request, patch) == \A f \in DOMAIN patch : f \in DOMAIN request /\ patch[f] = request[f]

ASSUME TendersAssumption ==
    /\ Blank \notin Titles \union SourceNames /\ NoSource \notin SourceIds
    /\ TenderInputs \subseteq TenderRequest /\ SourceInputs \subseteq SourceRequest
    /\ \A patch \in TenderPatches : \E request \in TenderRequest : PartOf(request, patch)
    /\ \A patch \in SourcePatches : \E request \in SourceRequest : PartOf(request, patch)

VARIABLES
    tenderRow, \* tenders
    sourceRow, \* tender_sources
    favorites, \* who marked which tender, of one user: tender_user_states
    editing    \* editing[w]: the transaction or the check a request has open

tendersVars == <<tenderRow, sourceRow, favorites, editing>>

Unborn == [status |-> "unborn"]
Deleted   == [status |-> "gone"]
NoEdit == [kind |-> "none"]

Edit == [kind : {"tender"}, id : TenderIds, patch : TenderPatches, row : TenderRow]
        \union [kind : {"source"}, id : SourceIds, patch : SourcePatches, row : SourceRow]
        \union [kind : {"delete"}, id : SourceIds, detached : SUBSET TenderIds]
        \union [kind : {"verify"}, id : SourceIds]

TendersTypeOK ==
    /\ tenderRow \in [TenderIds -> TenderRow \union {Unborn}]
    /\ sourceRow \in [SourceIds -> SourceRow \union {Unborn, Deleted}]
    /\ favorites \subseteq TenderIds
    /\ editing \in [Editors -> Edit \union {NoEdit}]

HasTender(t) == tenderRow[t].status \in TenderStatuses
HasSource(s) == sourceRow[s].status \in SourceStatuses

\* Rows that open transactions have written or read for update
TenderLocked(t) ==
    \E w \in Editors : \/ editing[w].kind = "tender" /\ editing[w].id = t
                       \/ editing[w].kind = "delete" /\ t \in editing[w].detached
SourceLocked(s) == \E w \in Editors : editing[w].kind = "source" /\ editing[w].id = s

-----------------------------------------------------------------------------
\* mergeTenderUpdateRequest, mergeSourceUpdateRequest: what the patch leaves out stays.
Patched(current, patch, f) == IF f \in DOMAIN patch THEN patch[f] ELSE current[f]

mergeTenderUpdateRequest(current, patch) ==
    [title  |-> Patched(current, patch, "title"),
     source |-> Patched(current, patch, "source"),
     status |-> Patched(current, patch, "status")]

mergeSourceUpdateRequest(current, patch) ==
    [name |-> Patched(current, patch, "name"), status |-> Patched(current, patch, "status")]

\* What the normalizations refuse, and the row they make of what they do not: a blank
\* title stands for any text, date, amount or metadata that is refused, a blank name
\* for any type, URL or configuration.
TenderAccepted(request) == request.title # Blank /\ request.status # Unlisted
normalizeTenderWriteRequest(request) ==
    [request EXCEPT !.status = IF request.status = Blank THEN "open" ELSE request.status]

SourceAccepted(request) == request.name # Blank /\ request.status # Unlisted
normalizeSourceWriteRequest(request) ==
    [request EXCEPT !.status = IF request.status = Blank THEN "active" ELSE request.status]

\* The foreign key of a tender, the unique key of a source
SourceExists(row) == row.source # NoSource => HasSource(row.source)
NameTaken(name, s) == \E x \in SourceIds \ {s} : HasSource(x) /\ sourceRow[x].name = name

-----------------------------------------------------------------------------
CreateTender(t, request) ==
    /\ tenderRow[t] = Unborn /\ TenderAccepted(request)
    /\ SourceExists(normalizeTenderWriteRequest(request))
    /\ tenderRow' = [tenderRow EXCEPT ![t] = normalizeTenderWriteRequest(request)]
    /\ UNCHANGED <<sourceRow, favorites, editing>>

\* Mutant: the row is read without "for update".
UpdateUnlocked(w, t, patch) ==
    LET request == mergeTenderUpdateRequest(tenderRow[t], patch) IN
    /\ editing[w] = NoEdit /\ HasTender(t) /\ TenderAccepted(request)
    /\ editing' = [editing EXCEPT ![w] =
          [kind |-> "tender", id |-> t, patch |-> patch, row |-> normalizeTenderWriteRequest(request)]]
    /\ UNCHANGED <<tenderRow, sourceRow, favorites>>

\* UpdateTender up to its write: select ... for update of t
UpdateTender(w, t, patch) ==
    LET request == mergeTenderUpdateRequest(tenderRow[t], patch) IN
    /\ editing[w] = NoEdit /\ HasTender(t) /\ ~TenderLocked(t) /\ TenderAccepted(request)
    /\ editing' = [editing EXCEPT ![w] =
          [kind |-> "tender", id |-> t, patch |-> patch, row |-> normalizeTenderWriteRequest(request)]]
    /\ UNCHANGED <<tenderRow, sourceRow, favorites>>

\* It writes every column and commits.
UpdateTenderWrites(w) ==
    /\ editing[w].kind = "tender" /\ SourceExists(editing[w].row)
    /\ tenderRow' = [tenderRow EXCEPT ![editing[w].id] = editing[w].row]
    /\ editing' = [editing EXCEPT ![w] = NoEdit]
    /\ UNCHANGED <<sourceRow, favorites>>

\* Any of the transactions is rolled back: a key is violated, the row to delete is gone,
\* the connection breaks; or the request with the check is given up.
EditFails(w) ==
    /\ editing[w] # NoEdit
    /\ editing' = [editing EXCEPT ![w] = NoEdit]
    /\ UNCHANGED <<tenderRow, sourceRow, favorites>>

SetFavorite(t, favorite) ==
    /\ HasTender(t)
    /\ favorites' = IF favorite THEN favorites \union {t} ELSE favorites \ {t}
    /\ UNCHANGED <<tenderRow, sourceRow, editing>>

\* CreateSource: insert ... on conflict (tenant_id, name) do update
CreateSource(s, request) ==
    LET row == normalizeSourceWriteRequest(request) IN
    /\ SourceAccepted(request) /\ ~NameTaken(row.name, s)
    /\ \/ sourceRow[s] = Unborn
       \/ HasSource(s) /\ sourceRow[s].name = row.name /\ ~SourceLocked(s)
    /\ sourceRow' = [sourceRow EXCEPT ![s] = row]
    /\ UNCHANGED <<tenderRow, favorites, editing>>

UpdateSource(w, s, patch) ==
    LET request == mergeSourceUpdateRequest(sourceRow[s], patch) IN
    /\ editing[w] = NoEdit /\ HasSource(s) /\ ~SourceLocked(s) /\ SourceAccepted(request)
    /\ editing' = [editing EXCEPT ![w] =
          [kind |-> "source", id |-> s, patch |-> patch, row |-> normalizeSourceWriteRequest(request)]]
    /\ UNCHANGED <<tenderRow, sourceRow, favorites>>

UpdateSourceWrites(w) ==
    /\ editing[w].kind = "source" /\ ~NameTaken(editing[w].row.name, editing[w].id)
    /\ sourceRow' = [sourceRow EXCEPT ![editing[w].id] = editing[w].row]
    /\ editing' = [editing EXCEPT ![w] = NoEdit]
    /\ UNCHANGED <<tenderRow, favorites>>

\* DeleteSource: its tenders are detached once nobody has them locked,
DeleteSource(w, s) ==
    LET detached == {t \in TenderIds : HasTender(t) /\ tenderRow[t].source = s} IN
    /\ editing[w] = NoEdit /\ sourceRow[s] # Unborn
    /\ \A t \in detached : ~TenderLocked(t)
    /\ editing' = [editing EXCEPT ![w] = [kind |-> "delete", id |-> s, detached |-> detached]]
    /\ UNCHANGED <<tenderRow, sourceRow, favorites>>

Detached(set) ==
    [t \in TenderIds |-> IF t \in set THEN [tenderRow[t] EXCEPT !.source = NoSource] ELSE tenderRow[t]]

\* then the source is deleted, and the foreign key detaches what was attached since.
DeleteSourceCommits(w) ==
    LET s == editing[w].id
        since == {t \in TenderIds : HasTender(t) /\ tenderRow[t].source = s} \ editing[w].detached
    IN  /\ editing[w].kind = "delete" /\ HasSource(s) /\ ~SourceLocked(s)
        /\ \A t \in since : ~TenderLocked(t)
        /\ tenderRow' = Detached(editing[w].detached \union since)
        /\ sourceRow' = [sourceRow EXCEPT ![s] = Deleted]
        /\ editing' = [editing EXCEPT ![w] = NoEdit]
        /\ UNCHANGED favorites

\* VerifySource has read the source and asks its site.
VerifySource(w, s) ==
    /\ editing[w] = NoEdit /\ HasSource(s)
    /\ editing' = [editing EXCEPT ![w] = [kind |-> "verify", id |-> s]]
    /\ UNCHANGED <<tenderRow, sourceRow, favorites>>

\* Whatever has become of the source, the outcome is its status; a row that is gone is
\* not updated.
SourceVerified(w, status) ==
    LET s == editing[w].id IN
    /\ editing[w].kind = "verify" /\ ~SourceLocked(s)
    /\ sourceRow' = IF HasSource(s) THEN [sourceRow EXCEPT ![s].status = status] ELSE sourceRow
    /\ editing' = [editing EXCEPT ![w] = NoEdit]
    /\ UNCHANGED <<tenderRow, favorites>>

TendersInit ==
    /\ tenderRow = [t \in TenderIds |-> Unborn] /\ sourceRow = [s \in SourceIds |-> Unborn]
    /\ favorites = {} /\ editing = [w \in Editors |-> NoEdit]

TenderStep ==
    \/ \E t \in TenderIds, favorite \in BOOLEAN : SetFavorite(t, favorite)
    \/ \E t \in TenderIds, request \in TenderInputs : CreateTender(t, request)
    \/ \E w \in Editors : \/ \E t \in TenderIds, patch \in TenderPatches : UpdateTender(w, t, patch)
                          \/ UpdateTenderWrites(w) \/ EditFails(w)

SourceStep ==
    \/ \E s \in SourceIds, request \in SourceInputs : CreateSource(s, request)
    \/ \E w \in Editors :
          \/ \E s \in SourceIds : \/ \E patch \in SourcePatches : UpdateSource(w, s, patch)
                                  \/ DeleteSource(w, s) \/ VerifySource(w, s)
          \/ UpdateSourceWrites(w) \/ DeleteSourceCommits(w)
          \/ \E status \in {"active", "failed"} : SourceVerified(w, status)

TendersNext == TenderStep \/ SourceStep

TendersSpec == TendersInit /\ [][TendersNext]_tendersVars

-----------------------------------------------------------------------------
\* Nobody waits for a source before attaching a tender to it, and it is deleted in two
\* statements: still every tender's source is one there is.
TenderSourceExists == \A t \in TenderIds : HasTender(t) => SourceExists(tenderRow[t])

\* A PATCH writes every column of the row it has read, and whatever others wrote
\* meanwhile survives: a field changes only by a request that names it, the source of a
\* tender also when that is deleted.
OnlyNamedChange ==
    [][/\ \A t \in TenderIds, f \in {"title", "source", "status"} :
             HasTender(t) /\ tenderRow'[t][f] # tenderRow[t][f] =>
                 \E w \in Editors :
                    \/ editing[w].kind = "tender" /\ editing[w].id = t /\ f \in DOMAIN editing[w].patch
                    \/ editing[w].kind = "delete" /\ editing[w].id = tenderRow[t].source /\ f = "source"
       /\ \A s \in SourceIds :
             HasSource(s) /\ HasSource(s)' /\ sourceRow'[s].name # sourceRow[s].name =>
                 \E w \in Editors :
                    editing[w].kind = "source" /\ editing[w].id = s /\ "name" \in DOMAIN editing[w].patch
      ]_tendersVars
=============================================================================
