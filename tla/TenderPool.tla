----------------------------- MODULE TenderPool -----------------------------
(****************************************************************************)
(* backend/internal/platform/tenderpool/store.go: collectors hand in        *)
(* batches of tenders for the public pool.  Ingest writes a batch and the   *)
(* record of its run in one transaction; transactions overlap, and one that *)
(* meets a row another open one has written waits for that one's end.  When *)
(* two wait for each other the database aborts one.                         *)
(****************************************************************************)
EXTENDS Naturals, FiniteSets, SequencesExt

CONSTANTS Keys,       \* external_id of the tenders of one source
          Bodies,     \* what a tender says
          Collectors, \* requests served at a time
          MaxLen,     \* bound: tenders in a batch
          MaxRuns     \* bound: recorded runs

ASSUME PoolBoundsAssumption == MaxLen \in Nat /\ MaxRuns \in Nat /\ "absent" \notin Bodies

Tender == [key : Keys, body : Bodies]

VARIABLES
    pool,   \* platform_tenders: what the row of a key says
    ingest, \* ingest[c]: the batch, the places of it that are left to upsert, and the
            \* keys that were inserted and updated
    runs,   \* platform_collector_runs, with the keys that were handed in and what the
            \* answer counts (the row has the sum)
    handed, \* history: the tenders of all recorded runs, one after the other
    added   \* history: the sum of what the answers count as ingested

poolVars == <<pool, ingest, runs, handed, added>>

Absent  == [body |-> "absent"]
NoBatch == [left |-> {}, ingested |-> {}, updated |-> {}]

KeysOf(tenders) == {tenders[p].key : p \in DOMAIN tenders}

PoolTypeOK ==
    /\ pool \in [Keys -> [body : Bodies] \union {Absent}]
    /\ ingest \in [Collectors ->
          {NoBatch} \union [raw : Seq(Tender), left : SUBSET Nat,
                            ingested : SUBSET Keys, updated : SUBSET Keys]]
    /\ runs \in Seq([keys : SUBSET Keys, ingested : Nat, updated : Nat]) /\ Len(runs) <= MaxRuns
    /\ handed \in Seq(Tender) /\ added \in Nat

-----------------------------------------------------------------------------
\* What the last of the tenders with the key k says.
LastSays(tenders, k) == tenders[Max({p \in DOMAIN tenders : tenders[p].key = k})].body

FirstPlaces(tenders) == {p \in DOMAIN tenders : \A q \in 1..(p - 1) : tenders[q].key # tenders[p].key}

\* Mutant: the first of two tenders with one id stays.
KeepsFirst(raw) ==
    [order |-> FirstPlaces(raw),
     says  |-> [k \in KeysOf(raw) |-> raw[CHOOSE p \in FirstPlaces(raw) : raw[p].key = k].body]]

\* normalizeIngestRequest: a tender whose id the batch has already takes the place
\* of the earlier one and is counted as skipped.  normalizeTenderInput refuses the
\* whole batch for one bad tender, before any write: no step.
normalizeIngestRequest(raw) ==
    [order |-> FirstPlaces(raw),
     says  |-> [k \in KeysOf(raw) |-> LastSays(raw, k)]]

\* The keys c has written and not committed.
Written(c) == ingest[c].ingested \union ingest[c].updated

Ingest(c, raw) ==
    /\ ingest[c] = NoBatch /\ Len(runs) < MaxRuns
    /\ ingest' = [ingest EXCEPT ![c] = [raw |-> raw, left |-> normalizeIngestRequest(raw).order,
                                        ingested |-> {}, updated |-> {}]]
    /\ UNCHANGED <<pool, runs, handed, added>>

\* insert ... on conflict do update returning xmax = 0
Upsert(c) ==
    LET w == ingest[c]
        p == Min(w.left)
        k == w.raw[p].key
    IN  /\ w.left # {}
        /\ \A d \in Collectors \ {c} : k \notin Written(d)
        /\ ingest' = [ingest EXCEPT ![c] =
              IF pool[k] = Absent THEN [w EXCEPT !.left = w.left \ {p}, !.ingested = w.ingested \union {k}]
                                  ELSE [w EXCEPT !.left = w.left \ {p}, !.updated = w.updated \union {k}]]
        /\ UNCHANGED <<pool, runs, handed, added>>

\* The run is recorded and the transaction commits.
Record(c) ==
    LET w == ingest[c] IN
    /\ w # NoBatch /\ w.left = {} /\ Len(runs) < MaxRuns
    /\ pool' = [k \in Keys |-> IF k \in Written(c) THEN [body |-> normalizeIngestRequest(w.raw).says[k]] ELSE pool[k]]
    /\ runs' = Append(runs, [keys |-> KeysOf(w.raw), ingested |-> Cardinality(w.ingested),
                             updated |-> Cardinality(w.updated)])
    /\ handed' = handed \o w.raw
    /\ added' = added + Cardinality(w.ingested)
    /\ ingest' = [ingest EXCEPT ![c] = NoBatch]

\* The transaction is lost: a deadlock, a broken connection, an error.
Rollback(c) ==
    /\ ingest[c] # NoBatch
    /\ ingest' = [ingest EXCEPT ![c] = NoBatch]
    /\ UNCHANGED <<pool, runs, handed, added>>

PoolInit ==
    /\ pool = [k \in Keys |-> Absent]
    /\ ingest = [c \in Collectors |-> NoBatch]
    /\ runs = <<>> /\ handed = <<>> /\ added = 0

PoolNext ==
    \E c \in Collectors :
        \/ \E raw \in BoundedSeq(Tender, MaxLen) : raw # <<>> /\ Ingest(c, raw)
        \/ Upsert(c)
        \/ Record(c)
        \/ Rollback(c)

PoolSpec == PoolInit /\ [][PoolNext]_poolVars

-----------------------------------------------------------------------------
\* Whatever batches overlapped, waited or were lost, the pool is what the recorded
\* runs would have made one after the other: the row of a key says what the last
\* tender with that key said, there is a row for no other key, every run accounts for
\* each of its keys once, and the rows the runs say they added are the rows there are.
PoolIsSerial ==
    /\ \A k \in Keys :
          pool[k] = IF k \in KeysOf(handed) THEN [body |-> LastSays(handed, k)] ELSE Absent
    /\ \A n \in DOMAIN runs : runs[n].ingested + runs[n].updated = Cardinality(runs[n].keys)
    /\ added = Cardinality({k \in Keys : pool[k] # Absent})
=============================================================================
