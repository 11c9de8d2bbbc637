------------------------------- MODULE Refresh -------------------------------
(***************************************************************************)
(* The change ledger of one procurement surface (the contract-award        *)
(* table): `pnull procurement ingest awards`, which records a file, and    *)
(* `pnull procurement refresh --live`, which fetches the page, records a   *)
(* snapshot with its rows, and derives the record diff and the change      *)
(* alerts against the previous snapshot.  Processes share one store; one   *)
(* action is one SQL statement, one transaction or the fetch.              *)
(*                                                                         *)
(* A snapshot's id hashes its bytes, so a snapshot is named by its         *)
(* content.  The parser is a constant function of the content.             *)
(***************************************************************************)
EXTENDS Naturals, Sequences, FiniteSets

CONSTANTS
    Process,         \* processes running ingest or refresh
    Content,         \* what the page can contain
    None,            \* no content
    Key, Value,      \* row identities, and the other fields of a row
    Parsed,          \* content -> its rows, or NoRows if it does not parse
    NoRows,
    Tagged,          \* the pages the server sends with an ETag
    MaxRuns,         \* bound: commands ever started
    MaxCorruptions   \* bound: stored rows damaged from outside

Row == [key : Key, value : Value]
ASSUME NoneAssumption == None \notin Content
ASSUME ParsedAssumption ==
    /\ NoRows \notin Seq(Row)
    /\ Parsed \in [Content -> Seq(Row) \cup {NoRows}]
ASSUME BoundAssumption == MaxRuns \in Nat /\ MaxCorruptions \in Nat

\* Both commands stamp what they record with a constant: OFFLINE_RETRIEVED_AT
\* for ingest, the later one of fetched_retrieved_at for refresh.
IngestTime == 1
RefreshTime == 2
Time == {IngestTime, RefreshTime}

Maybe == Content \cup {None}
Parsable == {c \in Content : Parsed[c] # NoRows}

Snapshot == [content : Content, time : Time, etag : BOOLEAN, supersedes : Maybe]
Kind == {"added", "modified", "removed"}
Alert == [kind : Kind, key : Key, old : Content, new : Content]

Step == {"idle", "fetch", "observe", "unchanged", "prior", "snapshot",
         "revision", "rows", "coverage", "diff", "alerts", "matters"}
Run == [pc : Step, time : Time, prior : Maybe, status : {200, 304},
        got : Maybe, etag : BOOLEAN, alerts : SUBSET Alert]
Idle == [pc |-> "idle", time |-> IngestTime, prior |-> None, status |-> 200,
         got |-> None, etag |-> FALSE, alerts |-> {}]

VARIABLES
    snapshots,      \* source_snapshots, in the order of insertion
    revisions,      \* snapshot_revisions: the snapshots that have one
    rowsets,        \* snapshot_rows + snapshot_row_sets: content -> rows
    raws,           \* snapshot_rows.raw_json: content -> the rows it reads as
    coverage,       \* coverage_ledger: time -> the content named there
    observations,   \* fetch_observations: status -> the content named there
    diffs,          \* snapshot_diffs: <<old, new>> -> record diff
    alerts,         \* procurement_alerts
    matters,        \* procurement_matters, by the row key they are named after
    proc            \* process -> Run

\* History: commands started and stored row sets damaged so far, whether a
\* crash, a damage or two commands at a time ever got in the way, and the
\* contents whose raw_json was damaged.
VARIABLES runs, corruptions, disturbed, tampered

ledger == <<snapshots, revisions, rowsets, raws, coverage, diffs, alerts, matters>>
history == <<runs, corruptions, disturbed, tampered>>
vars == <<ledger, observations, proc, history>>

-----------------------------------------------------------------------------
(* Rows, diffs and alerts. *)

Count(rows, k, v) == Cardinality({i \in DOMAIN rows :
                                      rows[i] = [key |-> k, value |-> v]})
Keys(rows) == {rows[i].key : i \in DOMAIN rows}

\* multiset_difference, for the rows of one key: the occurrences of a value
\* beyond those the other side has.
Surplus(a, b, k) ==
    {x \in Value \X (1..Len(a)) :
        Count(b, k, x[1]) < x[2] /\ x[2] <= Count(a, k, x[1])}
\* A mistake: values compared as sets.
SurplusOfSets(a, b, k) ==
    {x \in Value \X {1} : Count(b, k, x[1]) = 0 /\ Count(a, k, x[1]) > 0}

NoChange == [changed |-> 0, removed |-> 0, added |-> 0]
Min2(m, n) == IF m <= n THEN m ELSE n

\* A mistake: a diff that does so.
RecordDiffBySet(old, new) ==
    [k \in Key |->
        LET removed == Cardinality(SurplusOfSets(old, new, k))
            added == Cardinality(SurplusOfSets(new, old, k))
            overlap == Min2(removed, added)
        IN  [changed |-> overlap, removed |-> removed - overlap,
             added |-> added - overlap]]

\* record_diff: per key how many rows changed, went and came.
RecordDiff(old, new) ==
    [k \in Key |->
        LET removed == Cardinality(Surplus(old, new, k))
            added == Cardinality(Surplus(new, old, k))
            overlap == Min2(removed, added)
        IN  [changed |-> overlap, removed |-> removed - overlap,
             added |-> added - overlap]]
NoDiff == [k \in {} |-> NoChange]

\* The map build_change_alerts collects: of several rows with one identity
\* the last one stays.
IsLast(rows, i) == \A j \in DOMAIN rows : rows[j].key = rows[i].key => j <= i

KindOfChange(old, new, k) ==
    CASE k \notin Keys(new) -> "removed"
      [] k \notin Keys(old) -> "added"
      [] OTHER              -> "modified"

ChangedKeys(old, new) ==
    {k \in Keys(old) \cup Keys(new) : k \in Keys(old) \cap Keys(new) =>
        \E i \in DOMAIN old, j \in DOMAIN new :
            /\ IsLast(old, i) /\ old[i].key = k
            /\ IsLast(new, j) /\ new[j].key = k
            /\ old[i].value # new[j].value}

\* A mistake: the last loop, over rows that are new, forgotten.
AlertsWithoutAdditions(o, n, old, new) ==
    {[kind |-> KindOfChange(old, new, k), key |-> k, old |-> o, new |-> n] :
        k \in ChangedKeys(old, new) \cap Keys(old)}

ChangeAlerts(o, n, old, new) ==
    {[kind |-> KindOfChange(old, new, k), key |-> k, old |-> o, new |-> n] :
        k \in ChangedKeys(old, new)}

-----------------------------------------------------------------------------
Init ==
    /\ snapshots = <<>>
    /\ revisions = {}
    /\ rowsets = [c \in Content |-> NoRows]
    /\ raws = [c \in Content |-> NoRows]
    /\ coverage = [t \in Time |-> None]
    /\ observations = [status \in {200, 304} |-> None]
    /\ diffs = [pair \in Content \X Content |-> NoDiff]
    /\ alerts = {}
    /\ matters = {}
    /\ proc = [p \in Process |-> Idle]
    /\ runs = 0
    /\ corruptions = 0
    /\ disturbed = FALSE
    /\ tampered = {}

At(p, step) == proc[p].pc = step
Goto(p, step) == proc' = [proc EXCEPT ![p].pc = step]
Exit(p) == proc' = [proc EXCEPT ![p] = Idle]

Known == {snapshots[i].content : i \in DOMAIN snapshots}
SnapshotOf(c) == CHOOSE s \in {snapshots[i] : i \in DOMAIN snapshots} : s.content = c

\* latest_snapshot: the last of ORDER BY retrieved_at; equal times keep the
\* order of insertion.
IsLatest(o) ==
    \/ snapshots = <<>> /\ o = None
    \/ \E i \in DOMAIN snapshots :
          /\ snapshots[i].content = o
          /\ \A j \in DOMAIN snapshots :
                \/ snapshots[j].time < snapshots[i].time
                \/ snapshots[j].time = snapshots[i].time /\ j <= i

\* A mistake: stored rows taken as they are.
StoredUnchecked(c) == rowsets[c] # NoRows
\* snapshot_rows: count and digests agree with the completion metadata.  The
\* digests are of the keys and the canonical forms.
Verified(c) == rowsets[c] # NoRows /\ rowsets[c] = Parsed[c]

InsertCoverageRow(t, c) ==
    coverage' = [coverage EXCEPT ![t] = IF @ = None THEN c ELSE @]

Start(p, run) ==
    /\ At(p, "idle")
    /\ runs < MaxRuns
    /\ runs' = runs + 1
    /\ proc' = [proc EXCEPT ![p] = run]
    /\ disturbed' = (disturbed \/ \E q \in Process : ~At(q, "idle"))
    /\ UNCHANGED <<ledger, observations, corruptions, tampered>>

-----------------------------------------------------------------------------
(* ingest awards: a file that parses, and the latest snapshot. *)
Ingest(p, c) ==
    /\ c \in Parsable
    /\ \E o \in Maybe : /\ IsLatest(o)
                        /\ Start(p, [Idle EXCEPT !.pc = "snapshot", !.got = c, !.prior = o])

(* refresh --live, past the source-review gate: the latest snapshot is read. *)
Refresh(p) ==
    \E o \in Maybe :
        /\ IsLatest(o)
        /\ Start(p, [Idle EXCEPT !.pc = "fetch", !.time = RefreshTime, !.prior = o])

(* The page is fetched, conditionally if the latest snapshot has an ETag.    *)
(* A failed fetch ends the command.                                          *)
Fetch(p) ==
    LET me == proc[p] IN
    /\ At(p, "fetch")
    /\ \/ \E c \in Content :
            proc' = [proc EXCEPT ![p] = [me EXCEPT
                        !.pc = "observe", !.got = c, !.etag = c \in Tagged]]
       \/ /\ me.prior # None
          /\ SnapshotOf(me.prior).etag
          /\ proc' = [proc EXCEPT ![p] = [me EXCEPT
                        !.pc = "observe", !.status = 304, !.got = me.prior]]
       \/ Exit(p)
    /\ UNCHANGED <<ledger, observations, history>>

(* INSERT OR IGNORE under an id of (url, time, status).                      *)
Observe(p) ==
    LET me == proc[p] IN
    /\ At(p, "observe")
    /\ observations' = [observations EXCEPT ![me.status] =
                            IF @ = None THEN me.got ELSE @]
    /\ \/ me.status = 304 /\ Goto(p, "unchanged")
       \/ me.status = 200 /\ me.got \in Parsable /\ Goto(p, "prior")
       \/ me.status = 200 /\ me.got \notin Parsable /\ Exit(p)
    /\ UNCHANGED <<ledger, history>>

(* record_unchanged. *)
Unchanged(p) ==
    /\ At(p, "unchanged")
    /\ InsertCoverageRow(RefreshTime, proc[p].prior)
    /\ Exit(p)
    /\ UNCHANGED <<snapshots, revisions, rowsets, raws, diffs, alerts, matters,
                   observations, history>>

(* The prior snapshot's stored rows are read; no rows, damaged rows or none  *)
(* at all mean no alerts.  What is compared is not the rows that were        *)
(* verified but what their raw_json reads as, where it reads at all.         *)
ReadPrior(p) ==
    LET me == proc[p]
        o == me.prior
        built == IF /\ o # None /\ o # me.got
                    /\ Verified(o) /\ raws[o] # <<>>
                 THEN ChangeAlerts(o, me.got, raws[o], Parsed[me.got])
                 ELSE {}
    IN
    /\ At(p, "prior")
    /\ proc' = [proc EXCEPT ![p] = [me EXCEPT !.pc = "snapshot", !.alerts = built]]
    /\ UNCHANGED <<ledger, observations, history>>

\* A mistake: a snapshot replaces the row it had.
InsertSnapshotReplacing(p) ==
    LET me == proc[p]
        old == SelectSeq(snapshots, LAMBDA s : s.content # me.got)
    IN
    /\ At(p, "snapshot")
    /\ snapshots' = Append(old, [content |-> me.got, time |-> me.time,
                              etag |-> me.etag, supersedes |-> me.prior])
    /\ Goto(p, "rows")
    /\ UNCHANGED <<revisions, rowsets, raws, coverage, diffs, alerts, matters,
                   observations, history>>

(* record_snapshot, first statement: INSERT OR IGNORE. *)
InsertSnapshot(p) ==
    LET me == proc[p] IN
    /\ At(p, "snapshot")
    /\ \/ /\ me.got \notin Known
          /\ snapshots' = Append(snapshots,
                [content |-> me.got, time |-> me.time, etag |-> me.etag,
                 supersedes |-> me.prior])
          /\ Goto(p, IF me.prior = None THEN "rows" ELSE "revision")
       \/ /\ me.got \in Known
          /\ UNCHANGED snapshots
          /\ Goto(p, "rows")
    /\ UNCHANGED <<revisions, rowsets, raws, coverage, diffs, alerts, matters,
                   observations, history>>

InsertRevision(p) ==
    /\ At(p, "revision")
    /\ revisions' = revisions \cup {proc[p].got}
    /\ Goto(p, "rows")
    /\ UNCHANGED <<snapshots, rowsets, raws, coverage, diffs, alerts, matters,
                   observations, history>>

\* A mistake: rows that differ are overwritten.
InsertRowsReplacing(p) ==
    /\ At(p, "rows")
    /\ rowsets' = [rowsets EXCEPT ![proc[p].got] = Parsed[proc[p].got]]
    /\ raws' = [raws EXCEPT ![proc[p].got] = Parsed[proc[p].got]]
    /\ Goto(p, "coverage")
    /\ UNCHANGED <<snapshots, revisions, coverage, diffs, alerts, matters,
                   observations, history>>

(* insert_snapshot_row_set_with_rows, one transaction.  Other rows than      *)
(* those stored are a conflict, and the end of the command.                  *)
InsertRows(p) ==
    LET c == proc[p].got IN
    /\ At(p, "rows")
    /\ \/ /\ rowsets[c] = NoRows
          /\ rowsets' = [rowsets EXCEPT ![c] = Parsed[c]]
          /\ raws' = [raws EXCEPT ![c] = Parsed[c]]
          /\ Goto(p, "coverage")
       \/ /\ rowsets[c] = Parsed[c]
          /\ UNCHANGED <<rowsets, raws>>
          /\ Goto(p, "coverage")
       \/ /\ rowsets[c] \notin {NoRows, Parsed[c]}
          /\ UNCHANGED <<rowsets, raws>>
          /\ Exit(p)
    /\ UNCHANGED <<snapshots, revisions, coverage, diffs, alerts, matters,
                   observations, history>>

InsertCoverage(p) ==
    /\ At(p, "coverage")
    /\ InsertCoverageRow(proc[p].time, proc[p].got)
    /\ Goto(p, "diff")
    /\ UNCHANGED <<snapshots, revisions, rowsets, raws, diffs, alerts, matters,
                   observations, history>>

AfterDiff(p) ==
    \/ proc[p].time = RefreshTime /\ Goto(p, "alerts")
    \/ proc[p].time = IngestTime /\ Exit(p)

(* The diff against the prior snapshot's stored rows, read again.  Missing   *)
(* or empty rows give no diff, damaged ones end the command.                 *)
InsertDiff(p) ==
    LET me == proc[p]
        o == me.prior
        compared == o # None /\ o # me.got /\ rowsets[o] # NoRows
    IN
    /\ At(p, "diff")
    /\ \/ /\ compared /\ Verified(o) /\ rowsets[o] # <<>>
          /\ diffs' = [diffs EXCEPT ![<<o, me.got>>] =
                IF @ = NoDiff THEN RecordDiff(rowsets[o], Parsed[me.got]) ELSE @]
          /\ AfterDiff(p)
       \/ /\ compared => Verified(o) /\ rowsets[o] = <<>>
          /\ UNCHANGED diffs
          /\ AfterDiff(p)
       \/ /\ compared /\ ~Verified(o)
          /\ UNCHANGED diffs
          /\ Exit(p)
    /\ UNCHANGED <<snapshots, revisions, rowsets, raws, coverage, alerts, matters,
                   observations, history>>

(* persist_change_alerts: INSERT OR IGNORE, one at a time, in the order of   *)
(* their hashed ids.                                                         *)
InsertAlert(p) ==
    /\ At(p, "alerts")
    /\ \E a \in proc[p].alerts \ alerts : alerts' = alerts \cup {a}
    /\ UNCHANGED <<snapshots, revisions, rowsets, raws, coverage, diffs, matters,
                   observations, proc, history>>

AlertsDone(p) ==
    /\ At(p, "alerts")
    /\ proc[p].alerts \subseteq alerts
    /\ Goto(p, "matters")
    /\ UNCHANGED <<ledger, observations, history>>

(* ensure_matter for every affected matter. *)
Affected(p) == {a.key : a \in proc[p].alerts}
EnsureMatter(p) ==
    /\ At(p, "matters")
    /\ \E k \in Affected(p) \ matters : matters' = matters \cup {k}
    /\ UNCHANGED <<snapshots, revisions, rowsets, raws, coverage, diffs, alerts,
                   observations, proc, history>>

Finish(p) ==
    /\ At(p, "matters")
    /\ Affected(p) \subseteq matters
    /\ Exit(p)
    /\ UNCHANGED <<ledger, observations, history>>

-----------------------------------------------------------------------------
(* A process is killed, or a statement fails with a SQLite error. *)
Crash(p) ==
    /\ ~At(p, "idle")
    /\ Exit(p)
    /\ disturbed' = TRUE
    /\ UNCHANGED <<ledger, observations, runs, corruptions, tampered>>

Harm ==
    /\ corruptions < MaxCorruptions
    /\ corruptions' = corruptions + 1
    /\ disturbed' = TRUE
    /\ UNCHANGED <<snapshots, revisions, coverage, diffs, alerts, matters,
                   observations, proc, runs>>

(* Stored rows are damaged from outside in what the digests cover: a row is  *)
(* lost, with its raw_json, or altered.                                      *)
Damage(c) ==
    /\ Harm
    /\ rowsets[c] \notin {NoRows, <<>>}
    /\ \/ /\ rowsets' = [rowsets EXCEPT ![c] = Tail(@)]
          /\ raws' = [raws EXCEPT ![c] = IF @ = <<>> THEN @ ELSE Tail(@)]
       \/ \E v \in Value :
             /\ v # rowsets[c][1].value
             /\ rowsets' = [rowsets EXCEPT ![c][1].value = v]
             /\ UNCHANGED raws
    /\ UNCHANGED tampered

(* And in what they do not: the raw_json of a row reads otherwise, or not.   *)
DamageRaw(c) ==
    /\ Harm
    /\ raws[c] \notin {NoRows, <<>>}
    /\ \E raw \in {Tail(raws[c])} \cup {[raws[c] EXCEPT ![1].value = v] : v \in Value} :
          /\ raw # raws[c]
          /\ raws' = [raws EXCEPT ![c] = raw]
    /\ tampered' = tampered \cup {c}
    /\ UNCHANGED rowsets

RefreshStep(p) ==
    \/ Fetch(p) \/ Observe(p) \/ Unchanged(p) \/ ReadPrior(p)
    \/ InsertAlert(p) \/ AlertsDone(p) \/ EnsureMatter(p) \/ Finish(p)

RecordStep(p) ==
    \/ InsertSnapshot(p) \/ InsertRevision(p) \/ InsertRows(p)
    \/ InsertCoverage(p) \/ InsertDiff(p)

Next ==
    \/ \E p \in Process, c \in Content : Ingest(p, c)
    \/ \E p \in Process : Refresh(p) \/ RefreshStep(p) \/ RecordStep(p) \/ Crash(p)
    \/ \E c \in Content : Damage(c) \/ DamageRaw(c)

Spec == Init /\ [][Next]_vars

-----------------------------------------------------------------------------
Quiet == \A p \in Process : At(p, "idle")

(* No alert is fabricated, whatever was lost or damaged in the columns the   *)
(* digests cover and however commands interleaved: the two snapshots it      *)
(* names differ in the row it names, in the way it says.  It is built from   *)
(* the raw_json of the earlier snapshot's rows (award_row_from_record_row),  *)
(* which no digest covers: when that is damaged too, what an alert says of   *)
(* the later snapshot is still true, and no more.                            *)
AlertsAreTrue ==
    \A a \in alerts :
        LET old == Parsed[a.old]
            new == Parsed[a.new]
        IN  /\ a.kind = "removed" <=> a.key \notin Keys(new)
            /\ a.old \in tampered
               \/ CASE a.kind = "added"    -> a.key \notin Keys(old)
                    [] a.kind = "removed"  -> a.key \in Keys(old)
                    [] a.kind = "modified" ->
                          /\ a.key \in Keys(old)
                          /\ \E i \in DOMAIN old, j \in DOMAIN new :
                                /\ old[i].key = a.key /\ new[j].key = a.key
                                /\ old[i] # new[j]

(* A stored record diff accounts for every row of both snapshots, as bags:   *)
(* per key it balances the number of rows, never reports a row as both come  *)
(* and gone, and is silent exactly on the keys whose rows are the same.      *)
DiffsAreExact ==
    \A o, n \in Content : diffs[<<o, n>>] # NoDiff =>
        \A k \in Key :
            LET d == diffs[<<o, n>>][k]
                Of(c) == {i \in DOMAIN Parsed[c] : Parsed[c][i].key = k}
            IN  /\ Cardinality(Of(n)) + d.removed = Cardinality(Of(o)) + d.added
                /\ d.removed = 0 \/ d.added = 0
                /\ d = NoChange <=> \A v \in Value :
                      Count(Parsed[o], k, v) = Count(Parsed[n], k, v)

(* The chain of snapshots never loops: a snapshot supersedes one that was    *)
(* stored before it, also when old bytes come back or two commands record at *)
(* once; and only a superseding snapshot has a revision.                     *)
HistoryIsAcyclic ==
    \A i \in DOMAIN snapshots :
        LET s == snapshots[i] IN
        /\ s.supersedes # None =>
              \E j \in 1..(i - 1) : snapshots[j].content = s.supersedes
        /\ s.content \in revisions => s.supersedes # None

(* What happened between two snapshots is on record once no command runs:    *)
(* unless a crash, a damaged row or two commands at once got in the way,     *)
(* every snapshot a refresh stored has its revision, and an alert and a      *)
(* matter for every row that came, went or, being the only one of its key,   *)
(* changed, relative to the snapshot it supersedes (if that one had rows).   *)
Lone(rows, k) == Cardinality({i \in DOMAIN rows : rows[i].key = k}) = 1
Reported(o, n) ==
    LET old == Parsed[o]
        new == Parsed[n]
        Has(kind, k) == /\ [kind |-> kind, key |-> k, old |-> o, new |-> n] \in alerts
                        /\ k \in matters
    IN  /\ \A k \in Keys(old) \ Keys(new) : Has("removed", k)
        /\ \A k \in Keys(new) \ Keys(old) : Has("added", k)
        /\ \A i \in DOMAIN old, j \in DOMAIN new :
              /\ old[i].key = new[j].key /\ old[i] # new[j]
              /\ Lone(old, old[i].key) /\ Lone(new, old[i].key)
              => Has("modified", old[i].key)
ChangesAreReported ==
    ~disturbed /\ Quiet =>
        \A i \in DOMAIN snapshots :
            LET s == snapshots[i] IN
            s.time = RefreshTime /\ s.supersedes # None =>
                /\ s.content \in revisions
                /\ Parsed[s.supersedes] # <<>> => Reported(s.supersedes, s.content)

(* The store is append-only: no command ever changes or removes a snapshot,  *)
(* a row set, a diff, an alert or a coverage entry (INSERT OR IGNORE, and    *)
(* the conflict check of insert_snapshot_row_set_with_rows).                 *)
NothingRewritten ==
    [][/\ Len(snapshots) <= Len(snapshots')
       /\ \A i \in DOMAIN snapshots : snapshots'[i] = snapshots[i]
       /\ corruptions' = corruptions =>
             \A c \in Content : rowsets[c] # NoRows =>
                 rowsets'[c] = rowsets[c] /\ raws'[c] = raws[c]
       /\ \A o, n \in Content : diffs[<<o, n>>] # NoDiff => diffs'[<<o, n>>] = diffs[<<o, n>>]
       /\ alerts \subseteq alerts'
       /\ \A t \in Time : coverage[t] # None => coverage'[t] = coverage[t]]_vars
=============================================================================
