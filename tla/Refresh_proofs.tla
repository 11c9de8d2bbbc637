---------------------------- MODULE Refresh_proofs ----------------------------
(***************************************************************************)
(* Proofs about Refresh, for any processes, pages, rows and bounds: the    *)
(* ledger is append-only and its chain of snapshots never loops, alerts    *)
(* and diffs are true, and undisturbed changes are all reported.           *)
(***************************************************************************)
EXTENDS Refresh, FiniteSetTheorems, TLAPS

-----------------------------------------------------------------------------
(* Types. *)

Rows == Seq(Row) \cup {NoRows}
Diffs == [Key -> [changed : Nat, removed : Nat, added : Nat]] \cup {NoDiff}

\* A command that records a page, and one that has got a page it can record.
Recording == {"revision", "rows", "coverage", "diff", "alerts", "matters"}
Recordable == Recording \cup {"prior", "snapshot"}

\* The raw_json of stored rows is stored with them: it is that of the page
\* unless it was damaged itself or a row was lost.
RowsStand(c) == rowsets[c] # NoRows =>
    /\ c \in Parsable /\ raws[c] # NoRows
    /\ Len(rowsets[c]) <= Len(Parsed[c])
    /\ c \in tampered \/ raws[c] = Parsed[c] \/ Len(rowsets[c]) < Len(Parsed[c])

TypeOK ==
    /\ snapshots \in Seq(Snapshot)
    /\ revisions \subseteq Content
    /\ rowsets \in [Content -> Rows] /\ raws \in [Content -> Rows]
    /\ tampered \subseteq Content /\ \A c \in Content : RowsStand(c)
    /\ coverage \in [Time -> Maybe]
    /\ observations \in [{200, 304} -> Maybe]
    /\ diffs \in [Content \X Content -> Diffs]
    /\ alerts \subseteq Alert
    /\ matters \subseteq Key
    /\ proc \in [Process -> Run]
    /\ runs \in 0..MaxRuns /\ corruptions \in 0..MaxCorruptions /\ disturbed \in BOOLEAN
    /\ \A p \in Process :
          /\ proc[p].pc \in Recordable => proc[p].got \in Parsable
          /\ proc[p].pc \notin {"idle", "fetch"} => proc[p].got \in Content
          /\ proc[p].prior # None => proc[p].prior \in Known
    /\ Known \subseteq Parsable

\* Two commands that agree in every field.
Alike(q, r) ==
    /\ q.pc = r.pc /\ q.time = r.time /\ q.prior = r.prior /\ q.status = r.status
    /\ q.got = r.got /\ q.etag = r.etag /\ q.alerts = r.alerts

\* One process changes, into one like r.
Becomes(p, r) ==
    /\ proc' \in [Process -> Run]
    /\ Alike(proc'[p], r)
    /\ \A q \in Process : q # p => proc'[q] = proc[q]

\* One process goes on, with the same command.
Moves(p, step) ==
    /\ proc' \in [Process -> Run]
    /\ proc'[p].pc = step
    /\ proc'[p].time = proc[p].time /\ proc'[p].prior = proc[p].prior
    /\ proc'[p].status = proc[p].status /\ proc'[p].got = proc[p].got
    /\ proc'[p].etag = proc[p].etag /\ proc'[p].alerts = proc[p].alerts
    /\ \A q \in Process : q # p => proc'[q] = proc[q]

LEMMA Records ==
    /\ Idle \in Run /\ Idle.pc = "idle" /\ Idle.prior = None /\ Idle.alerts = {}
    /\ Idle.time = IngestTime /\ Idle.got = None
    /\ None \in Maybe /\ Content \subseteq Maybe /\ Parsable \subseteq Content
    /\ IngestTime \in Time /\ RefreshTime \in Time /\ IngestTime # RefreshTime
BY DEF Idle, Run, Step, Time, IngestTime, RefreshTime, Maybe, Parsable

LEMMA ParsedRows ==
    /\ NoRows \notin Seq(Row)
    /\ \A c \in Content : Parsed[c] \in Rows
    /\ \A c \in Parsable : c \in Content /\ Parsed[c] \in Seq(Row) /\ Parsed[c] # NoRows
BY ParsedAssumption DEF Parsable, Rows

LEMMA RunTypes ==
    ASSUME TypeOK, NEW p \in Process
    PROVE  /\ proc[p] \in Run
           /\ proc[p].pc \in Step /\ proc[p].time \in Time /\ proc[p].prior \in Maybe
           /\ proc[p].status \in {200, 304} /\ proc[p].got \in Maybe
           /\ proc[p].etag \in BOOLEAN /\ proc[p].alerts \subseteq Alert
<1>1. proc[p] \in Run
  BY DEF TypeOK
<1> QED
  BY <1>1 DEF Run

LEMMA BecomesOne ==
    ASSUME TypeOK, NEW p \in Process, NEW q \in Run, proc' = [proc EXCEPT ![p] = q],
           NEW r, Alike(q, r)
    PROVE  Becomes(p, r)
<1>1. proc' \in [Process -> Run] /\ proc'[p] = q /\ \A o \in Process : o # p => proc'[o] = proc[o]
  BY DEF TypeOK
<1> QED
  BY <1>1 DEF Becomes

LEMMA GotoMoves ==
    ASSUME TypeOK, NEW p \in Process, NEW s \in Step, Goto(p, s)
    PROVE  Moves(p, s)
<1> DEFINE q == [proc[p] EXCEPT !.pc = s]
<1>1. proc[p] \in Run
  BY RunTypes
<1>2. /\ q \in Run /\ q.pc = s /\ q.time = proc[p].time /\ q.prior = proc[p].prior
      /\ q.status = proc[p].status /\ q.got = proc[p].got /\ q.etag = proc[p].etag
      /\ q.alerts = proc[p].alerts
  BY <1>1 DEF Run
<1>3. proc' = [proc EXCEPT ![p] = q]
  BY <1>1 DEF Goto, TypeOK, Run
<1> HIDE DEF q
<1>4. proc' \in [Process -> Run] /\ proc'[p] = q /\ \A o \in Process : o # p => proc'[o] = proc[o]
  BY <1>2, <1>3 DEF TypeOK
<1> QED
  BY <1>2, <1>4 DEF Moves

LEMMA ExitMoves ==
    ASSUME TypeOK, NEW p \in Process, Exit(p)
    PROVE  Becomes(p, Idle)
BY Records, BecomesOne DEF Exit, Alike

\* The latest snapshot, for a command that starts.
LEMMA LatestIsKnown ==
    ASSUME TypeOK, NEW o \in Maybe, IsLatest(o)
    PROVE  o # None => o \in Known
BY DEF IsLatest, Known

LEMMA StartMoves ==
    ASSUME TypeOK, NEW p \in Process, NEW r \in Run, Start(p, r)
    PROVE  Becomes(p, r)
BY BecomesOne DEF Start, Alike

\* What `ingest awards` and `refresh` start with.
Ingesting(c, o) == [Idle EXCEPT !.pc = "snapshot", !.got = c, !.prior = o]
Refreshing(o) == [Idle EXCEPT !.pc = "fetch", !.time = RefreshTime, !.prior = o]

LEMMA IngestingTypes ==
    ASSUME NEW c \in Content, NEW o \in Maybe
    PROVE  /\ Ingesting(c, o) \in Run /\ Ingesting(c, o).pc = "snapshot"
           /\ Ingesting(c, o).got = c /\ Ingesting(c, o).prior = o
           /\ Ingesting(c, o).time = IngestTime /\ Ingesting(c, o).alerts = {}
<1>1. "snapshot" \in Step /\ c \in Maybe /\ Idle \in Run
  BY Records DEF Step
<1>2. Ingesting(c, o) \in Run
  BY <1>1 DEF Ingesting, Run
<1> QED
  BY <1>2, Records DEF Ingesting, Idle

LEMMA RefreshingTypes ==
    ASSUME NEW o \in Maybe
    PROVE  /\ Refreshing(o) \in Run /\ Refreshing(o).pc = "fetch"
           /\ Refreshing(o).prior = o /\ Refreshing(o).alerts = {}
<1>1. "fetch" \in Step /\ RefreshTime \in Time /\ Idle \in Run
  BY Records DEF Step
<1>2. Refreshing(o) \in Run
  BY <1>1 DEF Refreshing, Run
<1> QED
  BY <1>2, Records DEF Refreshing, Idle

\* A command that starts, with what it starts with.
LEMMA Starts ==
    ASSUME TypeOK, NEW p \in Process,
           (\E c \in Content : Ingest(p, c)) \/ Refresh(p)
    PROVE  /\ At(p, "idle")
           /\ UNCHANGED <<ledger, observations, corruptions>>
           /\ runs' = runs + 1 /\ runs < MaxRuns
           /\ disturbed' = (disturbed \/ \E q \in Process : ~At(q, "idle"))
           /\ \E o \in Maybe :
                 /\ o # None => o \in Known
                 /\ \/ Becomes(p, Refreshing(o))
                    \/ \E c \in Parsable : Becomes(p, Ingesting(c, o))
<1>1. ASSUME NEW c \in Content, Ingest(p, c)
      PROVE  \E o \in Maybe : /\ o # None => o \in Known
                              /\ c \in Parsable
                              /\ Start(p, Ingesting(c, o))
                              /\ Becomes(p, Ingesting(c, o))
  <2>1. PICK o \in Maybe : IsLatest(o) /\ Start(p, Ingesting(c, o))
    BY <1>1 DEF Ingest, Ingesting
  <2>2. c \in Parsable
    BY <1>1 DEF Ingest
  <2>3. Ingesting(c, o) \in Run
    BY IngestingTypes
  <2>4. Becomes(p, Ingesting(c, o))
    BY <2>1, <2>3, StartMoves
  <2> QED
    BY <2>1, <2>2, <2>4, LatestIsKnown
<1>2. ASSUME Refresh(p)
      PROVE  \E o \in Maybe : /\ o # None => o \in Known
                              /\ Start(p, Refreshing(o))
                              /\ Becomes(p, Refreshing(o))
  <2>1. PICK o \in Maybe : IsLatest(o) /\ Start(p, Refreshing(o))
    BY <1>2 DEF Refresh, Refreshing
  <2>2. Refreshing(o) \in Run
    BY <2>1, RefreshingTypes
  <2>3. Becomes(p, Refreshing(o))
    BY <2>1, <2>2, StartMoves
  <2> QED
    BY <2>1, <2>3, LatestIsKnown
<1>3. \A r : Start(p, r) =>
         /\ At(p, "idle")
         /\ UNCHANGED <<ledger, observations, corruptions>>
         /\ runs' = runs + 1 /\ runs < MaxRuns
         /\ disturbed' = (disturbed \/ \E q \in Process : ~At(q, "idle"))
  BY DEF Start
<1> QED
  BY <1>1, <1>2, <1>3

\* What is fetched.
LEMMA FetchMoves ==
    ASSUME TypeOK, NEW p \in Process, Fetch(p), ~Exit(p)
    PROVE  /\ proc' \in [Process -> Run]
           /\ proc'[p].pc = "observe" /\ proc'[p].got \in Content
           /\ proc'[p].prior = proc[p].prior /\ proc'[p].time = proc[p].time
           /\ proc'[p].alerts = proc[p].alerts
           /\ \A q \in Process : q # p => proc'[q] = proc[q]
<1>1. proc[p] \in Run
  BY RunTypes
<1>2. ASSUME NEW q \in Run, proc' = [proc EXCEPT ![p] = q], q.pc = "observe", q.got \in Content,
             q.prior = proc[p].prior, q.time = proc[p].time, q.alerts = proc[p].alerts
      PROVE  /\ proc' \in [Process -> Run]
             /\ proc'[p].pc = "observe" /\ proc'[p].got \in Content
             /\ proc'[p].prior = proc[p].prior /\ proc'[p].time = proc[p].time
             /\ proc'[p].alerts = proc[p].alerts
             /\ \A o \in Process : o # p => proc'[o] = proc[o]
  <2>1. proc' \in [Process -> Run] /\ proc'[p] = q /\ \A o \in Process : o # p => proc'[o] = proc[o]
    BY <1>2 DEF TypeOK
  <2> QED
    BY <1>2, <2>1
<1>3. "observe" \in Step /\ \A c \in Content : c \in Maybe
  BY DEF Step, Maybe
<1>4. ASSUME NEW c \in Content,
             proc' = [proc EXCEPT ![p] = [proc[p] EXCEPT
                        !.pc = "observe", !.got = c, !.etag = c \in Tagged]]
      PROVE  \E q \in Run : /\ proc' = [proc EXCEPT ![p] = q]
                            /\ q.pc = "observe" /\ q.got \in Content
                            /\ q.prior = proc[p].prior /\ q.time = proc[p].time /\ q.alerts = proc[p].alerts
  <2> DEFINE e == c \in Tagged
             q == [proc[p] EXCEPT !.pc = "observe", !.got = c, !.etag = e]
  <2>1. e \in BOOLEAN /\ proc' = [proc EXCEPT ![p] = q]
    BY <1>4
  <2> HIDE DEF e
  <2>2. q \in Run
    BY <1>1, <1>3, <2>1, ZenonT(30) DEF Run
  <2>3. /\ q.pc = "observe" /\ q.got = c
        /\ q.prior = proc[p].prior /\ q.time = proc[p].time /\ q.alerts = proc[p].alerts
    BY <1>1 DEF Run
  <2> HIDE DEF q
  <2> QED
    BY <2>1, <2>2, <2>3
<1>5. CASE /\ proc[p].prior # None
           /\ proc' = [proc EXCEPT ![p] = [proc[p] EXCEPT
                        !.pc = "observe", !.status = 304, !.got = proc[p].prior]]
  <2>1. proc[p].prior \in Content
    BY <1>5, RunTypes DEF Maybe
  <2> DEFINE s == 304
             c == proc[p].prior
             o == "observe"
             q == [proc[p] EXCEPT !.pc = o, !.status = s, !.got = c]
  <2>2. /\ s \in {200, 304} /\ c \in Content /\ c \in Maybe /\ o \in Step
        /\ proc' = [proc EXCEPT ![p] = q]
    BY <1>3, <1>5, <2>1
  <2> HIDE DEF s, c, o
  <2>3. q \in Run
    BY <1>1, <2>2, ZenonT(30) DEF Run
  <2>5. /\ q.pc = o /\ q.got = c
        /\ q.prior = proc[p].prior /\ q.time = proc[p].time /\ q.alerts = proc[p].alerts
    BY <1>1 DEF Run
  <2>4. /\ q.pc = "observe" /\ q.got = c
        /\ q.prior = proc[p].prior /\ q.time = proc[p].time /\ q.alerts = proc[p].alerts
    BY <2>5 DEF o
  <2> HIDE DEF q
  <2> QED
    BY <1>2, <2>2, <2>3, <2>4
<1> QED
  BY <1>2, <1>4, <1>5 DEF Fetch

\* What a step can do to each part of the ledger.
LEMMA SnapshotSteps ==
    ASSUME Next
    PROVE  \/ UNCHANGED snapshots
           \/ \E p \in Process :
                 /\ InsertSnapshot(p) /\ At(p, "snapshot") /\ proc[p].got \notin Known
                 /\ snapshots' = Append(snapshots,
                       [content |-> proc[p].got, time |-> proc[p].time,
                        etag |-> proc[p].etag, supersedes |-> proc[p].prior])
BY ZenonT(30) DEF Next, Ingest, Refresh, Start, RefreshStep, Fetch, Observe, Unchanged, ReadPrior,
   InsertAlert, AlertsDone, EnsureMatter, Finish, RecordStep, InsertSnapshot,
   InsertRevision, InsertRows, InsertCoverage, InsertDiff, Crash, Damage, DamageRaw, Harm, ledger

LEMMA RevisionSteps ==
    ASSUME Next
    PROVE  \/ UNCHANGED revisions
           \/ \E p \in Process : /\ At(p, "revision")
                                 /\ revisions' = revisions \cup {proc[p].got}
BY ZenonT(30) DEF Next, Ingest, Refresh, Start, RefreshStep, Fetch, Observe, Unchanged, ReadPrior,
   InsertAlert, AlertsDone, EnsureMatter, Finish, RecordStep, InsertSnapshot,
   InsertRevision, InsertRows, InsertCoverage, InsertDiff, Crash, Damage, DamageRaw, Harm, ledger

LEMMA RowSteps ==
    ASSUME Next
    PROVE  \/ UNCHANGED <<rowsets, raws, tampered>>
           \/ \E p \in Process : /\ At(p, "rows") /\ rowsets[proc[p].got] = NoRows
                                 /\ rowsets' = [rowsets EXCEPT ![proc[p].got] = Parsed[proc[p].got]]
                                 /\ raws' = [raws EXCEPT ![proc[p].got] = Parsed[proc[p].got]]
                                 /\ UNCHANGED tampered
           \/ \E c \in Content : Damage(c) \/ DamageRaw(c)
BY ZenonT(30) DEF Next, Ingest, Refresh, Start, RefreshStep, Fetch, Observe, Unchanged, ReadPrior,
   InsertAlert, AlertsDone, EnsureMatter, Finish, RecordStep, InsertSnapshot,
   InsertRevision, InsertRows, InsertCoverage, InsertDiff, Crash, ledger, history

LEMMA CoverageSteps ==
    ASSUME Next
    PROVE  \/ UNCHANGED coverage
           \/ \E p \in Process : InsertCoverageRow(RefreshTime, proc[p].prior)
           \/ \E p \in Process : At(p, "coverage") /\ InsertCoverageRow(proc[p].time, proc[p].got)
BY ZenonT(30) DEF Next, Ingest, Refresh, Start, RefreshStep, Fetch, Observe, Unchanged, ReadPrior,
   InsertAlert, AlertsDone, EnsureMatter, Finish, RecordStep, InsertSnapshot,
   InsertRevision, InsertRows, InsertCoverage, InsertDiff, Crash, Damage, DamageRaw, Harm, ledger

LEMMA ObservationSteps ==
    ASSUME Next
    PROVE  \/ UNCHANGED observations
           \/ \E p \in Process : Observe(p)
BY ZenonT(30) DEF Next, Ingest, Refresh, Start, RefreshStep, Fetch, Unchanged, ReadPrior,
   InsertAlert, AlertsDone, EnsureMatter, Finish, RecordStep, InsertSnapshot,
   InsertRevision, InsertRows, InsertCoverage, InsertDiff, Crash, Damage, DamageRaw, Harm

LEMMA DiffSteps ==
    ASSUME Next
    PROVE  \/ UNCHANGED diffs
           \/ \E p \in Process :
                 LET me == proc[p]
                     o == me.prior
                 IN  /\ At(p, "diff") /\ o # None /\ Verified(o)
                     /\ diffs' = [diffs EXCEPT ![<<o, me.got>>] =
                           IF @ = NoDiff THEN RecordDiff(rowsets[o], Parsed[me.got]) ELSE @]
BY ZenonT(30) DEF Next, Ingest, Refresh, Start, RefreshStep, Fetch, Observe, Unchanged, ReadPrior,
   InsertAlert, AlertsDone, EnsureMatter, Finish, RecordStep, InsertSnapshot,
   InsertRevision, InsertRows, InsertCoverage, InsertDiff, Crash, Damage, DamageRaw, Harm, ledger

LEMMA AlertSteps ==
    ASSUME Next
    PROVE  \/ UNCHANGED alerts
           \/ \E p \in Process : /\ At(p, "alerts")
                                 /\ \E a \in proc[p].alerts : alerts' = alerts \cup {a}
BY ZenonT(30) DEF Next, Ingest, Refresh, Start, RefreshStep, Fetch, Observe, Unchanged, ReadPrior,
   InsertAlert, AlertsDone, EnsureMatter, Finish, RecordStep, InsertSnapshot,
   InsertRevision, InsertRows, InsertCoverage, InsertDiff, Crash, Damage, DamageRaw, Harm, ledger

LEMMA MatterSteps ==
    ASSUME Next
    PROVE  \/ UNCHANGED matters
           \/ \E p \in Process : \E k \in Affected(p) : matters' = matters \cup {k}
BY ZenonT(30) DEF Next, Ingest, Refresh, Start, RefreshStep, Fetch, Observe, Unchanged, ReadPrior,
   InsertAlert, AlertsDone, EnsureMatter, Finish, RecordStep, InsertSnapshot,
   InsertRevision, InsertRows, InsertCoverage, InsertDiff, Crash, Damage, DamageRaw, Harm, ledger

LEMMA CounterSteps ==
    ASSUME TypeOK, Next
    PROVE  /\ runs' \in 0..MaxRuns /\ corruptions' \in 0..MaxCorruptions
           /\ disturbed' \in BOOLEAN
<1>1. \/ \E p \in Process : (\E c \in Content : Ingest(p, c)) \/ Refresh(p)
      \/ \E p \in Process : Crash(p)
      \/ \E c \in Content : Damage(c) \/ DamageRaw(c)
      \/ UNCHANGED history
  BY DEF Next, RefreshStep, Fetch, Observe, Unchanged, ReadPrior, InsertAlert, AlertsDone,
     EnsureMatter, Finish, RecordStep, InsertSnapshot, InsertRevision, InsertRows,
     InsertCoverage, InsertDiff
<1>2. MaxRuns \in Nat /\ MaxCorruptions \in Nat
  BY BoundAssumption
<1>3. ASSUME NEW p \in Process, (\E c \in Content : Ingest(p, c)) \/ Refresh(p)
      PROVE  /\ runs' \in 0..MaxRuns /\ corruptions' \in 0..MaxCorruptions
             /\ disturbed' \in BOOLEAN
  <2>1. runs' = runs + 1 /\ runs < MaxRuns /\ UNCHANGED corruptions
    BY <1>3, Starts
  <2>2. disturbed' \in BOOLEAN
    BY <1>3, Starts
  <2> QED
    BY <1>2, <2>1, <2>2 DEF TypeOK
<1>4. ASSUME NEW c \in Content, Damage(c) \/ DamageRaw(c)
      PROVE  /\ runs' \in 0..MaxRuns /\ corruptions' \in 0..MaxCorruptions
             /\ disturbed' \in BOOLEAN
  <2>1. /\ corruptions < MaxCorruptions /\ corruptions' = corruptions + 1
        /\ disturbed' = TRUE /\ runs' = runs
    BY <1>4 DEF Damage, DamageRaw, Harm
  <2> QED
    BY <1>2, <2>1 DEF TypeOK
<1> QED
  BY <1>1, <1>3, <1>4 DEF Crash, TypeOK, history

\* What is damaged was stored.
LEMMA Altered ==
    ASSUME NEW s \in Seq(Row), s # <<>>
    PROVE  /\ Len(s) \in Nat /\ Len(s) > 0
           /\ Tail(s) \in Seq(Row) /\ Len(Tail(s)) = Len(s) - 1
           /\ \A v \in Value : /\ [s EXCEPT ![1].value = v] \in Seq(Row)
                              /\ Len([s EXCEPT ![1].value = v]) = Len(s)
<1>1. Len(s) \in Nat /\ Len(s) > 0 /\ Tail(s) \in Seq(Row) /\ Len(Tail(s)) = Len(s) - 1
  OBVIOUS
<1>2. ASSUME NEW v \in Value
      PROVE  /\ [s EXCEPT ![1].value = v] \in Seq(Row)
             /\ Len([s EXCEPT ![1].value = v]) = Len(s)
  <2> DEFINE n == Len(s)
             t == [s EXCEPT ![1].value = v]
  <2>1. s \in [1..n -> Row] /\ n \in Nat /\ 1 \in 1..n
    BY <1>1
  <2>2. [s[1] EXCEPT !.value = v] \in Row
    BY <2>1 DEF Row
  <2> HIDE DEF n
  <2>3. t \in [1..n -> Row]
    BY <2>1, <2>2
  <2> HIDE DEF t
  <2>4. t \in Seq(Row) /\ Len(t) = n
    BY <2>1, <2>3
  <2> QED
    BY <2>4 DEF n, t
<1> QED
  BY <1>1, <1>2

\* Rows that are damaged where the digests see it.
LEMMA DamagedRows ==
    ASSUME TypeOK, NEW c \in Content, Damage(c)
    PROVE  /\ rowsets' \in [Content -> Rows] /\ raws' \in [Content -> Rows]
           /\ tampered' = tampered /\ corruptions' # corruptions
           /\ \A d \in Content : RowsStand(d)'
<1>1. rowsets[c] \in Seq(Row) /\ rowsets[c] # <<>> /\ rowsets[c] # NoRows
  BY DEF Damage, TypeOK, Rows
<1>2. /\ c \in Parsable /\ raws[c] \in Seq(Row)
      /\ Len(rowsets[c]) <= Len(Parsed[c])
      /\ c \in tampered \/ raws[c] = Parsed[c] \/ Len(rowsets[c]) < Len(Parsed[c])
  BY <1>1 DEF TypeOK, RowsStand, Rows
<1>3. Len(Parsed[c]) \in Nat
  BY <1>2, ParsedRows
<1>4. tampered' = tampered /\ corruptions' # corruptions
  BY DEF Damage, Harm, TypeOK
<1>5. ASSUME NEW rows \in Seq(Row), NEW raw \in Seq(Row),
             rowsets' = [rowsets EXCEPT ![c] = rows], raws' = [raws EXCEPT ![c] = raw],
             Len(rows) <= Len(Parsed[c]),
             c \in tampered \/ raw = Parsed[c] \/ Len(rows) < Len(Parsed[c])
      PROVE  /\ rowsets' \in [Content -> Rows] /\ raws' \in [Content -> Rows]
             /\ \A d \in Content : RowsStand(d)'
  <2>1. rows \in Rows /\ raw \in Rows /\ raw # NoRows
    BY ParsedRows DEF Rows
  <2>2. /\ rowsets' \in [Content -> Rows] /\ raws' \in [Content -> Rows]
        /\ rowsets'[c] = rows /\ raws'[c] = raw
        /\ \A d \in Content : d # c => rowsets'[d] = rowsets[d] /\ raws'[d] = raws[d]
    BY <1>5, <2>1 DEF TypeOK
  <2> QED
    BY <1>2, <1>4, <1>5, <2>1, <2>2 DEF RowsStand, TypeOK
<1>6. CASE /\ rowsets' = [rowsets EXCEPT ![c] = Tail(@)]
           /\ raws' = [raws EXCEPT ![c] = IF @ = <<>> THEN @ ELSE Tail(@)]
  <2> DEFINE rows == Tail(rowsets[c])
             raw == IF raws[c] = <<>> THEN raws[c] ELSE Tail(raws[c])
  <2>1. rows \in Seq(Row) /\ Len(rows) = Len(rowsets[c]) - 1 /\ Len(rowsets[c]) \in Nat
    BY <1>1, Altered
  <2>2. raw \in Seq(Row)
    BY <1>2, Altered
  <2>3. rowsets' = [rowsets EXCEPT ![c] = rows] /\ raws' = [raws EXCEPT ![c] = raw]
    BY <1>6
  <2> HIDE DEF rows, raw
  <2>4. Len(rows) <= Len(Parsed[c]) /\ Len(rows) < Len(Parsed[c])
    BY <1>2, <1>3, <2>1
  <2> QED
    BY <1>4, <1>5, <2>1, <2>2, <2>3, <2>4
<1>7. ASSUME NEW v \in Value, rowsets' = [rowsets EXCEPT ![c][1].value = v], UNCHANGED raws
      PROVE  /\ rowsets' \in [Content -> Rows] /\ raws' \in [Content -> Rows]
             /\ \A d \in Content : RowsStand(d)'
  <2> DEFINE rows == [rowsets[c] EXCEPT ![1].value = v]
  <2>1. rows \in Seq(Row) /\ Len(rows) = Len(rowsets[c])
    BY <1>1, Altered
  <2>2. rowsets' = [rowsets EXCEPT ![c] = rows]
    BY <1>7
  <2>3. raws' = [raws EXCEPT ![c] = raws[c]]
    BY <1>7 DEF TypeOK
  <2> HIDE DEF rows
  <2> QED
    BY <1>2, <1>5, <2>1, <2>2, <2>3
<1> QED
  BY <1>4, <1>6, <1>7 DEF Damage

\* Rows whose raw_json is damaged.
LEMMA DamagedRaws ==
    ASSUME TypeOK, NEW c \in Content, DamageRaw(c)
    PROVE  /\ rowsets' \in [Content -> Rows] /\ raws' \in [Content -> Rows]
           /\ tampered' = tampered \cup {c} /\ corruptions' # corruptions
           /\ \A d \in Content : RowsStand(d)'
<1>1. raws[c] \in Seq(Row) /\ raws[c] # <<>>
  BY DEF DamageRaw, TypeOK, Rows
<1>2. tampered' = tampered \cup {c} /\ corruptions' # corruptions /\ rowsets' = rowsets
  BY DEF DamageRaw, Harm, TypeOK
<1>3. PICK raw \in {Tail(raws[c])} \cup {[raws[c] EXCEPT ![1].value = v] : v \in Value} :
         raws' = [raws EXCEPT ![c] = raw]
  BY DEF DamageRaw
<1>4. raw \in Seq(Row)
  BY <1>1, <1>3, Altered
<1>5. raw \in Rows /\ raw # NoRows
  BY <1>4, ParsedRows DEF Rows
<1>6. /\ raws' \in [Content -> Rows] /\ raws'[c] = raw
      /\ \A d \in Content : d # c => raws'[d] = raws[d]
  BY <1>3, <1>5 DEF TypeOK
<1> QED
  BY <1>2, <1>5, <1>6 DEF RowsStand, TypeOK

\* Damage that the digests do not see is on record in tampered.
LEMMA VerifiedRaws ==
    ASSUME TypeOK, NEW c \in Content, Verified(c)
    PROVE  c \in Parsable /\ raws[c] \in Seq(Row) /\ (c \in tampered \/ raws[c] = Parsed[c])
<1>1. /\ c \in Parsable /\ raws[c] # NoRows /\ rowsets[c] = Parsed[c]
      /\ c \in tampered \/ raws[c] = Parsed[c] \/ Len(rowsets[c]) < Len(Parsed[c])
  BY DEF TypeOK, RowsStand, Verified
<1>2. Len(Parsed[c]) \in Nat
  BY <1>1, ParsedRows
<1> QED
  BY <1>1, <1>2 DEF TypeOK, Rows

\* A snapshot that is appended.
LEMMA Appended ==
    ASSUME TypeOK, NEW s \in Snapshot, snapshots' = Append(snapshots, s)
    PROVE  /\ snapshots' \in Seq(Snapshot) /\ Len(snapshots) \in Nat
           /\ DOMAIN snapshots = 1..Len(snapshots)
           /\ DOMAIN snapshots' = 1..(Len(snapshots) + 1)
           /\ Len(snapshots') = Len(snapshots) + 1
           /\ snapshots'[Len(snapshots) + 1] = s
           /\ \A i \in DOMAIN snapshots : snapshots'[i] = snapshots[i]
           /\ Known' = Known \cup {s.content}
<1> DEFINE t == Append(snapshots, s)
           n == Len(snapshots)
<1>1. /\ snapshots \in Seq(Snapshot) /\ n \in Nat /\ DOMAIN snapshots = 1..n
      /\ t \in Seq(Snapshot) /\ DOMAIN t = 1..(n + 1) /\ Len(t) = n + 1 /\ t[n + 1] = s
      /\ \A i \in 1..n : t[i] = snapshots[i]
  BY DEF TypeOK
<1>2. snapshots' = t
  OBVIOUS
<1> HIDE DEF t, n
<1>3. Known' = {t[i].content : i \in 1..(n + 1)}
  BY <1>1, <1>2 DEF Known
<1>4. 1..(n + 1) = (1..n) \cup {n + 1}
  BY <1>1
<1>5. Known' = Known \cup {s.content}
  BY <1>1, <1>3, <1>4 DEF Known
<1> QED
  BY <1>1, <1>2, <1>5 DEF n

\* Nothing that was known is forgotten.
LEMMA KnownGrows ==
    ASSUME TypeOK, Next
    PROVE  /\ snapshots' \in Seq(Snapshot)
           /\ Known \subseteq Known' /\ Known' \subseteq Parsable
           /\ Len(snapshots) <= Len(snapshots')
           /\ \A i \in DOMAIN snapshots : i \in DOMAIN snapshots' /\ snapshots'[i] = snapshots[i]
<1>1. CASE UNCHANGED snapshots
  <2>1. Len(snapshots) \in Nat
    BY DEF TypeOK
  <2> QED
    BY <1>1, <2>1 DEF TypeOK, Known
<1>2. ASSUME NEW p \in Process, At(p, "snapshot"),
             snapshots' = Append(snapshots,
                [content |-> proc[p].got, time |-> proc[p].time,
                 etag |-> proc[p].etag, supersedes |-> proc[p].prior])
      PROVE  /\ snapshots' \in Seq(Snapshot)
             /\ Known \subseteq Known' /\ Known' \subseteq Parsable
             /\ Len(snapshots) <= Len(snapshots')
             /\ \A i \in DOMAIN snapshots : i \in DOMAIN snapshots' /\ snapshots'[i] = snapshots[i]
  <2> DEFINE s == [content |-> proc[p].got, time |-> proc[p].time,
                   etag |-> proc[p].etag, supersedes |-> proc[p].prior]
  <2>1. proc[p].got \in Parsable
    BY <1>2 DEF TypeOK, At, Recordable
  <2>2. s \in Snapshot /\ s.content = proc[p].got
    BY <2>1, Records, RunTypes DEF Snapshot
  <2>3. snapshots' = Append(snapshots, s)
    BY <1>2
  <2> HIDE DEF s
  <2>4. Known \subseteq Parsable
    BY DEF TypeOK
  <2> QED
    BY <2>1, <2>2, <2>3, <2>4, Appended
<1> QED
  BY <1>1, <1>2, SnapshotSteps

\* The commands.
CommandOK(p) ==
    /\ proc[p].pc \in Recordable => proc[p].got \in Parsable
    /\ proc[p].pc \notin {"idle", "fetch"} => proc[p].got \in Content
    /\ proc[p].prior # None => proc[p].prior \in Known

\* The alerts a command derives are alerts.
LEMMA AlertTypes ==
    ASSUME NEW o \in Content, NEW n \in Content, NEW old \in Seq(Row), NEW new \in Seq(Row)
    PROVE  ChangeAlerts(o, n, old, new) \subseteq Alert
<1>1. \A k : KindOfChange(old, new, k) \in Kind
  BY DEF KindOfChange, Kind
<1>2. \A k \in ChangedKeys(old, new) : k \in Key
  <2>1. \A rows \in Seq(Row) : \A i \in DOMAIN rows : rows[i].key \in Key
    <3>1. \A r \in Row : r.key \in Key
      BY DEF Row
    <3>2. \A rows \in Seq(Row) : \A i \in DOMAIN rows : rows[i] \in Row
      OBVIOUS
    <3> QED
      BY <3>1, <3>2
  <2> QED
    BY <2>1 DEF ChangedKeys, Keys
<1> QED
  BY <1>1, <1>2 DEF ChangeAlerts, Alert

LEMMA ReadPriorMoves ==
    ASSUME TypeOK, NEW p \in Process, ReadPrior(p)
    PROVE  LET me == proc[p]
               o == me.prior
               built == IF /\ o # None /\ o # me.got
                           /\ Verified(o) /\ raws[o] # <<>>
                        THEN ChangeAlerts(o, me.got, raws[o], Parsed[me.got])
                        ELSE {}
           IN  /\ me.pc = "prior"
               /\ proc' \in [Process -> Run]
               /\ proc'[p].pc = "snapshot" /\ proc'[p].time = me.time
               /\ proc'[p].prior = me.prior /\ proc'[p].got = me.got
               /\ proc'[p].alerts = built
               /\ \A q \in Process : q # p => proc'[q] = proc[q]
<1> DEFINE me == proc[p]
           o == me.prior
           built == IF /\ o # None /\ o # me.got
                       /\ Verified(o) /\ raws[o] # <<>>
                    THEN ChangeAlerts(o, me.got, raws[o], Parsed[me.got])
                    ELSE {}
           q == [me EXCEPT !.pc = "snapshot", !.alerts = built]
<1>1. me \in Run /\ me.pc = "prior" /\ me.got \in Parsable /\ o \in Maybe
  BY RunTypes DEF TypeOK, Recordable, ReadPrior, At
<1>2. proc' = [proc EXCEPT ![p] = q]
  BY DEF ReadPrior
<1>3. built \subseteq Alert
  <2>1. o # None /\ Verified(o) => o \in Content /\ raws[o] \in Seq(Row)
    BY <1>1, VerifiedRaws DEF Maybe
  <2> QED
    BY <1>1, <2>1, ParsedRows, AlertTypes
<1> HIDE DEF built
<1>4. /\ q \in Run /\ q.pc = "snapshot" /\ q.time = me.time /\ q.prior = me.prior
      /\ q.got = me.got /\ q.alerts = built
  <2>1. "snapshot" \in Step
    BY DEF Step
  <2> QED
    BY <1>1, <1>3, <2>1 DEF Run
<1> HIDE DEF q
<1>5. proc' \in [Process -> Run] /\ proc'[p] = q /\ \A x \in Process : x # p => proc'[x] = proc[x]
  BY <1>2, <1>4 DEF TypeOK
<1> QED
  BY <1>1, <1>4, <1>5 DEF built

\* Every step of a process that runs.
LEMMA ProcessSteps ==
    ASSUME TypeOK, Next
    PROVE  \/ UNCHANGED proc
           \/ \E p \in Process : Becomes(p, Idle)
           \/ \E p \in Process : (\E c \in Content : Ingest(p, c)) \/ Refresh(p)
           \/ \E p \in Process : Fetch(p) /\ ~Exit(p)
           \/ \E p \in Process : ReadPrior(p)
           \/ \E p \in Process, s \in Step :
                 /\ Moves(p, s) /\ proc[p].pc \notin {"idle", "fetch"}
                 /\ s \in Recordable => proc[p].got \in Parsable
<1>1. ASSUME NEW p \in Process, NEW s \in Step, Goto(p, s),
             proc[p].pc \notin {"idle", "fetch"},
             s \in Recordable => proc[p].pc \in Recordable \/ proc[p].got \in Parsable
      PROVE  Moves(p, s) /\ (s \in Recordable => proc[p].got \in Parsable)
  BY <1>1, GotoMoves DEF TypeOK
<1>2. ASSUME NEW p \in Process, Exit(p)
      PROVE  Becomes(p, Idle)
  BY <1>2, ExitMoves
<1>3. ASSUME NEW p \in Process,
             Observe(p) \/ Unchanged(p) \/ AlertsDone(p) \/ Finish(p) \/ RecordStep(p) \/ Crash(p)
      PROVE  \/ Exit(p)
             \/ \E s \in Step : /\ Goto(p, s) /\ proc[p].pc \notin {"idle", "fetch"}
                                /\ s \in Recordable =>
                                      proc[p].pc \in Recordable \/ proc[p].got \in Parsable
  BY <1>3 DEF Observe, Unchanged, AlertsDone, Finish, RecordStep, InsertSnapshot,
     InsertRevision, InsertRows, InsertCoverage, InsertDiff, AfterDiff, Crash, At, Step,
     Recordable, Recording
<1>4. ASSUME NEW p \in Process, InsertAlert(p) \/ EnsureMatter(p)
      PROVE  UNCHANGED proc
  BY <1>4 DEF InsertAlert, EnsureMatter
<1>5. ASSUME NEW c \in Content, Damage(c) \/ DamageRaw(c)
      PROVE  UNCHANGED proc
  BY <1>5 DEF Damage, DamageRaw, Harm
<1>6. ASSUME NEW p \in Process, \/ Exit(p)
             \/ \E s \in Step : /\ Goto(p, s) /\ proc[p].pc \notin {"idle", "fetch"}
                                /\ s \in Recordable =>
                                      proc[p].pc \in Recordable \/ proc[p].got \in Parsable
      PROVE  \/ Becomes(p, Idle)
             \/ \E s \in Step : /\ Moves(p, s) /\ proc[p].pc \notin {"idle", "fetch"}
                                /\ s \in Recordable => proc[p].got \in Parsable
  BY <1>1, <1>2, <1>6
<1> QED
  BY <1>2, <1>3, <1>4, <1>5, <1>6 DEF Next, RefreshStep

LEMMA StepKeepsCommands ==
    ASSUME TypeOK, Next
    PROVE  proc' \in [Process -> Run] /\ \A p \in Process : CommandOK(p)'
<1>1. Known \subseteq Known'
  BY KnownGrows
<1>2. ASSUME NEW p \in Process, proc' \in [Process -> Run], CommandOK(p)',
             \A q \in Process : q # p => proc'[q] = proc[q]
      PROVE  proc' \in [Process -> Run] /\ \A q \in Process : CommandOK(q)'
  BY <1>1, <1>2 DEF TypeOK, CommandOK
<1>3. CASE UNCHANGED proc
  BY <1>1, <1>3 DEF TypeOK, CommandOK
<1>4. ASSUME NEW p \in Process, Becomes(p, Idle)
      PROVE  proc' \in [Process -> Run] /\ \A q \in Process : CommandOK(q)'
  <2>1. proc'[p].pc = "idle" /\ proc'[p].prior = None
    BY <1>4, Records DEF Becomes, Alike
  <2>2. CommandOK(p)'
    BY <2>1 DEF CommandOK, Recordable, Recording
  <2> QED
    BY <1>2, <1>4, <2>2 DEF Becomes
<1>5. ASSUME NEW p \in Process, (\E c \in Content : Ingest(p, c)) \/ Refresh(p)
      PROVE  proc' \in [Process -> Run] /\ \A q \in Process : CommandOK(q)'
  <2>1. PICK o \in Maybe :
           /\ o # None => o \in Known
           /\ \/ Becomes(p, Refreshing(o))
              \/ \E c \in Parsable : Becomes(p, Ingesting(c, o))
    BY <1>5, Starts
  <2>2. CASE Becomes(p, Refreshing(o))
    <3>1. proc'[p].pc = "fetch" /\ proc'[p].prior = o
      BY <2>2, RefreshingTypes DEF Becomes, Alike
    <3>2. CommandOK(p)'
      BY <1>1, <2>1, <3>1 DEF CommandOK, Recordable, Recording
    <3> QED
      BY <1>2, <2>2, <3>2 DEF Becomes
  <2>3. ASSUME NEW c \in Parsable, Becomes(p, Ingesting(c, o))
        PROVE  proc' \in [Process -> Run] /\ \A q \in Process : CommandOK(q)'
    <3>1. c \in Content
      BY Records
    <3>2. proc'[p].got = c /\ proc'[p].prior = o
      BY <2>3, <3>1, IngestingTypes DEF Becomes, Alike
    <3>3. CommandOK(p)'
      BY <1>1, <2>1, <3>1, <3>2 DEF CommandOK
    <3> QED
      BY <1>2, <2>3, <3>3 DEF Becomes
  <2> QED
    BY <2>1, <2>2, <2>3
<1>6. ASSUME NEW p \in Process, Fetch(p), ~Exit(p)
      PROVE  proc' \in [Process -> Run] /\ \A q \in Process : CommandOK(q)'
  <2>1. /\ proc' \in [Process -> Run] /\ proc'[p].pc = "observe" /\ proc'[p].got \in Content
        /\ proc'[p].prior = proc[p].prior
        /\ \A q \in Process : q # p => proc'[q] = proc[q]
    BY <1>6, FetchMoves
  <2>2. CommandOK(p)'
    BY <1>1, <2>1 DEF CommandOK, TypeOK, Recordable, Recording
  <2> QED
    BY <1>2, <2>1, <2>2
<1>7. ASSUME NEW p \in Process, ReadPrior(p)
      PROVE  proc' \in [Process -> Run] /\ \A q \in Process : CommandOK(q)'
  <2>1. /\ proc[p].pc = "prior" /\ proc' \in [Process -> Run]
        /\ proc'[p].got = proc[p].got /\ proc'[p].prior = proc[p].prior
        /\ \A q \in Process : q # p => proc'[q] = proc[q]
    BY <1>7, ReadPriorMoves
  <2>2. proc[p].got \in Parsable /\ proc[p].got \in Content
    BY <2>1, Records DEF TypeOK, Recordable
  <2>3. CommandOK(p)'
    BY <1>1, <2>1, <2>2 DEF CommandOK, TypeOK
  <2> QED
    BY <1>2, <2>1, <2>3
<1>8. ASSUME NEW p \in Process, NEW s \in Step, Moves(p, s), proc[p].pc \notin {"idle", "fetch"},
             s \in Recordable => proc[p].got \in Parsable
      PROVE  proc' \in [Process -> Run] /\ \A q \in Process : CommandOK(q)'
  <2>1. CommandOK(p)'
    BY <1>1, <1>8 DEF CommandOK, TypeOK, Moves
  <2> QED
    BY <1>2, <1>8, <2>1 DEF Moves
<1> QED
  BY <1>3, <1>4, <1>5, <1>6, <1>7, <1>8, ProcessSteps

\* The surplus rows of a key are finitely many.
LEMMA Occurrences ==
    ASSUME NEW s \in Seq(Row), NEW k, NEW v
    PROVE  /\ Len(s) \in Nat /\ DOMAIN s = 1..Len(s) /\ IsFiniteSet(DOMAIN s)
           /\ Count(s, k, v) \in Nat /\ Count(s, k, v) <= Len(s)
<1>1. Len(s) \in Nat /\ DOMAIN s = 1..Len(s)
  OBVIOUS
<1>2. IsFiniteSet(1..Len(s)) /\ Cardinality(1..Len(s)) = Len(s)
  <2> DEFINE n == Len(s)
  <2>1. n \in Nat /\ n \in Int /\ 1 \in Int
    BY <1>1
  <2> HIDE DEF n
  <2>2. IsFiniteSet(1..n) /\ Cardinality(1..n) = IF 1 > n THEN 0 ELSE n - 1 + 1
    BY <2>1, FS_Interval
  <2>3. (IF 1 > n THEN 0 ELSE n - 1 + 1) = n
    BY <2>1
  <2> QED
    BY <2>2, <2>3 DEF n
<1> DEFINE I == {i \in DOMAIN s : s[i] = [key |-> k, value |-> v]}
<1>3. I \in SUBSET (1..Len(s)) /\ Count(s, k, v) = Cardinality(I)
  BY <1>1 DEF Count
<1> HIDE DEF I
<1>4. IsFiniteSet(I) /\ Cardinality(I) <= Len(s) /\ Cardinality(I) \in Nat
  <2>1. IsFiniteSet(I) /\ Cardinality(I) <= Cardinality(1..Len(s))
    BY <1>2, <1>3, FS_Subset
  <2> QED
    BY <1>2, <2>1, FS_CardinalityType
<1> QED
  BY <1>1, <1>2, <1>3, <1>4

\* Only values that occur can be in surplus, so the surplus is finite.
LEMMA SurplusFinite ==
    ASSUME NEW a \in Seq(Row), NEW b \in Seq(Row), NEW k
    PROVE  IsFiniteSet(Surplus(a, b, k)) /\ Cardinality(Surplus(a, b, k)) \in Nat
<1> DEFINE V == {a[i].value : i \in DOMAIN a}
           f == [i \in DOMAIN a |-> a[i].value]
<1>1. IsFiniteSet(DOMAIN a) /\ Len(a) \in Nat
  BY Occurrences
<1>2. f \in Surjection(DOMAIN a, V)
  <2>1. f \in [DOMAIN a -> V] /\ \A v \in V : \E i \in DOMAIN a : f[i] = v
    OBVIOUS
  <2> HIDE DEF f, V
  <2> QED
    BY <2>1 DEF Surjection
<1>3. IsFiniteSet(V)
  <2> HIDE DEF f, V
  <2> QED
    BY <1>1, <1>2, FS_Surjection
<1>4. IsFiniteSet(V \X (1..Len(a)))
  <2>1. IsFiniteSet(1..Len(a))
    BY <1>1, FS_Interval
  <2> HIDE DEF V
  <2> QED
    BY <1>3, <2>1, FS_Product
<1>5. Surplus(a, b, k) \in SUBSET (V \X (1..Len(a)))
  <2> SUFFICES ASSUME NEW x \in Surplus(a, b, k) PROVE x \in V \X (1..Len(a))
    OBVIOUS
  <2>1. /\ x \in Value \X (1..Len(a))
        /\ Count(b, k, x[1]) < x[2] /\ x[2] <= Count(a, k, x[1])
    BY DEF Surplus
  <2>2. Count(b, k, x[1]) \in Nat /\ Count(a, k, x[1]) \in Nat
    BY Occurrences
  <2>3. Count(a, k, x[1]) # 0
    BY <2>1, <2>2
  <2>4. {i \in DOMAIN a : a[i] = [key |-> k, value |-> x[1]]} # {}
    BY <2>3, FS_EmptySet DEF Count
  <2>5. x[1] \in V
    BY <2>4
  <2> HIDE DEF V
  <2> QED
    BY <2>1, <2>5
<1> HIDE DEF V
<1> QED
  BY <1>4, <1>5, FS_Subset, FS_CardinalityType

LEMMA RecordDiffTypes ==
    ASSUME NEW old \in Seq(Row), NEW new \in Seq(Row)
    PROVE  RecordDiff(old, new) \in [Key -> [changed : Nat, removed : Nat, added : Nat]]
<1> SUFFICES ASSUME NEW k \in Key
             PROVE  LET removed == Cardinality(Surplus(old, new, k))
                        added == Cardinality(Surplus(new, old, k))
                        overlap == Min2(removed, added)
                    IN  [changed |-> overlap, removed |-> removed - overlap,
                         added |-> added - overlap]
                        \in [changed : Nat, removed : Nat, added : Nat]
  BY DEF RecordDiff
<1> DEFINE r == Cardinality(Surplus(old, new, k))
           a == Cardinality(Surplus(new, old, k))
<1>1. r \in Nat /\ a \in Nat
  BY SurplusFinite
<1> HIDE DEF r, a
<1>2. Min2(r, a) \in Nat /\ r - Min2(r, a) \in Nat /\ a - Min2(r, a) \in Nat
  BY <1>1 DEF Min2
<1>3. [changed |-> Min2(r, a), removed |-> r - Min2(r, a), added |-> a - Min2(r, a)]
        \in [changed : Nat, removed : Nat, added : Nat]
  BY <1>2
<1> QED
  BY <1>3 DEF r, a

LEMMA CoverageInserted ==
    ASSUME TypeOK, NEW t \in Time, NEW c \in Maybe, InsertCoverageRow(t, c)
    PROVE  /\ coverage' \in [Time -> Maybe]
           /\ \A u \in Time : coverage[u] # None => coverage'[u] = coverage[u]
BY DEF TypeOK, InsertCoverageRow

\* A ledger entry, once there, is never written again.
LEMMA CoverageKept ==
    ASSUME TypeOK, Next
    PROVE  /\ coverage' \in [Time -> Maybe]
           /\ \A u \in Time : coverage[u] # None => coverage'[u] = coverage[u]
<1>1. CASE UNCHANGED coverage
  BY <1>1 DEF TypeOK
<1>2. ASSUME NEW p \in Process, InsertCoverageRow(RefreshTime, proc[p].prior)
      PROVE  /\ coverage' \in [Time -> Maybe]
             /\ \A u \in Time : coverage[u] # None => coverage'[u] = coverage[u]
  BY <1>2, CoverageInserted, RunTypes, Records
<1>3. ASSUME NEW p \in Process, InsertCoverageRow(proc[p].time, proc[p].got)
      PROVE  /\ coverage' \in [Time -> Maybe]
             /\ \A u \in Time : coverage[u] # None => coverage'[u] = coverage[u]
  BY <1>3, CoverageInserted, RunTypes
<1> QED
  BY <1>1, <1>2, <1>3, CoverageSteps

\* Stored rows that are not damaged are never written again.
LEMMA RowsKept ==
    ASSUME TypeOK, Next
    PROVE  /\ rowsets' \in [Content -> Rows] /\ raws' \in [Content -> Rows]
           /\ tampered \subseteq tampered' /\ tampered' \subseteq Content
           /\ \A c \in Content : RowsStand(c)'
           /\ corruptions' = corruptions =>
                 \A c \in Content : rowsets[c] # NoRows =>
                     rowsets'[c] = rowsets[c] /\ raws'[c] = raws[c]
<1>1. CASE UNCHANGED <<rowsets, raws, tampered>>
  BY <1>1 DEF TypeOK, RowsStand
<1>2. ASSUME NEW p \in Process, At(p, "rows"), rowsets[proc[p].got] = NoRows,
             rowsets' = [rowsets EXCEPT ![proc[p].got] = Parsed[proc[p].got]],
             raws' = [raws EXCEPT ![proc[p].got] = Parsed[proc[p].got]], UNCHANGED tampered
      PROVE  /\ rowsets' \in [Content -> Rows] /\ raws' \in [Content -> Rows]
             /\ \A c \in Content : RowsStand(c)'
             /\ \A c \in Content : rowsets[c] # NoRows =>
                   rowsets'[c] = rowsets[c] /\ raws'[c] = raws[c]
  <2> DEFINE c == proc[p].got
  <2>1. c \in Content /\ c \in Parsable
    BY <1>2 DEF TypeOK, At, Recordable, Recording
  <2>2. Parsed[c] \in Rows /\ Parsed[c] # NoRows /\ Len(Parsed[c]) \in Nat
    BY <2>1, ParsedRows
  <2>3. rowsets[c] = NoRows /\ UNCHANGED tampered
        /\ rowsets' = [rowsets EXCEPT ![c] = Parsed[c]] /\ raws' = [raws EXCEPT ![c] = Parsed[c]]
    BY <1>2
  <2> HIDE DEF c
  <2>4. /\ rowsets' \in [Content -> Rows] /\ raws' \in [Content -> Rows]
        /\ rowsets'[c] = Parsed[c] /\ raws'[c] = Parsed[c]
        /\ \A d \in Content : d # c => rowsets'[d] = rowsets[d] /\ raws'[d] = raws[d]
    BY <2>1, <2>2, <2>3 DEF TypeOK
  <2>5. \A d \in Content : RowsStand(d)'
    BY <2>1, <2>2, <2>3, <2>4 DEF TypeOK, RowsStand
  <2> QED
    BY <2>3, <2>4, <2>5
<1> QED
  BY <1>1, <1>2, DamagedRows, DamagedRaws, RowSteps DEF TypeOK

\* A stored diff is never written again.
LEMMA DiffsKept ==
    ASSUME TypeOK, Next
    PROVE  /\ diffs' \in [Content \X Content -> Diffs]
           /\ \A x \in Content \X Content : diffs[x] # NoDiff => diffs'[x] = diffs[x]
<1>1. CASE UNCHANGED diffs
  BY <1>1 DEF TypeOK
<1>2. ASSUME NEW p \in Process, At(p, "diff"), proc[p].prior # None, Verified(proc[p].prior),
             diffs' = [diffs EXCEPT ![<<proc[p].prior, proc[p].got>>] =
                IF @ = NoDiff THEN RecordDiff(rowsets[proc[p].prior], Parsed[proc[p].got]) ELSE @]
      PROVE  /\ diffs' \in [Content \X Content -> Diffs]
             /\ \A x \in Content \X Content : diffs[x] # NoDiff => diffs'[x] = diffs[x]
  <2> DEFINE o == proc[p].prior
             n == proc[p].got
             x == <<o, n>>
             d == RecordDiff(rowsets[o], Parsed[n])
  <2>1. o \in Content /\ n \in Parsable /\ n \in Content
    BY <1>2, RunTypes, Records DEF Maybe, TypeOK, At, Recordable, Recording
  <2>2. rowsets[o] \in Seq(Row) /\ Parsed[n] \in Seq(Row)
    BY <1>2, <2>1, ParsedRows DEF Verified, TypeOK, Rows
  <2>3. d \in Diffs
    BY <2>2, RecordDiffTypes DEF Diffs
  <2>4. x \in Content \X Content
    BY <2>1
  <2>5. diffs' = [diffs EXCEPT ![x] = IF @ = NoDiff THEN d ELSE @]
    BY <1>2
  <2> HIDE DEF d, x
  <2> QED
    BY <2>3, <2>4, <2>5 DEF TypeOK
<1> QED
  BY <1>1, <1>2, DiffSteps

LEMMA AlertsKept ==
    ASSUME TypeOK, Next
    PROVE  alerts \subseteq alerts' /\ alerts' \subseteq Alert /\ matters' \subseteq Key
<1>1. alerts \subseteq alerts' /\ alerts' \subseteq Alert
  BY AlertSteps, RunTypes DEF TypeOK
<1>2. \A p \in Process : Affected(p) \subseteq Key
  BY RunTypes DEF Affected, Alert
<1>3. matters' \subseteq Key
  BY <1>2, MatterSteps DEF TypeOK
<1> QED
  BY <1>1, <1>3

LEMMA StepKeepsTypes ==
    ASSUME TypeOK, Next
    PROVE  TypeOK'
<1>1. revisions' \subseteq Content
  BY RevisionSteps DEF TypeOK, At
<1>2. observations' \in [{200, 304} -> Maybe]
  <2>1. ASSUME NEW p \in Process, Observe(p) PROVE observations' \in [{200, 304} -> Maybe]
    BY <2>1, RunTypes DEF Observe, TypeOK
  <2> QED
    BY <2>1, ObservationSteps DEF TypeOK
<1>3. Known' \subseteq Parsable /\ snapshots' \in Seq(Snapshot)
  BY KnownGrows
<1>4. proc' \in [Process -> Run] /\ \A p \in Process : CommandOK(p)'
  BY StepKeepsCommands
<1>5. /\ rowsets' \in [Content -> Rows] /\ raws' \in [Content -> Rows]
      /\ tampered' \subseteq Content /\ \A c \in Content : RowsStand(c)'
      /\ coverage' \in [Time -> Maybe]
      /\ diffs' \in [Content \X Content -> Diffs] /\ alerts' \subseteq Alert /\ matters' \subseteq Key
  BY RowsKept, CoverageKept, DiffsKept, AlertsKept
<1>6. /\ runs' \in 0..MaxRuns /\ corruptions' \in 0..MaxCorruptions /\ disturbed' \in BOOLEAN
  BY CounterSteps
<1> QED
  BY <1>1, <1>2, <1>3, <1>4, <1>5, <1>6 DEF TypeOK, CommandOK

LEMMA TypeCorrect == Spec => []TypeOK
<1>1. Init => TypeOK
  <2> SUFFICES ASSUME Init PROVE TypeOK
    OBVIOUS
  <2>1. Known = {}
    BY DEF Init, Known
  <2>2. /\ rowsets \in [Content -> Rows] /\ raws \in [Content -> Rows]
        /\ tampered \subseteq Content /\ \A c \in Content : RowsStand(c)
        /\ coverage \in [Time -> Maybe]
        /\ observations \in [{200, 304} -> Maybe] /\ diffs \in [Content \X Content -> Diffs]
    BY Records DEF Init, Rows, RowsStand, Diffs
  <2>3. proc \in [Process -> Run] /\ \A p \in Process : CommandOK(p)
    BY Records DEF Init, CommandOK, Recordable, Recording
  <2>4. runs \in 0..MaxRuns /\ corruptions \in 0..MaxCorruptions
    BY BoundAssumption DEF Init
  <2>5. snapshots \in Seq(Snapshot)
    BY DEF Init
  <2> QED
    BY <2>1, <2>2, <2>3, <2>4, <2>5 DEF Init, TypeOK, CommandOK
<1>2. TypeOK /\ [Next]_vars => TypeOK'
  <2>1. ASSUME TypeOK, UNCHANGED vars PROVE TypeOK'
    BY <2>1 DEF vars, ledger, history, TypeOK, RowsStand, Known
  <2> QED
    BY <2>1, StepKeepsTypes
<1> QED
  BY <1>1, <1>2, PTL DEF Spec

(* The ledger is append-only: INSERT OR IGNORE, and the conflict check of    *)
(* insert_snapshot_row_set_with_rows, keep every snapshot, row set, diff,    *)
(* alert and coverage entry as it was, whatever commands run side by side.   *)
THEOREM LedgerIsAppendOnly == Spec => NothingRewritten
<1> DEFINE Kept == /\ Len(snapshots) <= Len(snapshots')
                   /\ \A i \in DOMAIN snapshots : snapshots'[i] = snapshots[i]
                   /\ corruptions' = corruptions =>
                         \A c \in Content : rowsets[c] # NoRows =>
                             rowsets'[c] = rowsets[c] /\ raws'[c] = raws[c]
                   /\ \A o, n \in Content : diffs[<<o, n>>] # NoDiff => diffs'[<<o, n>>] = diffs[<<o, n>>]
                   /\ alerts \subseteq alerts'
                   /\ \A t \in Time : coverage[t] # None => coverage'[t] = coverage[t]
<1>1. TypeOK /\ Next => Kept
  <2> SUFFICES ASSUME TypeOK, Next PROVE Kept
    OBVIOUS
  <2>1. /\ Len(snapshots) <= Len(snapshots')
        /\ \A i \in DOMAIN snapshots : snapshots'[i] = snapshots[i]
    BY KnownGrows
  <2>2. \A o, n \in Content : diffs[<<o, n>>] # NoDiff => diffs'[<<o, n>>] = diffs[<<o, n>>]
    <3>1. \A x \in Content \X Content : diffs[x] # NoDiff => diffs'[x] = diffs[x]
      BY DiffsKept
    <3> QED
      BY <3>1
  <2> QED
    BY <2>1, <2>2, RowsKept, CoverageKept, AlertsKept
<1>2. TypeOK /\ [Next]_vars => [Kept]_vars
  BY <1>1
<1> QED
  BY <1>2, TypeCorrect, PTL DEF Spec, NothingRewritten

-----------------------------------------------------------------------------
(* The chain of snapshots. *)

\* Only snapshots have revisions, and a command about to record one has just
\* inserted a snapshot that supersedes another.
HistInv ==
    /\ revisions \subseteq Known
    /\ \A p \in Process : At(p, "revision") =>
          /\ proc[p].got \in Known
          /\ \A i \in DOMAIN snapshots :
                snapshots[i].content = proc[p].got => snapshots[i].supersedes # None
    /\ HistoryIsAcyclic

\* A command is at its revision because it has just inserted, or was there.
LEMMA RevisionNext ==
    ASSUME TypeOK, Next, NEW p \in Process, At(p, "revision")'
    PROVE  \/ proc'[p] = proc[p] /\ At(p, "revision")
           \/ /\ At(p, "snapshot") /\ proc[p].got \notin Known /\ proc[p].prior # None
              /\ proc'[p].got = proc[p].got
              /\ snapshots' = Append(snapshots,
                    [content |-> proc[p].got, time |-> proc[p].time,
                     etag |-> proc[p].etag, supersedes |-> proc[p].prior])
<1>1. ASSUME NEW q \in Process, q # p, \A x \in Process : x # q => proc'[x] = proc[x]
      PROVE  proc'[p] = proc[p] /\ At(p, "revision")
  BY <1>1 DEF At
<1>2. CASE UNCHANGED proc
  BY <1>2 DEF At
<1>3. ASSUME Becomes(p, Idle) PROVE FALSE
  BY <1>3, Records DEF Becomes, Alike, At
<1>4. ASSUME (\E c \in Content : Ingest(p, c)) \/ Refresh(p) PROVE FALSE
  <2>1. PICK o \in Maybe : \/ Becomes(p, Refreshing(o))
                           \/ \E c \in Parsable : Becomes(p, Ingesting(c, o))
    BY <1>4, Starts
  <2> QED
    BY <2>1, RefreshingTypes, IngestingTypes, Records DEF Becomes, Alike, At
<1>5. ASSUME Fetch(p), ~Exit(p) PROVE FALSE
  BY <1>5, FetchMoves DEF At
<1>6. ASSUME ReadPrior(p) PROVE FALSE
  BY <1>6, ReadPriorMoves DEF At
<1>7. ASSUME NEW s \in Step, Goto(p, s) PROVE proc'[p].pc = s /\ proc'[p].got = proc[p].got
  BY <1>7, GotoMoves DEF Moves
<1>8. ASSUME Exit(p) PROVE FALSE
  BY <1>3, <1>8, ExitMoves
<1>9. ASSUME Observe(p) \/ Unchanged(p) \/ AlertsDone(p) \/ Finish(p) \/ Crash(p)
             \/ InsertRevision(p) \/ InsertRows(p) \/ InsertCoverage(p) \/ InsertDiff(p)
      PROVE  FALSE
  <2>1. \/ Exit(p)
        \/ \E s \in Step : Goto(p, s) /\ s # "revision"
    BY <1>9 DEF Observe, Unchanged, AlertsDone, Finish, Crash, InsertRevision, InsertRows,
       InsertCoverage, InsertDiff, AfterDiff, Step
  <2> QED
    BY <1>7, <1>8, <2>1 DEF At
<1>10. ASSUME InsertSnapshot(p)
       PROVE  /\ At(p, "snapshot") /\ proc[p].got \notin Known /\ proc[p].prior # None
              /\ proc'[p].got = proc[p].got
              /\ snapshots' = Append(snapshots,
                    [content |-> proc[p].got, time |-> proc[p].time,
                     etag |-> proc[p].etag, supersedes |-> proc[p].prior])
  <2>1. "rows" \in Step /\ "revision" \in Step
    BY DEF Step
  <2>2. ~Goto(p, "rows")
    BY <1>7, <2>1 DEF At
  <2>3. Goto(p, "revision") => proc'[p].got = proc[p].got
    BY <1>7, <2>1
  <2>4. CASE proc[p].got \in Known
    BY <1>10, <2>2, <2>4 DEF InsertSnapshot
  <2>5. CASE proc[p].got \notin Known
    BY <1>10, <2>2, <2>3, <2>5 DEF InsertSnapshot
  <2> QED
    BY <2>4, <2>5
<1>11. ASSUME InsertAlert(p) \/ EnsureMatter(p)
       PROVE  UNCHANGED proc
  BY <1>11 DEF InsertAlert, EnsureMatter
<1>12. ASSUME NEW c \in Content, Damage(c) \/ DamageRaw(c)
       PROVE  UNCHANGED proc
  BY <1>12 DEF Damage, DamageRaw, Harm
\* The process that takes the step is p, or p does not change.
<1>13. ASSUME NEW q \in Process,
              (\E c \in Content : Ingest(q, c)) \/ Refresh(q) \/ RefreshStep(q)
                 \/ RecordStep(q) \/ Crash(q)
       PROVE  UNCHANGED proc \/ q = p \/ \A x \in Process : x # q => proc'[x] = proc[x]
  <2>1. CASE (\E c \in Content : Ingest(q, c)) \/ Refresh(q)
    BY <2>1, Starts DEF Becomes
  <2>2. CASE Exit(q)
    BY <2>2, ExitMoves DEF Becomes
  <2>3. ASSUME NEW s \in Step, Goto(q, s) PROVE \A x \in Process : x # q => proc'[x] = proc[x]
    BY <2>3, GotoMoves DEF Moves
  <2>4. CASE Fetch(q) /\ ~Exit(q)
    BY <2>4, FetchMoves
  <2>5. CASE ReadPrior(q)
    BY <2>5, ReadPriorMoves
  <2>6. CASE InsertAlert(q) \/ EnsureMatter(q)
    BY <2>6 DEF InsertAlert, EnsureMatter
  <2>7. CASE Observe(q) \/ Unchanged(q) \/ AlertsDone(q) \/ Finish(q) \/ RecordStep(q) \/ Crash(q)
    <3>1. Exit(q) \/ \E s \in Step : Goto(q, s)
      BY <2>7 DEF Observe, Unchanged, AlertsDone, Finish, RecordStep, InsertSnapshot,
         InsertRevision, InsertRows, InsertCoverage, InsertDiff, AfterDiff, Crash, Step
    <3> QED
      BY <2>2, <2>3, <3>1
  <2> QED
    BY <1>13, <2>1, <2>2, <2>4, <2>5, <2>6, <2>7 DEF RefreshStep
<1>14. CASE UNCHANGED proc
  BY <1>2, <1>14
<1>15. ASSUME (\E c \in Content : Ingest(p, c)) \/ Refresh(p) \/ RefreshStep(p)
                 \/ RecordStep(p) \/ Crash(p), proc' # proc
       PROVE  InsertSnapshot(p)
  BY <1>4, <1>5, <1>6, <1>8, <1>9, <1>11, <1>15 DEF RefreshStep, RecordStep
<1>16. \/ UNCHANGED proc
       \/ \E q \in Process : (\E c \in Content : Ingest(q, c)) \/ Refresh(q) \/ RefreshStep(q)
                                \/ RecordStep(q) \/ Crash(q)
  BY <1>12 DEF Next
<1> QED
  BY <1>1, <1>10, <1>13, <1>14, <1>15, <1>16

LEMMA StepKeepsHistory ==
    ASSUME TypeOK, HistInv, Next
    PROVE  HistInv'
<1>1. /\ Known \subseteq Known' /\ Len(snapshots) <= Len(snapshots')
      /\ \A i \in DOMAIN snapshots : i \in DOMAIN snapshots' /\ snapshots'[i] = snapshots[i]
  BY KnownGrows
<1>2. revisions' \subseteq Known'
  <2>1. \A p \in Process : At(p, "revision") => proc[p].got \in Known
    BY DEF HistInv
  <2> QED
    BY <1>1, <2>1, RevisionSteps DEF HistInv
<1>3. CASE UNCHANGED snapshots
  <2>1. \A p \in Process : At(p, "revision")' => proc'[p] = proc[p] /\ At(p, "revision")
    <3>1. ASSUME NEW s PROVE snapshots # Append(snapshots, s)
      <4>1. Len(Append(snapshots, s)) = Len(snapshots) + 1 /\ Len(snapshots) \in Nat
        BY DEF TypeOK
      <4> QED
        BY <4>1
    <3> QED
      BY <1>3, <3>1, RevisionNext
  <2>2. \A p \in Process : At(p, "revision")' =>
          /\ proc'[p].got \in Known'
          /\ \A i \in DOMAIN snapshots' :
                snapshots'[i].content = proc'[p].got => snapshots'[i].supersedes # None
    BY <1>3, <2>1 DEF HistInv, Known
  <2>3. HistoryIsAcyclic'
    <3>1. ASSUME NEW i \in DOMAIN snapshots, snapshots[i].content \in revisions'
          PROVE  snapshots[i].supersedes # None
      <4>1. CASE snapshots[i].content \in revisions
        BY <4>1 DEF HistInv, HistoryIsAcyclic
      <4>2. CASE \E p \in Process : At(p, "revision") /\ snapshots[i].content = proc[p].got
        BY <4>2 DEF HistInv
      <4> QED
        BY <3>1, <4>1, <4>2, RevisionSteps
    <3> QED
      BY <1>3, <3>1 DEF HistInv, HistoryIsAcyclic
  <2> QED
    BY <1>2, <2>2, <2>3 DEF HistInv
<1>4. ASSUME NEW p \in Process, InsertSnapshot(p), At(p, "snapshot"), proc[p].got \notin Known,
             snapshots' = Append(snapshots,
                [content |-> proc[p].got, time |-> proc[p].time,
                 etag |-> proc[p].etag, supersedes |-> proc[p].prior])
      PROVE  HistInv'
  <2> DEFINE s == [content |-> proc[p].got, time |-> proc[p].time,
                   etag |-> proc[p].etag, supersedes |-> proc[p].prior]
             n == Len(snapshots)
  <2>1. proc[p].got \in Parsable /\ (proc[p].prior # None => proc[p].prior \in Known)
    BY <1>4 DEF TypeOK, At, Recordable
  <2>2. s \in Snapshot /\ s.content = proc[p].got /\ s.supersedes = proc[p].prior
    BY <2>1, Records, RunTypes DEF Snapshot
  <2>3. snapshots' = Append(snapshots, s)
    BY <1>4
  <2> HIDE DEF s
  <2>4. /\ n \in Nat /\ DOMAIN snapshots = 1..n /\ DOMAIN snapshots' = 1..(n + 1)
        /\ snapshots'[n + 1] = s
        /\ \A i \in 1..n : snapshots'[i] = snapshots[i]
        /\ Known' = Known \cup {s.content}
    BY <2>2, <2>3, Appended
  <2> HIDE DEF n
  <2>5. UNCHANGED revisions /\ s.content \notin revisions
    BY <1>4, <2>2 DEF InsertSnapshot, HistInv
  <2>6. HistoryIsAcyclic'
    <3> SUFFICES ASSUME NEW i \in 1..(n + 1)
                 PROVE  /\ snapshots'[i].supersedes # None =>
                             \E j \in 1..(i - 1) : snapshots'[j].content = snapshots'[i].supersedes
                        /\ snapshots'[i].content \in revisions => snapshots'[i].supersedes # None
      BY <2>4, <2>5 DEF HistoryIsAcyclic
    <3>1. CASE i \in 1..n
      <4>1. /\ snapshots[i].supersedes # None =>
                 \E j \in 1..(i - 1) : snapshots[j].content = snapshots[i].supersedes
            /\ snapshots[i].content \in revisions => snapshots[i].supersedes # None
        BY <2>4, <3>1 DEF HistInv, HistoryIsAcyclic
      <4>2. \A j \in 1..(i - 1) : j \in 1..n
        BY <2>4, <3>1
      <4> QED
        BY <2>4, <3>1, <4>1, <4>2
    <3>2. CASE i = n + 1
      <4>1. (n + 1) - 1 = n
        BY <2>4
      <4>2. proc[p].prior # None => \E j \in 1..n : snapshots[j].content = proc[p].prior
        BY <2>1, <2>4 DEF Known
      <4> QED
        BY <2>2, <2>4, <2>5, <3>2, <4>1, <4>2
    <3> QED
      BY <2>4, <3>1, <3>2
  <2>7. ASSUME NEW q \in Process, At(q, "revision")'
        PROVE  /\ proc'[q].got \in Known'
               /\ \A i \in DOMAIN snapshots' :
                     snapshots'[i].content = proc'[q].got => snapshots'[i].supersedes # None
    <3>1. CASE proc'[q] = proc[q] /\ At(q, "revision")
      <4>1. /\ proc[q].got \in Known
            /\ \A i \in DOMAIN snapshots :
                  snapshots[i].content = proc[q].got => snapshots[i].supersedes # None
        BY <3>1 DEF HistInv
      <4>2. s.content # proc[q].got
        BY <1>4, <2>2, <4>1
      <4>3. \A i \in 1..(n + 1) : i \in 1..n \/ i = n + 1
        BY <2>4
      <4> QED
        BY <2>4, <3>1, <4>1, <4>2, <4>3
    <3>2. CASE /\ proc[q].got \notin Known /\ proc[q].prior # None
               /\ proc'[q].got = proc[q].got
               /\ snapshots' = Append(snapshots,
                    [content |-> proc[q].got, time |-> proc[q].time,
                     etag |-> proc[q].etag, supersedes |-> proc[q].prior])
      <4> DEFINE t == [content |-> proc[q].got, time |-> proc[q].time,
                       etag |-> proc[q].etag, supersedes |-> proc[q].prior]
      <4>1. t.content = proc[q].got /\ t.supersedes = proc[q].prior
        OBVIOUS
      <4>2. t = s
        <5>1. snapshots' = Append(snapshots, t)
          BY <3>2
        <5>2. snapshots'[n + 1] = t
          BY <5>1 DEF TypeOK, n
        <5> QED
          BY <2>4, <5>2
      <4> HIDE DEF t
      <4>3. \A i \in 1..(n + 1) : i \in 1..n \/ i = n + 1
        BY <2>4
      <4>4. \A i \in 1..n : snapshots'[i].content # proc[q].got
        BY <2>4, <3>2 DEF Known
      <4> QED
        BY <2>4, <3>2, <4>1, <4>2, <4>3, <4>4
    <3> QED
      BY <2>7, <3>1, <3>2, RevisionNext
  <2> QED
    BY <1>2, <2>6, <2>7 DEF HistInv
<1> QED
  BY <1>3, <1>4, SnapshotSteps

(* A snapshot supersedes only one that was inserted before it, so no chain   *)
(* of revisions leads back to where it began; and InsertRevision records a   *)
(* revision only for a snapshot that supersedes another.                     *)
THEOREM SnapshotsFormNoCycle == Spec => []HistoryIsAcyclic
<1>1. Init => HistInv
  <2> SUFFICES ASSUME Init PROVE HistInv
    OBVIOUS
  <2>1. DOMAIN snapshots = {}
    BY DEF Init
  <2> QED
    BY <2>1, Records DEF Init, HistInv, HistoryIsAcyclic, At
<1>2. TypeOK /\ HistInv /\ [Next]_vars => HistInv'
  <2>1. ASSUME HistInv, UNCHANGED vars PROVE HistInv'
    BY <2>1 DEF vars, ledger, history, HistInv, HistoryIsAcyclic, Known, At
  <2> QED
    BY <2>1, StepKeepsHistory
<1>3. HistInv => HistoryIsAcyclic
  BY DEF HistInv
<1> QED
  BY <1>1, <1>2, <1>3, TypeCorrect, PTL DEF Spec

-----------------------------------------------------------------------------
(* Alerts are true. *)

TrueAlert(a) ==
    LET old == Parsed[a.old]
        new == Parsed[a.new]
    IN  /\ a.kind = "removed" <=> a.key \notin Keys(new)
        /\ a.old \notin tampered =>
              /\ a.kind = "added"   => a.key \notin Keys(old)
              /\ a.kind = "removed" => a.key \in Keys(old)
              /\ a.kind = "modified" =>
                    /\ a.key \in Keys(old)
                    /\ \E i \in DOMAIN old, j \in DOMAIN new :
                          /\ old[i].key = a.key /\ new[j].key = a.key
                          /\ old[i] # new[j]

\* The alerts on record, and those a command has derived, are true.
TrueInv ==
    /\ \A a \in alerts : TrueAlert(a)
    /\ \A p \in Process : \A a \in proc[p].alerts : TrueAlert(a)

\* The kind of a change, and what it takes.
LEMMA Kinds ==
    ASSUME NEW old, NEW new, NEW k \in ChangedKeys(old, new)
    PROVE  /\ k \in Keys(old) \cup Keys(new)
           /\ KindOfChange(old, new, k) = "removed" <=> k \in Keys(old) \ Keys(new)
           /\ KindOfChange(old, new, k) = "added" <=> k \in Keys(new) \ Keys(old)
           /\ KindOfChange(old, new, k) = "modified" <=> k \in Keys(old) \cap Keys(new)
           /\ KindOfChange(old, new, k) = "removed" <=> k \notin Keys(new)
           /\ KindOfChange(old, new, k) \in Kind
<1>1. k \in Keys(old) \cup Keys(new)
  BY DEF ChangedKeys
<1>2. CASE k \notin Keys(new)
  BY <1>1, <1>2 DEF KindOfChange, Kind
<1>3. CASE k \in Keys(new) /\ k \notin Keys(old)
  BY <1>1, <1>3 DEF KindOfChange, Kind
<1>4. CASE k \in Keys(new) /\ k \in Keys(old)
  BY <1>1, <1>4 DEF KindOfChange, Kind
<1> QED
  BY <1>2, <1>3, <1>4

LEMMA DerivedAlertsAreTrue ==
    ASSUME NEW o, NEW n, NEW raw, o \in tampered \/ raw = Parsed[o],
           NEW a \in ChangeAlerts(o, n, raw, Parsed[n])
    PROVE  TrueAlert(a)
<1> DEFINE new == Parsed[n]
<1>1. PICK k \in ChangedKeys(raw, new) :
         a = [kind |-> KindOfChange(raw, new, k), key |-> k, old |-> o, new |-> n]
  BY DEF ChangeAlerts
<1>2. a.kind = KindOfChange(raw, new, k) /\ a.key = k /\ a.old = o /\ Parsed[a.new] = new
  BY <1>1
<1>3. k \in Keys(raw) \cap Keys(new) =>
         \E i \in DOMAIN raw, j \in DOMAIN new :
            /\ raw[i].key = k /\ new[j].key = k
            /\ raw[i] # new[j]
  BY DEF ChangedKeys
<1> HIDE DEF new
<1>4. a.kind = "removed" <=> a.key \notin Keys(new)
  BY <1>2, Kinds
<1>5. CASE raw = Parsed[o]
  <2>1. /\ a.kind = "added"   => a.key \notin Keys(raw)
        /\ a.kind = "removed" => a.key \in Keys(raw)
        /\ a.kind = "modified" => a.key \in Keys(raw) \cap Keys(new)
    BY <1>2, Kinds
  <2> QED
    BY <1>2, <1>3, <1>4, <1>5, <2>1 DEF TrueAlert
<1>6. CASE o \in tampered
  BY <1>2, <1>4, <1>6 DEF TrueAlert
<1> QED
  BY <1>5, <1>6

LEMMA StepKeepsTruth ==
    ASSUME TypeOK, TrueInv, Next
    PROVE  TrueInv'
<1>0. \A a : TrueAlert(a) => TrueAlert(a)'
  BY RowsKept DEF TrueAlert
<1>1. \A a \in alerts' : TrueAlert(a)'
  BY <1>0, AlertSteps DEF TrueInv
<1>2. ASSUME NEW p \in Process, \A a \in proc'[p].alerts : TrueAlert(a),
             \A q \in Process : q # p => proc'[q] = proc[q]
      PROVE  TrueInv'
  BY <1>1, <1>2, <1>0 DEF TrueInv
<1>3. CASE UNCHANGED proc
  BY <1>1, <1>3, <1>0 DEF TrueInv
<1>4. ASSUME NEW p \in Process, NEW r, Becomes(p, r), r.alerts = {} PROVE TrueInv'
  <2>1. proc'[p].alerts = {}
    BY <1>4 DEF Becomes, Alike
  <2> QED
    BY <1>2, <1>4, <2>1 DEF Becomes
<1>5. ASSUME NEW p \in Process, (\E c \in Content : Ingest(p, c)) \/ Refresh(p) PROVE TrueInv'
  <2>1. PICK o \in Maybe : \/ Becomes(p, Refreshing(o))
                           \/ \E c \in Parsable : Becomes(p, Ingesting(c, o))
    BY <1>5, Starts
  <2> QED
    BY <1>4, <2>1, Records, RefreshingTypes, IngestingTypes
<1>6. ASSUME NEW p \in Process, Fetch(p), ~Exit(p) PROVE TrueInv'
  <2>1. /\ proc'[p].alerts = proc[p].alerts
        /\ \A q \in Process : q # p => proc'[q] = proc[q]
    BY <1>6, FetchMoves
  <2> QED
    BY <1>2, <2>1 DEF TrueInv
<1>7. ASSUME NEW p \in Process, ReadPrior(p) PROVE TrueInv'
  <2> DEFINE o == proc[p].prior
             n == proc[p].got
  <2>1. /\ proc'[p].alerts # {} => /\ o # None /\ Verified(o)
                                   /\ proc'[p].alerts = ChangeAlerts(o, n, raws[o], Parsed[n])
        /\ \A q \in Process : q # p => proc'[q] = proc[q]
    BY <1>7, ReadPriorMoves
  <2>2. o # None => o \in Content
    BY RunTypes DEF Maybe
  <2> HIDE DEF o, n
  <2>3. proc'[p].alerts # {} => o \in tampered \/ raws[o] = Parsed[o]
    BY <2>1, <2>2, VerifiedRaws
  <2> QED
    BY <1>2, <2>1, <2>3, DerivedAlertsAreTrue
<1>8. ASSUME NEW p \in Process, NEW s \in Step, Moves(p, s) PROVE TrueInv'
  BY <1>2, <1>8 DEF Moves, TrueInv
<1> QED
  BY <1>3, <1>4, <1>5, <1>6, <1>7, <1>8, Records, ProcessSteps

(* No alert is fabricated, whatever was lost or altered in the columns the   *)
(* digests of snapshot_rows cover and however commands interleaved: the two  *)
(* snapshots it names differ in the row it names, in the way it says.  Where *)
(* the raw_json that build_change_alerts reads was damaged, which no digest  *)
(* covers, what is said of the later snapshot is still true.                 *)
THEOREM AlertsTellTheTruth == Spec => []AlertsAreTrue
<1>1. Init => TrueInv
  BY Records DEF Init, TrueInv
<1>2. TypeOK /\ TrueInv /\ [Next]_vars => TrueInv'
  <2>1. ASSUME TrueInv, UNCHANGED vars PROVE TrueInv'
    BY <2>1 DEF vars, ledger, history, TrueInv, TrueAlert
  <2> QED
    BY <2>1, StepKeepsTruth
<1>3. TypeOK /\ TrueInv => AlertsAreTrue
  <2> SUFFICES ASSUME TypeOK, TrueInv, NEW a \in alerts
               PROVE  LET old == Parsed[a.old]
                          new == Parsed[a.new]
                      IN  /\ a.kind = "removed" <=> a.key \notin Keys(new)
                          /\ a.old \in tampered
                             \/ CASE a.kind = "added"    -> a.key \notin Keys(old)
                                  [] a.kind = "removed"  -> a.key \in Keys(old)
                                  [] a.kind = "modified" ->
                                        /\ a.key \in Keys(old)
                                        /\ \E i \in DOMAIN old, j \in DOMAIN new :
                                              /\ old[i].key = a.key /\ new[j].key = a.key
                                              /\ old[i] # new[j]
    BY DEF AlertsAreTrue
  <2>1. a.kind \in {"added", "modified", "removed"} /\ TrueAlert(a)
    BY DEF TypeOK, Alert, Kind, TrueInv
  <2>2. CASE a.kind = "added"
    BY <2>1, <2>2 DEF TrueAlert
  <2>3. CASE a.kind = "removed"
    BY <2>1, <2>3 DEF TrueAlert
  <2>4. CASE a.kind = "modified"
    BY <2>1, <2>4 DEF TrueAlert
  <2> QED
    BY <2>1, <2>2, <2>3, <2>4
<1> QED
  BY <1>1, <1>2, <1>3, TypeCorrect, PTL DEF Spec

-----------------------------------------------------------------------------
(* Undisturbed changes are all reported. *)

Alone == \A p, q \in Process : ~At(p, "idle") /\ ~At(q, "idle") => p = q

\* What ChangesAreReported asks of a snapshot, and a snapshot it can be asked of.
Done(s) ==
    s.time = RefreshTime /\ s.supersedes # None =>
        /\ s.content \in revisions
        /\ Parsed[s.supersedes] # <<>> => Reported(s.supersedes, s.content)
Settled(s) == rowsets[s.content] = Parsed[s.content] /\ Done(s)

\* A refresh derives its alerts from the rows of the prior snapshot.
Built(p) ==
    LET me == proc[p] IN
    me.time = RefreshTime /\ me.prior # None /\ me.prior # me.got /\ Parsed[me.prior] # <<>>
       => me.alerts = ChangeAlerts(me.prior, me.got, Parsed[me.prior], Parsed[me.got])

\* The snapshot s is the one p has just inserted, and p has come this far.
New(p, s) ==
    LET me == proc[p] IN
    /\ s.content = me.got /\ s.supersedes = me.prior /\ s.time = me.time
    /\ me.prior # me.got /\ Built(p)
    /\ me.prior # None /\ me.pc # "revision" => me.got \in revisions
    /\ me.pc \notin {"revision", "rows"} => rowsets[me.got] = Parsed[me.got]
    /\ me.pc = "matters" => me.alerts \subseteq alerts

\* A command that has always run alone finds the rows of every snapshot, and
\* every snapshot but its own is done.
Accounted(s) ==
    \/ Settled(s)
    \/ \E p \in Process : proc[p].pc \in Recording /\ New(p, s)
Unharmed == \A c \in Content : rowsets[c] \in {NoRows, Parsed[c]} /\ raws[c] = rowsets[c]
ReportInv == ~disturbed =>
    /\ Alone /\ Unharmed
    /\ \A p \in Process : At(p, "snapshot") => Built(p)
    /\ \A i \in DOMAIN snapshots : Accounted(snapshots[i])

\* All derived alerts stored, with their matters, report everything.
LEMMA AllStored ==
    ASSUME NEW o \in Parsable, NEW n \in Parsable,
           ChangeAlerts(o, n, Parsed[o], Parsed[n]) \subseteq alerts,
           \A a \in ChangeAlerts(o, n, Parsed[o], Parsed[n]) : a.key \in matters
    PROVE  Reported(o, n)
<1> DEFINE old == Parsed[o]
           new == Parsed[n]
           Alerted(kind, k) == [kind |-> kind, key |-> k, old |-> o, new |-> n]
<1>1. old \in Seq(Row) /\ new \in Seq(Row)
  BY ParsedRows
<1>2. ASSUME NEW k \in ChangedKeys(old, new), NEW kind, kind = KindOfChange(old, new, k)
      PROVE  Alerted(kind, k) \in alerts /\ k \in matters
  <2>1. Alerted(kind, k) \in ChangeAlerts(o, n, old, new)
    BY <1>2 DEF ChangeAlerts
  <2>2. Alerted(kind, k).key = k
    OBVIOUS
  <2> HIDE DEF Alerted
  <2> QED
    BY <2>1, <2>2
<1>3. ASSUME NEW k \in Keys(old) \ Keys(new)
      PROVE  Alerted("removed", k) \in alerts /\ k \in matters
  <2>1. k \in ChangedKeys(old, new)
    BY DEF ChangedKeys
  <2> HIDE DEF Alerted, old, new
  <2> QED
    BY <1>2, <2>1, Kinds
<1>4. ASSUME NEW k \in Keys(new) \ Keys(old)
      PROVE  Alerted("added", k) \in alerts /\ k \in matters
  <2>1. k \in ChangedKeys(old, new)
    BY DEF ChangedKeys
  <2> HIDE DEF Alerted, old, new
  <2> QED
    BY <1>2, <2>1, Kinds
<1>5. ASSUME NEW rows \in Seq(Row), NEW i \in DOMAIN rows, Lone(rows, rows[i].key)
      PROVE  IsLast(rows, i)
  <2> DEFINE I == {j \in DOMAIN rows : rows[j].key = rows[i].key}
  <2>1. IsFiniteSet(DOMAIN rows) /\ DOMAIN rows \subseteq Nat
    <3>1. Len(rows) \in Nat /\ DOMAIN rows = 1..Len(rows)
      OBVIOUS
    <3> QED
      BY <3>1, FS_Interval
  <2>2. IsFiniteSet(I) /\ Cardinality(I) = 1
    BY <1>5, <2>1, FS_Subset DEF Lone
  <2>3. PICK x : I = {x}
    <3> HIDE DEF I
    <3> QED
      BY <2>2, FS_Singleton
  <2>4. \A j \in DOMAIN rows : rows[j].key = rows[i].key => j = i
    BY <2>3
  <2> QED
    BY <2>1, <2>4 DEF IsLast
<1>6. ASSUME NEW i \in DOMAIN old, NEW j \in DOMAIN new, old[i].key = new[j].key,
             old[i] # new[j], Lone(old, old[i].key), Lone(new, old[i].key)
      PROVE  Alerted("modified", old[i].key) \in alerts /\ old[i].key \in matters
  <2> DEFINE k == old[i].key
  <2>1. IsLast(old, i) /\ IsLast(new, j)
    BY <1>1, <1>5, <1>6
  <2>2. old[i].value # new[j].value
    <3>1. old[i] \in Row /\ new[j] \in Row
      BY <1>1
    <3>2. \A r, q \in Row : r.key = q.key /\ r.value = q.value => r = q
      BY DEF Row
    <3> HIDE DEF old, new
    <3> QED
      BY <1>6, <3>1, <3>2
  <2>3. k \in Keys(old) /\ k \in Keys(new)
    BY <1>6 DEF Keys
  <2> HIDE DEF old, new
  <2>4. k \in ChangedKeys(old, new)
    BY <1>6, <2>1, <2>2, <2>3 DEF ChangedKeys
  <2> HIDE DEF k, Alerted
  <2>5. KindOfChange(old, new, k) = "modified"
    BY <2>3, <2>4, Kinds
  <2> QED
    BY <1>2, <2>4, <2>5 DEF k
<1> QED
  BY <1>3, <1>4, <1>6 DEF Reported

\* What is done stays done.
LEMMA DoneStays ==
    ASSUME TypeOK, Next, NEW s, Done(s)
    PROVE  Done(s)' /\ revisions \subseteq revisions' /\ alerts \subseteq alerts'
           /\ matters \subseteq matters'
<1>1. revisions \subseteq revisions'
  BY RevisionSteps
<1>2. alerts \subseteq alerts'
  BY AlertsKept
<1>3. matters \subseteq matters'
  BY MatterSteps
<1>4. \A o, n : Reported(o, n) => Reported(o, n)'
  BY <1>2, <1>3 DEF Reported
<1> QED
  BY <1>1, <1>2, <1>3, <1>4 DEF Done

\* A step that disturbs nothing.
LEMMA Undisturbed ==
    ASSUME TypeOK, ReportInv, Next, ~disturbed'
    PROVE  /\ ~disturbed
           /\ Unharmed'
           /\ \A c \in Parsable : rowsets[c] = Parsed[c] => rowsets'[c] = Parsed[c]
           /\ \A p \in Process : ~Crash(p)
           /\ \A c \in Content : ~Damage(c) /\ ~DamageRaw(c)
<1>1. ~disturbed
  <2>1. \A p \in Process : (\E c \in Content : Ingest(p, c)) \/ Refresh(p) => ~disturbed
    BY Starts
  <2> QED
    BY <2>1 DEF Next, RefreshStep, Fetch, Observe, Unchanged, ReadPrior, InsertAlert,
       AlertsDone, EnsureMatter, Finish, RecordStep, InsertSnapshot, InsertRevision,
       InsertRows, InsertCoverage, InsertDiff, Crash, Damage, DamageRaw, Harm, history
<1>2. \A c \in Content : ~Damage(c) /\ ~DamageRaw(c)
  BY DEF Damage, DamageRaw, Harm
<1>3. \A p \in Process : ~Crash(p)
  BY DEF Crash
<1>4. \A c \in Content : \/ rowsets'[c] = rowsets[c] /\ raws'[c] = raws[c]
                         \/ rowsets[c] = NoRows /\ rowsets'[c] = Parsed[c] /\ raws'[c] = Parsed[c]
  BY <1>2, RowSteps DEF TypeOK
<1>5. Unharmed'
  BY <1>1, <1>4 DEF ReportInv, Unharmed
<1>6. \A c \in Parsable : rowsets[c] = Parsed[c] => rowsets'[c] = Parsed[c]
  BY <1>4, ParsedRows
<1> QED
  BY <1>1, <1>2, <1>3, <1>5, <1>6

\* Nothing is half recorded unless a command is recording.
LEMMA AllSettled ==
    ASSUME TypeOK, ReportInv, ~disturbed, NEW p \in Process, proc[p].pc \notin Recording,
           \A q \in Process : q # p => At(q, "idle")
    PROVE  \A i \in DOMAIN snapshots : Settled(snapshots[i])
<1>1. \A q \in Process : proc[q].pc \notin Recording
  BY DEF At, Recording
<1> QED
  BY <1>1 DEF ReportInv, Accounted

LEMMA SnapshotTypes ==
    ASSUME TypeOK, NEW i \in DOMAIN snapshots
    PROVE  /\ snapshots[i] \in Snapshot
           /\ snapshots[i].content \in Parsable /\ snapshots[i].content \in Known
           /\ snapshots[i].time \in Time /\ snapshots[i].supersedes \in Maybe
<1>1. snapshots[i] \in Snapshot
  BY DEF TypeOK
<1> QED
  BY <1>1 DEF TypeOK, Known, Snapshot

\* A step of the one command that runs leaves the snapshots accounted for, if it
\* accounts for its own.
LEMMA OneMoves ==
    ASSUME TypeOK, ReportInv, Next, ~disturbed', NEW p \in Process,
           \A q \in Process : q # p => At(q, "idle") /\ proc'[q] = proc[q],
           At(p, "snapshot")' => Built(p)',
           UNCHANGED snapshots,
           \A i \in DOMAIN snapshots : proc[p].pc \in Recording /\ New(p, snapshots[i]) =>
              Settled(snapshots[i])' \/ (proc'[p].pc \in Recording /\ New(p, snapshots[i])')
    PROVE  ReportInv'
<1>1. Alone' /\ Unharmed'
  BY Undisturbed DEF Alone, At
<1>2. \A q \in Process : At(q, "snapshot")' => Built(q)'
  BY DEF At
<1>3. ASSUME NEW i \in DOMAIN snapshots PROVE Accounted(snapshots[i])'
  <2> DEFINE s == snapshots[i]
  <2>1. s \in Snapshot /\ s.content \in Parsable
    BY SnapshotTypes
  <2>2. UNCHANGED s
    OBVIOUS
  <2>3. CASE Settled(s)
    <3>1. Done(s)
      BY <2>3 DEF Settled
    <3>2. Done(s)'
      BY <3>1, DoneStays
    <3>3. rowsets'[s.content] = Parsed[s.content]
      BY <2>1, <2>3, Undisturbed DEF Settled
    <3> QED
      BY <2>2, <3>2, <3>3 DEF Accounted, Settled
  <2>4. CASE proc[p].pc \in Recording /\ New(p, s)
    BY <2>4 DEF Accounted
  <2>5. \A q \in Process : q # p => proc[q].pc \notin Recording
    BY DEF At, Recording
  <2>6. ~disturbed
    BY Undisturbed
  <2> QED
    BY <2>3, <2>4, <2>5, <2>6 DEF ReportInv, Accounted
<1> QED
  BY <1>1, <1>2, <1>3 DEF ReportInv

\* A snapshot that p is recording is still accounted for after p's next step.
LEMMA NewGoesOn ==
    ASSUME NEW p \in Process, NEW step \in Recording, Moves(p, step),
           NEW s, New(p, s),
           revisions \subseteq revisions', alerts \subseteq alerts',
           proc[p].prior # None /\ proc[p].pc = "revision" /\ step # "revision" =>
              proc[p].got \in revisions',
           step \notin {"revision", "rows"} => rowsets'[proc[p].got] = Parsed[proc[p].got],
           step = "matters" => proc[p].alerts \subseteq alerts'
    PROVE  proc'[p].pc \in Recording /\ New(p, s)'
BY DEF New, Built, Moves

\* The one command that runs goes on recording.
LEMMA GoesOn ==
    ASSUME TypeOK, ReportInv, Next, ~disturbed', NEW p \in Process, ~At(p, "idle"),
           NEW step \in Step, step # "snapshot", Moves(p, step), UNCHANGED snapshots,
           proc[p].pc \in Recording => step \in Recording,
           proc[p].prior # None /\ proc[p].pc = "revision" /\ step # "revision" =>
              proc[p].got \in revisions',
           proc[p].pc \in {"revision", "rows"} /\ step \notin {"revision", "rows"} =>
              rowsets'[proc[p].got] = Parsed[proc[p].got],
           proc[p].pc # "matters" /\ step = "matters" => proc[p].alerts \subseteq alerts'
    PROVE  ReportInv'
<1>1. \A q \in Process : q # p => At(q, "idle") /\ proc'[q] = proc[q]
  BY Undisturbed DEF ReportInv, Alone, Moves
<1>2. ~At(p, "snapshot")'
  BY DEF At, Moves
<1>3. revisions \subseteq revisions' /\ alerts \subseteq alerts'
  BY RevisionSteps, AlertsKept
<1>4. ASSUME NEW s, proc[p].pc \in Recording, New(p, s)
      PROVE  proc'[p].pc \in Recording /\ New(p, s)'
  <2>1. step \notin {"revision", "rows"} => rowsets'[proc[p].got] = Parsed[proc[p].got]
    <3>1. proc[p].got \in Parsable
      BY <1>4 DEF TypeOK, Recordable
    <3>2. proc[p].pc \notin {"revision", "rows"} => rowsets[proc[p].got] = Parsed[proc[p].got]
      BY <1>4 DEF New
    <3> QED
      BY <3>1, <3>2, Undisturbed
  <2>2. step = "matters" => proc[p].alerts \subseteq alerts'
    BY <1>3, <1>4 DEF New
  <2> QED
    BY <1>3, <1>4, <2>1, <2>2, NewGoesOn
<1>5. \A i \in DOMAIN snapshots : proc[p].pc \in Recording /\ New(p, snapshots[i]) =>
         proc'[p].pc \in Recording /\ New(p, snapshots[i])'
  BY <1>4 DEF New, Built
<1> QED
  BY <1>1, <1>2, <1>5, OneMoves

\* The one command that runs ends, with nothing left to do.
LEMMA Ends ==
    ASSUME TypeOK, ReportInv, Next, ~disturbed', NEW p \in Process, ~At(p, "idle"),
           Becomes(p, Idle), UNCHANGED snapshots,
           \A s \in Snapshot : proc[p].pc \in Recording /\ New(p, s) => Settled(s)
    PROVE  ReportInv'
<1>1. \A q \in Process : q # p => At(q, "idle") /\ proc'[q] = proc[q]
  BY Undisturbed DEF ReportInv, Alone, Becomes
<1>2. ~At(p, "snapshot")'
  BY Records DEF At, Becomes, Alike
<1>3. ASSUME NEW i \in DOMAIN snapshots, proc[p].pc \in Recording, New(p, snapshots[i])
      PROVE  Settled(snapshots[i])'
  <2>1. PICK s \in Snapshot : s = snapshots[i] /\ s.content \in Parsable
    BY SnapshotTypes
  <2>2. Settled(s)
    BY <1>3, <2>1
  <2>3. Done(s) /\ rowsets[s.content] = Parsed[s.content]
    BY <2>2 DEF Settled
  <2>4. Done(s)'
    BY <2>3, DoneStays
  <2>5. rowsets'[s.content] = Parsed[s.content]
    BY <2>1, <2>3, Undisturbed
  <2>6. snapshots'[i] = s
    BY <2>1
  <2> QED
    BY <2>4, <2>5, <2>6 DEF Settled
<1> QED
  BY <1>1, <1>2, <1>3, OneMoves

\* The rows of a command's prior snapshot are stored, unless p itself is at it.
LEMMA PriorVerified ==
    ASSUME TypeOK, ReportInv, ~disturbed, NEW p \in Process, proc[p].pc \notin Recording,
           ~At(p, "idle"), proc[p].prior # None
    PROVE  Verified(proc[p].prior) /\ proc[p].prior \in Parsable
<1>1. proc[p].prior \in Known
  BY DEF TypeOK
<1>2. PICK i \in DOMAIN snapshots : snapshots[i].content = proc[p].prior
  BY <1>1 DEF Known
<1>3. \A q \in Process : q # p => At(q, "idle")
  BY DEF ReportInv, Alone
<1>4. Settled(snapshots[i])
  BY <1>3, AllSettled
<1> QED
  BY <1>2, <1>4, ParsedRows, SnapshotTypes DEF Settled, Verified

\* A command that starts.
LEMMA StartKeepsReport ==
    ASSUME TypeOK, ReportInv, Next, ~disturbed', NEW p \in Process,
           (\E c \in Content : Ingest(p, c)) \/ Refresh(p)
    PROVE  ReportInv'
<1>1. \A q \in Process : At(q, "idle")
  BY Starts
<1>2. UNCHANGED snapshots
  BY Starts DEF ledger
<1>3. PICK o \in Maybe : \/ Becomes(p, Refreshing(o))
                         \/ \E c \in Parsable : Becomes(p, Ingesting(c, o))
  BY Starts
<1>4. \/ proc'[p].pc = "fetch"
      \/ proc'[p].time = IngestTime
  BY <1>3, Records, RefreshingTypes, IngestingTypes DEF Becomes, Alike
<1>5. \A q \in Process : q # p => proc'[q] = proc[q]
  BY <1>3 DEF Becomes
<1>6. At(p, "snapshot")' => Built(p)'
  BY <1>4, Records DEF At, Built
<1>7. proc[p].pc \notin Recording
  BY <1>1 DEF At, Recording
<1> QED
  BY <1>1, <1>2, <1>5, <1>6, <1>7, OneMoves

LEMMA ReadPriorKeepsReport ==
    ASSUME TypeOK, ReportInv, Next, ~disturbed', NEW p \in Process, ReadPrior(p)
    PROVE  ReportInv'
<1> DEFINE o == proc[p].prior
           n == proc[p].got
<1>1. ~At(p, "idle") /\ proc[p].pc \notin Recording /\ UNCHANGED <<snapshots>>
  BY DEF ReadPrior, At, Recording, ledger
<1>2. /\ \A q \in Process : q # p => proc'[q] = proc[q]
      /\ proc'[p].time = proc[p].time /\ proc'[p].prior = o /\ proc'[p].got = n
      /\ o # None /\ o # n /\ Verified(o) /\ raws[o] # <<>> =>
            proc'[p].alerts = ChangeAlerts(o, n, raws[o], Parsed[n])
  BY ReadPriorMoves
<1>3. o # None => Verified(o) /\ raws[o] = Parsed[o]
  <2>1. o # None => Verified(o) /\ o \in Content
    BY <1>1, PriorVerified, Undisturbed, Records
  <2> QED
    BY <2>1, Undisturbed DEF ReportInv, Unharmed, Verified
<1>4. \A q \in Process : q # p => At(q, "idle")
  BY <1>1, Undisturbed DEF ReportInv, Alone
<1>5. Built(p)'
  BY <1>2, <1>3 DEF Built, Verified
<1> QED
  BY <1>1, <1>2, <1>4, <1>5, OneMoves

LEMMA InsertSnapshotKeepsReport ==
    ASSUME TypeOK, ReportInv, Next, ~disturbed', NEW p \in Process, InsertSnapshot(p)
    PROVE  ReportInv'
<1> DEFINE c == proc[p].got
           s == [content |-> proc[p].got, time |-> proc[p].time, etag |-> proc[p].etag,
                 supersedes |-> proc[p].prior]
<1>1. At(p, "snapshot") /\ ~At(p, "idle") /\ proc[p].pc \notin Recording /\ c \in Parsable
  BY DEF InsertSnapshot, At, Recording, TypeOK, Recordable
<1>2. UNCHANGED <<revisions, rowsets, alerts, matters>>
  BY DEF InsertSnapshot
<1>3. "rows" \in Step /\ "revision" \in Step /\ "rows" \in Recording
  BY DEF Step, Recording
<1>4. CASE c \in Known
  <2>1. UNCHANGED snapshots /\ Moves(p, "rows")
    BY <1>3, <1>4, GotoMoves DEF InsertSnapshot
  <2> QED
    BY <1>1, <1>3, <2>1, GoesOn DEF Recording
<1>5. CASE c \notin Known
  <2> DEFINE step == IF proc[p].prior = None THEN "rows" ELSE "revision"
             N == Len(snapshots)
  <2>1. Moves(p, step) /\ snapshots' = Append(snapshots, s)
    <3>1. Goto(p, step) /\ snapshots' = Append(snapshots, s) /\ step \in Step
      BY <1>3, <1>5 DEF InsertSnapshot
    <3> HIDE DEF step
    <3> QED
      BY <3>1, GotoMoves
  <2>2. s \in Snapshot /\ s.content = c /\ s.time = proc[p].time /\ s.supersedes = proc[p].prior
    BY <1>1, Records, RunTypes DEF Snapshot
  <2>3. proc[p].prior # c
    BY <1>1, <1>5, Records, NoneAssumption DEF TypeOK
  <2>4. Built(p)
    BY <1>1, Undisturbed DEF ReportInv
  <2>5. /\ proc'[p].pc \in {"rows", "revision"}
        /\ proc[p].prior # None => proc'[p].pc = "revision"
    BY <2>1 DEF Moves
  <2> HIDE DEF s, step, N
  <2>6. /\ DOMAIN snapshots' = (DOMAIN snapshots) \cup {N + 1}
        /\ snapshots'[N + 1] = s
        /\ \A i \in DOMAIN snapshots : snapshots'[i] = snapshots[i]
    BY <2>1, <2>2, Appended DEF N
  <2>7. Alone' /\ Unharmed' /\ \A q \in Process : ~At(q, "snapshot")'
    <3>1. \A q \in Process : q # p => At(q, "idle") /\ proc'[q] = proc[q]
      BY <1>1, <2>1, Undisturbed DEF ReportInv, Alone, Moves
    <3> QED
      BY <2>5, <3>1, Undisturbed DEF Alone, At
  <2>8. proc'[p].pc \in Recording /\ New(p, s)'
    <3>1. Built(p)'
      BY <2>1, <2>4 DEF Built, Moves
    <3>2. proc'[p].time = proc[p].time /\ proc'[p].prior = proc[p].prior /\ proc'[p].got = c
      BY <2>1 DEF Moves
    <3>3. UNCHANGED s
      BY <2>1, <3>2 DEF s, Moves
    <3> QED
      BY <2>2, <2>3, <2>5, <3>1, <3>2, <3>3 DEF New, Recording
  <2>9. ASSUME NEW i \in DOMAIN snapshots PROVE Settled(snapshots[i]) /\ Done(snapshots[i])'
    <3>1. \A q \in Process : q # p => At(q, "idle")
      BY <1>1, Undisturbed DEF ReportInv, Alone
    <3>2. PICK x : x = snapshots[i]
      OBVIOUS
    <3>3. Settled(x)
      BY <1>1, <3>1, <3>2, AllSettled, Undisturbed
    <3>4. Done(x)'
      BY <3>3, DoneStays DEF Settled
    <3> QED
      BY <2>6, <3>2, <3>3, <3>4
  <2>10. ASSUME NEW i \in DOMAIN snapshots' PROVE Accounted(snapshots[i])'
    <3>1. CASE i \in DOMAIN snapshots
      BY <1>2, <2>6, <2>9, <3>1 DEF Accounted, Settled
    <3>2. CASE i = N + 1
      <4>1. UNCHANGED s
        BY <2>1 DEF s, Moves
      <4> QED
        BY <2>6, <2>8, <3>2, <4>1 DEF Accounted
    <3> QED
      BY <2>6, <3>1, <3>2
  <2> QED
    BY <2>7, <2>10 DEF ReportInv
<1> QED
  BY <1>4, <1>5

\* The steps before a command records.
LEMMA FetchKeepsReport ==
    ASSUME TypeOK, ReportInv, Next, ~disturbed', NEW p \in Process,
           Fetch(p) \/ Observe(p) \/ Unchanged(p)
    PROVE  ReportInv'
<1>1. ~At(p, "idle") /\ proc[p].pc \notin Recording /\ UNCHANGED snapshots
  BY DEF Fetch, Observe, Unchanged, At, Recording, ledger
<1>2. CASE Exit(p)
  BY <1>1, <1>2, ExitMoves, Ends
<1>3. CASE Fetch(p) /\ ~Exit(p)
  <2>1. proc'[p].pc = "observe" /\ \A q \in Process : q # p => proc'[q] = proc[q]
    BY <1>3, FetchMoves
  <2>2. \A q \in Process : q # p => At(q, "idle")
    BY <1>1, Undisturbed DEF ReportInv, Alone
  <2>3. ~At(p, "snapshot")'
    BY <2>1 DEF At
  <2> QED
    BY <1>1, <2>1, <2>2, <2>3, OneMoves
<1>4. CASE (Observe(p) \/ Unchanged(p)) /\ ~Exit(p)
  <2>1. \E step \in {"unchanged", "prior"} : Goto(p, step)
    BY <1>4 DEF Observe, Unchanged
  <2>2. PICK step \in {"unchanged", "prior"} : Goto(p, step)
    BY <2>1
  <2>3. step \in Step /\ step # "snapshot" /\ step # "matters"
    BY <2>2 DEF Step
  <2>4. Moves(p, step)
    BY <2>2, <2>3, GotoMoves
  <2> QED
    BY <1>1, <2>3, <2>4, GoesOn DEF Recording
<1> QED
  BY <1>2, <1>3, <1>4

LEMMA InsertRevisionKeepsReport ==
    ASSUME TypeOK, ReportInv, Next, ~disturbed', NEW p \in Process, InsertRevision(p)
    PROVE  ReportInv'
<1>1. /\ proc[p].pc = "revision" /\ ~At(p, "idle") /\ UNCHANGED snapshots
      /\ proc[p].got \in revisions' /\ Goto(p, "rows")
  BY DEF InsertRevision, At
<1>2. "rows" \in Step /\ "rows" \in Recording
  BY DEF Step, Recording
<1>3. Moves(p, "rows")
  BY <1>1, <1>2, GotoMoves
<1> QED
  BY <1>1, <1>2, <1>3, GoesOn

LEMMA InsertRowsKeepsReport ==
    ASSUME TypeOK, ReportInv, Next, ~disturbed', NEW p \in Process, InsertRows(p)
    PROVE  ReportInv'
<1> DEFINE c == proc[p].got
<1>1. proc[p].pc = "rows" /\ ~At(p, "idle") /\ UNCHANGED snapshots /\ c \in Parsable
  BY DEF InsertRows, At, TypeOK, Recordable, Recording
<1>2. rowsets[c] \in {NoRows, Parsed[c]}
  BY <1>1, Records, Undisturbed DEF ReportInv, Unharmed
<1>3. rowsets'[c] = Parsed[c] /\ Goto(p, "coverage")
  BY <1>1, <1>2, Records DEF InsertRows, TypeOK
<1>4. "coverage" \in Step /\ "coverage" \in Recording
  BY DEF Step, Recording
<1>5. Moves(p, "coverage")
  BY <1>3, <1>4, GotoMoves
<1> QED
  BY <1>1, <1>3, <1>4, <1>5, GoesOn

LEMMA InsertCoverageKeepsReport ==
    ASSUME TypeOK, ReportInv, Next, ~disturbed', NEW p \in Process, InsertCoverage(p)
    PROVE  ReportInv'
<1>1. /\ proc[p].pc = "coverage" /\ ~At(p, "idle") /\ UNCHANGED snapshots
      /\ Goto(p, "diff")
  BY DEF InsertCoverage, At
<1>2. "diff" \in Step /\ "diff" \in Recording
  BY DEF Step, Recording
<1>3. Moves(p, "diff")
  BY <1>1, <1>2, GotoMoves
<1> QED
  BY <1>1, <1>2, <1>3, GoesOn

LEMMA InsertDiffKeepsReport ==
    ASSUME TypeOK, ReportInv, Next, ~disturbed', NEW p \in Process, InsertDiff(p)
    PROVE  ReportInv'
<1> DEFINE o == proc[p].prior
<1>1. proc[p].pc = "diff" /\ ~At(p, "idle") /\ UNCHANGED snapshots
  BY DEF InsertDiff, At
<1>2. o # None /\ rowsets[o] # NoRows => Verified(o)
  <2>1. o # None => o \in Content
    BY RunTypes DEF Maybe
  <2> QED
    BY <2>1, Undisturbed DEF ReportInv, Unharmed, Verified
<1>3. AfterDiff(p)
  BY <1>2 DEF InsertDiff
<1>4. CASE Goto(p, "alerts")
  <2>1. "alerts" \in Step /\ "alerts" \in Recording
    BY DEF Step, Recording
  <2>2. Moves(p, "alerts")
    BY <1>4, <2>1, GotoMoves
  <2> QED
    BY <1>1, <2>1, <2>2, GoesOn
<1>5. CASE proc[p].time = IngestTime /\ Exit(p)
  <2>1. Becomes(p, Idle)
    BY <1>5, ExitMoves
  <2>2. ASSUME NEW s \in Snapshot, New(p, s) PROVE Settled(s)
    BY <1>1, <1>5, <2>2, Records DEF New, Settled, Done
  <2> QED
    BY <1>1, <2>1, <2>2, Ends
<1> QED
  BY <1>3, <1>4, <1>5 DEF AfterDiff

LEMMA AlertsKeepReport ==
    ASSUME TypeOK, ReportInv, Next, ~disturbed', NEW p \in Process,
           InsertAlert(p) \/ AlertsDone(p) \/ EnsureMatter(p)
    PROVE  ReportInv'
<1>1. ~At(p, "idle") /\ UNCHANGED snapshots /\ proc[p].pc \in {"alerts", "matters"}
  BY DEF InsertAlert, AlertsDone, EnsureMatter, At, ledger
<1>2. "alerts" \in Step /\ "matters" \in Step /\ "alerts" \in Recording /\ "matters" \in Recording
  BY DEF Step, Recording
<1>3. CASE AlertsDone(p)
  <2>1. Moves(p, "matters")
    BY <1>2, <1>3, GotoMoves DEF AlertsDone
  <2>2. proc[p].alerts \subseteq alerts'
    BY <1>3 DEF AlertsDone, ledger
  <2> QED
    BY <1>1, <1>2, <2>1, <2>2, GoesOn
<1>4. CASE InsertAlert(p) \/ EnsureMatter(p)
  <2> DEFINE step == proc[p].pc
  <2>1. UNCHANGED proc
    BY <1>4 DEF InsertAlert, EnsureMatter
  <2>2. Moves(p, step)
    BY <2>1 DEF Moves, TypeOK
  <2>3. step \in Step /\ step \in Recording /\ step # "snapshot"
    BY <1>1, <1>2
  <2> QED
    BY <1>1, <2>2, <2>3, GoesOn
<1> QED
  BY <1>3, <1>4

LEMMA FinishKeepsReport ==
    ASSUME TypeOK, ReportInv, Next, ~disturbed', NEW p \in Process, Finish(p)
    PROVE  ReportInv'
<1> DEFINE o == proc[p].prior
           n == proc[p].got
<1>1. /\ proc[p].pc = "matters" /\ ~At(p, "idle") /\ UNCHANGED snapshots
      /\ Exit(p) /\ Affected(p) \subseteq matters
  BY DEF Finish, At, ledger
<1>2. n \in Parsable /\ (o # None => o \in Parsable)
  BY <1>1 DEF TypeOK, Recordable, Recording
<1>3. ASSUME NEW s \in Snapshot, New(p, s) PROVE Settled(s)
  <2>1. s.content = n /\ s.supersedes = o /\ s.time = proc[p].time /\ rowsets[n] = Parsed[n]
    BY <1>1, <1>3 DEF New
  <2>2. o # None => n \in revisions
    BY <1>1, <1>3 DEF New
  <2>3. ASSUME proc[p].time = RefreshTime, o # None, Parsed[o] # <<>>
        PROVE  Reported(o, n)
    <3>1. proc[p].alerts = ChangeAlerts(o, n, Parsed[o], Parsed[n]) /\ proc[p].alerts \subseteq alerts
      BY <1>1, <1>3, <2>3 DEF New, Built
    <3>2. \A a \in proc[p].alerts : a.key \in matters
      BY <1>1 DEF Affected
    <3> QED
      BY <1>2, <2>3, <3>1, <3>2, AllStored
  <2> QED
    BY <2>1, <2>2, <2>3 DEF Settled, Done
<1>4. Becomes(p, Idle)
  BY <1>1, ExitMoves
<1> QED
  BY <1>1, <1>3, <1>4, Ends

LEMMA StepKeepsReport ==
    ASSUME TypeOK, ReportInv, Next
    PROVE  ReportInv'
<1> SUFFICES ASSUME ~disturbed' PROVE ReportInv'
  BY DEF ReportInv
<1>1. \A p \in Process : (\E c \in Content : Ingest(p, c)) \/ Refresh(p) => ReportInv'
  BY StartKeepsReport
<1>2. \A p \in Process : RefreshStep(p) => ReportInv'
  BY FetchKeepsReport, ReadPriorKeepsReport, AlertsKeepReport, FinishKeepsReport DEF RefreshStep
<1>3. \A p \in Process : RecordStep(p) => ReportInv'
  BY InsertSnapshotKeepsReport, InsertRevisionKeepsReport, InsertRowsKeepsReport,
     InsertCoverageKeepsReport, InsertDiffKeepsReport DEF RecordStep
<1>4. (\A p \in Process : ~Crash(p)) /\ (\A c \in Content : ~Damage(c) /\ ~DamageRaw(c))
  BY Undisturbed
<1> QED
  BY <1>1, <1>2, <1>3, <1>4 DEF Next

(* What happened between two snapshots is on record once no command runs:    *)
(* unless a crash, a damaged row or two commands at once got in the way, a   *)
(* refresh has stored the revision of every snapshot it stored, and an alert *)
(* and a matter for every row that came, went or changed since the snapshot  *)
(* it supersedes (record_awards, persist_change_alerts, ensure_matter).      *)
THEOREM ChangesGetReported == Spec => []ChangesAreReported
<1>1. Init => ReportInv
  <2> SUFFICES ASSUME Init PROVE ReportInv
    OBVIOUS
  <2>1. \A p \in Process : At(p, "idle")
    BY Records DEF Init, At
  <2>2. snapshots = <<>> /\ Unharmed
    BY DEF Init, Unharmed
  <2> QED
    BY <2>1, <2>2 DEF ReportInv, Alone, At
<1>2. TypeOK /\ ReportInv /\ [Next]_vars => ReportInv'
  <2>1. ASSUME ReportInv, UNCHANGED vars PROVE ReportInv'
    <3>1. UNCHANGED <<snapshots, revisions, rowsets, raws, alerts, matters, proc, disturbed>>
      BY <2>1 DEF vars, ledger, history
    <3> QED
      BY <2>1, <3>1 DEF ReportInv, Alone, Unharmed, At, Built, Accounted, Settled, Done, New,
         Reported
  <2> QED
    BY <2>1, StepKeepsReport
<1>3. TypeOK /\ ReportInv => ChangesAreReported
  <2> SUFFICES ASSUME TypeOK, ReportInv, ~disturbed, Quiet, NEW i \in DOMAIN snapshots
               PROVE  Done(snapshots[i])
    BY DEF ChangesAreReported, Done
  <2>1. \A p \in Process : proc[p].pc \notin Recording
    BY DEF Quiet, At, Recording
  <2> QED
    BY <2>1 DEF ReportInv, Accounted, Settled
<1> QED
  BY <1>1, <1>2, <1>3, TypeCorrect, PTL DEF Spec

-----------------------------------------------------------------------------
(* Diffs are exact. *)

Having(a, k) == {i \in DOMAIN a : a[i].key = k}

\* The rows of one key as value and ordinal number among the equal ones.
Numbered(a, k) == {x \in Value \X (1..Len(a)) : x[2] <= Count(a, k, x[1])}
Upto(a, i) == {j \in DOMAIN a : a[j] = a[i] /\ j <= i}
Rank(a, i) == Cardinality(Upto(a, i))

\* Equal rows have different ranks, up to their number.
LEMMA Ranks ==
    ASSUME NEW a \in Seq(Row), NEW k \in Key, NEW i \in Having(a, k)
    PROVE  /\ Rank(a, i) \in 1..Count(a, k, a[i].value)
           /\ \A j \in Having(a, k) : a[i] = a[j] /\ i < j => Rank(a, i) # Rank(a, j)
<1>1. Len(a) \in Nat /\ DOMAIN a = 1..Len(a) /\ IsFiniteSet(DOMAIN a)
  BY Occurrences
<1>2. \A j \in DOMAIN a : IsFiniteSet(Upto(a, j)) /\ Rank(a, j) \in Nat
  BY <1>1, FS_Subset, FS_CardinalityType DEF Upto, Rank
<1>3. i \in DOMAIN a /\ i \in Upto(a, i)
  BY <1>1 DEF Having, Upto
<1>4. Rank(a, i) # 0
  BY <1>2, <1>3, FS_EmptySet DEF Rank
<1>5. Rank(a, i) <= Count(a, k, a[i].value)
  <2> DEFINE I == {j \in DOMAIN a : a[j] = [key |-> k, value |-> a[i].value]}
  <2>1. a[i] \in Row /\ a[i].key = k
    BY <1>3 DEF Having
  <2>2. a[i] = [key |-> k, value |-> a[i].value]
    BY <2>1 DEF Row
  <2>3. Upto(a, i) \in SUBSET I
    BY <2>2 DEF Upto
  <2>4. IsFiniteSet(I) /\ Count(a, k, a[i].value) = Cardinality(I)
    BY <1>1, FS_Subset DEF Count
  <2> HIDE DEF I
  <2> QED
    BY <2>3, <2>4, FS_Subset DEF Rank
<1>6. ASSUME NEW j \in Having(a, k), a[i] = a[j], i < j
      PROVE  Rank(a, i) # Rank(a, j)
  <2>1. j \in DOMAIN a /\ i \in 1..Len(a) /\ j \in 1..Len(a)
    BY <1>1, <1>3 DEF Having
  <2>2. Upto(a, i) \in SUBSET Upto(a, j)
    BY <1>1, <1>6, <2>1 DEF Upto
  <2>3. j \in Upto(a, j) /\ j \notin Upto(a, i)
    BY <1>6, <2>1 DEF Upto
  <2> QED
    BY <1>2, <2>1, <2>2, <2>3, FS_Subset DEF Rank
<1>7. Count(a, k, a[i].value) \in Nat
  BY Occurrences
<1> QED
  BY <1>2, <1>3, <1>4, <1>5, <1>6, <1>7

\* Numbering the rows of a key loses none and invents none.
LEMMA NumberedIsExact ==
    ASSUME NEW a \in Seq(Row), NEW k \in Key
    PROVE  /\ IsFiniteSet(Having(a, k)) /\ IsFiniteSet(Numbered(a, k))
           /\ Cardinality(Numbered(a, k)) = Cardinality(Having(a, k))
           /\ Cardinality(Having(a, k)) \in Nat
<1> DEFINE H == Having(a, k)
           N == Numbered(a, k)
           f == [i \in H |-> <<a[i].value, Rank(a, i)>>]
<1>1. Len(a) \in Nat /\ DOMAIN a = 1..Len(a) /\ IsFiniteSet(DOMAIN a)
  BY Occurrences
<1>2. \A v : Count(a, k, v) \in Nat /\ Count(a, k, v) <= Len(a)
  BY Occurrences
<1>3. H \subseteq 1..Len(a) /\ IsFiniteSet(H)
  BY <1>1, FS_Subset DEF Having
<1>4. \A i \in H : a[i] \in Row /\ a[i].key = k /\ a[i].value \in Value
                   /\ a[i] = [key |-> k, value |-> a[i].value]
  <2>1. \A i \in H : a[i] \in Row /\ a[i].key = k
    BY <1>1 DEF Having
  <2> QED
    BY <2>1 DEF Row
<1>5. \A i \in H : Rank(a, i) \in 1..Count(a, k, a[i].value)
  BY Ranks
<1>6. ASSUME NEW i \in H, NEW j \in H, a[i] = a[j], Rank(a, i) = Rank(a, j)
      PROVE  i = j
  <2>1. i \in Nat /\ j \in Nat
    BY <1>1, <1>3
  <2>2. ~(i < j) /\ ~(j < i)
    BY <1>6, Ranks
  <2> QED
    BY <2>1, <2>2
<1>7. f \in [H -> N]
  <2> SUFFICES ASSUME NEW i \in H PROVE <<a[i].value, Rank(a, i)>> \in N
    OBVIOUS
  <2> DEFINE x == <<a[i].value, Rank(a, i)>>
  <2>1. x[1] = a[i].value /\ x[2] = Rank(a, i)
    OBVIOUS
  <2>2. a[i].value \in Value /\ Rank(a, i) \in 1..Len(a) /\ Rank(a, i) <= Count(a, k, a[i].value)
    <3>1. Count(a, k, a[i].value) \in Nat /\ Count(a, k, a[i].value) <= Len(a)
      BY <1>2
    <3>2. Rank(a, i) \in 1..Count(a, k, a[i].value) /\ a[i].value \in Value
      BY <1>4, <1>5
    <3> QED
      BY <1>1, <3>1, <3>2
  <2>3. x \in Value \X (1..Len(a))
    BY <2>2
  <2> HIDE DEF x
  <2>4. x \in N
    BY <2>1, <2>2, <2>3 DEF Numbered
  <2> QED
    BY <2>4 DEF x
<1>8. ASSUME NEW i \in H, NEW j \in H, f[i] = f[j] PROVE i = j
  <2>1. a[i].value = a[j].value /\ Rank(a, i) = Rank(a, j)
    BY <1>8
  <2>2. a[i] = a[j]
    BY <1>4, <2>1
  <2> QED
    BY <1>6, <2>1, <2>2
<1>9. ASSUME NEW x \in N PROVE \E i \in H : f[i] = x
  <2> DEFINE v == x[1]
             c == Count(a, k, v)
             R == {j \in DOMAIN a : a[j] = [key |-> k, value |-> v]}
             g == [j \in R |-> Rank(a, j)]
  <2>1. x \in Value \X (1..Len(a)) /\ x[2] <= c
    BY DEF Numbered
  <2>2. v \in Value /\ x[2] \in 1..Len(a) /\ x = <<v, x[2]>>
    BY <2>1
  <2>3. c \in Nat /\ x[2] \in 1..c
    BY <1>1, <1>2, <2>1, <2>2
  <2>4. c = Cardinality(R) /\ IsFiniteSet(R)
    BY <1>1, FS_Subset DEF Count
  <2>5. \A j \in R : j \in H /\ a[j].value = v
    BY DEF Having
  <2>6. \A j \in R : Rank(a, j) \in 1..c
    BY <1>5, <2>5
  <2>7. \A i, j \in R : Rank(a, i) = Rank(a, j) => i = j
    BY <1>6, <2>5
  <2> HIDE DEF c, v
  <2>8. g \in Injection(R, 1..c)
    <3>1. g \in [R -> 1..c] /\ \A i, j \in R : g[i] = g[j] => i = j
      BY <2>6, <2>7
    <3> HIDE DEF g, R
    <3> QED
      BY <3>1 DEF Injection, IsInjective
  <2>9. IsFiniteSet(1..c) /\ Cardinality(1..c) = c
    BY <2>3, FS_Interval
  <2>10. g \in Surjection(R, 1..c)
    <3> HIDE DEF g, R
    <3> QED
      BY <2>4, <2>8, <2>9, FS_Injection
  <2>11. PICK j \in R : g[j] = x[2]
    <3> HIDE DEF g, R
    <3> QED
      BY <2>3, <2>10 DEF Surjection
  <2>12. Rank(a, j) = x[2] /\ j \in H /\ a[j].value = v
    BY <2>5, <2>11
  <2> HIDE DEF g, R
  <2>13. f[j] = <<v, x[2]>>
    BY <2>12
  <2> QED
    BY <2>2, <2>12, <2>13
<1>10. f \in Bijection(H, N)
  <2> HIDE DEF f, H, N
  <2> QED
    BY <1>7, <1>8, <1>9 DEF Bijection, Injection, IsInjective, Surjection
<1>11. ExistsBijection(H, N)
  BY <1>10 DEF ExistsBijection
<1>12. IsFiniteSet(N) /\ Cardinality(N) = Cardinality(H)
  <2> HIDE DEF H, N
  <2> QED
    BY <1>3, <1>11, FS_Bijection
<1> QED
  BY <1>3, <1>12, FS_CardinalityType

\* What one side has and the other lacks.
LEMMA SurplusIsDifference ==
    ASSUME NEW a \in Seq(Row), NEW b \in Seq(Row), NEW k \in Key
    PROVE  Surplus(a, b, k) = Numbered(a, k) \ Numbered(b, k)
<1>1. ASSUME NEW x \in Value \X (1..Len(a))
      PROVE  Count(b, k, x[1]) < x[2] <=> x \notin Numbered(b, k)
  <2>1. x[2] \in 1..Len(a) /\ Len(a) \in Nat /\ Len(b) \in Nat /\ x[1] \in Value
        /\ x = <<x[1], x[2]>>
    BY Occurrences
  <2>2. Count(b, k, x[1]) \in Nat /\ Count(b, k, x[1]) <= Len(b)
    BY Occurrences
  <2>3. x[2] <= Count(b, k, x[1]) => x \in Value \X (1..Len(b))
    <3>1. x[2] <= Count(b, k, x[1]) => x[2] \in 1..Len(b)
      BY <2>1, <2>2
    <3> QED
      BY <2>1, <3>1
  <2>4. Count(b, k, x[1]) < x[2] <=> ~(x[2] <= Count(b, k, x[1]))
    BY <2>1, <2>2
  <2> QED
    BY <2>3, <2>4 DEF Numbered
<1> QED
  BY <1>1 DEF Surplus, Numbered

\* The rows of two snapshots balance.
LEMMA SurplusBalances ==
    ASSUME NEW a \in Seq(Row), NEW b \in Seq(Row), NEW k \in Key
    PROVE  Cardinality(Having(b, k)) + Cardinality(Surplus(a, b, k))
              = Cardinality(Having(a, k)) + Cardinality(Surplus(b, a, k))
<1> DEFINE A == Numbered(a, k)
           B == Numbered(b, k)
<1>1. IsFiniteSet(A) /\ IsFiniteSet(B)
  BY NumberedIsExact
<1>2. Cardinality(A) = Cardinality(Having(a, k)) /\ Cardinality(B) = Cardinality(Having(b, k))
      /\ Cardinality(A) \in Nat /\ Cardinality(B) \in Nat
  BY NumberedIsExact
<1>3. Surplus(a, b, k) = A \ B /\ Surplus(b, a, k) = B \ A
  BY SurplusIsDifference
<1> HIDE DEF A, B
<1>4. /\ Cardinality(A \ B) = Cardinality(A) - Cardinality(A \cap B)
      /\ Cardinality(B \ A) = Cardinality(B) - Cardinality(B \cap A)
      /\ Cardinality(A \cap B) \in Nat
  BY <1>1, FS_Difference, FS_Subset, FS_CardinalityType
<1>5. B \cap A = A \cap B
  OBVIOUS
<1>6. /\ Cardinality(Surplus(a, b, k)) = Cardinality(A) - Cardinality(A \cap B)
      /\ Cardinality(Surplus(b, a, k)) = Cardinality(B) - Cardinality(A \cap B)
  BY <1>3, <1>4, <1>5
<1> QED
  BY <1>2, <1>4, <1>6

\* Nothing is in surplus when no value occurs more often.
LEMMA NoSurplus ==
    ASSUME NEW a \in Seq(Row), NEW b \in Seq(Row), NEW k \in Key
    PROVE  Cardinality(Surplus(a, b, k)) = 0
              <=> \A v \in Value : Count(a, k, v) <= Count(b, k, v)
<1>1. Cardinality(Surplus(a, b, k)) = 0 <=> Surplus(a, b, k) = {}
  BY SurplusFinite, FS_EmptySet
<1>2. ASSUME NEW v \in Value, ~(Count(a, k, v) <= Count(b, k, v))
      PROVE  Surplus(a, b, k) # {}
  <2> DEFINE x == <<v, Count(a, k, v)>>
  <2>1. /\ Count(a, k, v) \in Nat /\ Count(a, k, v) <= Len(a) /\ Len(a) \in Nat
        /\ Count(b, k, v) \in Nat
    BY Occurrences
  <2>2. Count(a, k, v) \in 1..Len(a) /\ Count(b, k, v) < Count(a, k, v)
    BY <1>2, <2>1
  <2>3. x \in Value \X (1..Len(a)) /\ x[1] = v /\ x[2] = Count(a, k, v)
    BY <2>2
  <2> HIDE DEF x
  <2>4. x[2] <= Count(a, k, x[1])
    BY <2>1, <2>3
  <2>5. x \in Surplus(a, b, k)
    BY <2>2, <2>3, <2>4 DEF Surplus
  <2> QED
    BY <2>5
<1>3. ASSUME \A v \in Value : Count(a, k, v) <= Count(b, k, v), NEW x \in Surplus(a, b, k)
      PROVE  FALSE
  <2>1. x \in Value \X (1..Len(a)) /\ Count(b, k, x[1]) < x[2] /\ x[2] <= Count(a, k, x[1])
    BY DEF Surplus
  <2>2. x[1] \in Value /\ x[2] \in 1..Len(a) /\ Len(a) \in Nat
    BY <2>1, Occurrences
  <2>3. Count(a, k, x[1]) \in Nat /\ Count(b, k, x[1]) \in Nat
    BY Occurrences
  <2>4. Count(a, k, x[1]) <= Count(b, k, x[1])
    BY <1>3, <2>2
  <2> QED
    BY <2>1, <2>2, <2>3, <2>4
<1> QED
  BY <1>1, <1>2, <1>3

\* What DiffsAreExact asks of the diff d of two row sequences.
ExactDiff(d, a, b) ==
    \A k \in Key :
        /\ Cardinality(Having(b, k)) + d[k].removed = Cardinality(Having(a, k)) + d[k].added
        /\ d[k].removed = 0 \/ d[k].added = 0
        /\ d[k] = NoChange <=> \A v \in Value : Count(a, k, v) = Count(b, k, v)

\* record_diff, on any two sequences of rows.
LEMMA RecordDiffIsExact ==
    ASSUME NEW a \in Seq(Row), NEW b \in Seq(Row)
    PROVE  ExactDiff(RecordDiff(a, b), a, b)
<1> SUFFICES ASSUME NEW k \in Key
             PROVE  LET d == RecordDiff(a, b) IN
                    /\ Cardinality(Having(b, k)) + d[k].removed
                          = Cardinality(Having(a, k)) + d[k].added
                    /\ d[k].removed = 0 \/ d[k].added = 0
                    /\ d[k] = NoChange <=> \A v \in Value : Count(a, k, v) = Count(b, k, v)
  BY DEF ExactDiff
<1> DEFINE r == Cardinality(Surplus(a, b, k))
           s == Cardinality(Surplus(b, a, k))
           d == RecordDiff(a, b)[k]
           A == Cardinality(Having(a, k))
           B == Cardinality(Having(b, k))
<1>1. r \in Nat /\ s \in Nat /\ A \in Nat /\ B \in Nat
  BY SurplusFinite, NumberedIsExact
<1>2. B + r = A + s
  BY SurplusBalances
<1>3. d = [changed |-> Min2(r, s), removed |-> r - Min2(r, s), added |-> s - Min2(r, s)]
  BY DEF RecordDiff
<1>4. r = 0 /\ s = 0 <=> \A v \in Value : Count(a, k, v) = Count(b, k, v)
  <2>1. r = 0 <=> \A v \in Value : Count(a, k, v) <= Count(b, k, v)
    BY NoSurplus
  <2>2. s = 0 <=> \A v \in Value : Count(b, k, v) <= Count(a, k, v)
    BY NoSurplus
  <2>3. \A v : Count(a, k, v) \in Nat /\ Count(b, k, v) \in Nat
    BY Occurrences
  <2>4. \A v : Count(a, k, v) = Count(b, k, v)
                  <=> Count(a, k, v) <= Count(b, k, v) /\ Count(b, k, v) <= Count(a, k, v)
    BY <2>3
  <2> HIDE DEF r, s
  <2> QED
    BY <2>1, <2>2, <2>4
<1> HIDE DEF r, s, A, B, d
<1>5. d.changed = Min2(r, s) /\ d.removed = r - Min2(r, s) /\ d.added = s - Min2(r, s)
  BY <1>3
<1>6. Min2(r, s) \in Nat /\ (Min2(r, s) = r \/ Min2(r, s) = s)
      /\ Min2(r, s) <= r /\ Min2(r, s) <= s
  BY <1>1 DEF Min2
<1>7. B + d.removed = A + d.added /\ (d.removed = 0 \/ d.added = 0)
  <2> DEFINE m == Min2(r, s)
  <2>1. m \in Nat /\ (m = r \/ m = s) /\ m <= r /\ m <= s
    BY <1>6
  <2>2. d.removed = r - m /\ d.added = s - m
    BY <1>5
  <2> HIDE DEF m
  <2>3. B + (r - m) = A + (s - m)
    BY <1>1, <1>2, <2>1
  <2>4. r - m = 0 \/ s - m = 0
    BY <1>1, <2>1
  <2> QED
    BY <2>2, <2>3, <2>4
<1>8. d = NoChange <=> r = 0 /\ s = 0
  <2>1. d = NoChange <=> Min2(r, s) = 0 /\ r - Min2(r, s) = 0 /\ s - Min2(r, s) = 0
    BY <1>3 DEF NoChange
  <2> QED
    BY <1>1, <1>6, <2>1
<1> QED
  BY <1>4, <1>7, <1>8 DEF d, A, B

\* A stored diff is the diff of the two contents.
DiffInv ==
    \A o, n \in Content : diffs[<<o, n>>] # NoDiff =>
        /\ o \in Parsable /\ n \in Parsable
        /\ diffs[<<o, n>>] = RecordDiff(Parsed[o], Parsed[n])

LEMMA StepKeepsDiffs ==
    ASSUME TypeOK, DiffInv, Next
    PROVE  DiffInv'
<1>1. CASE UNCHANGED diffs
  BY <1>1 DEF DiffInv
<1>2. ASSUME NEW p \in Process, At(p, "diff"), proc[p].prior # None, Verified(proc[p].prior),
             diffs' = [diffs EXCEPT ![<<proc[p].prior, proc[p].got>>] =
                IF @ = NoDiff THEN RecordDiff(rowsets[proc[p].prior], Parsed[proc[p].got]) ELSE @]
      PROVE  DiffInv'
  <2> DEFINE o == proc[p].prior
             n == proc[p].got
             d == RecordDiff(Parsed[o], Parsed[n])
             x == <<o, n>>
  <2>1. o \in Content /\ n \in Content /\ o \in Parsable /\ n \in Parsable
    BY <1>2, Records DEF TypeOK, At, Recordable, Recording
  <2>2. diffs' = [diffs EXCEPT ![x] = IF @ = NoDiff THEN d ELSE @]
    BY <1>2 DEF Verified
  <2>3. x \in Content \X Content /\ diffs \in [Content \X Content -> Diffs]
    BY <2>1 DEF TypeOK
  <2>4. \A y \in Content \X Content :
           diffs'[y] = diffs[y] \/ (y = x /\ diffs'[y] = d)
    <3> HIDE DEF d, x
    <3> QED
      BY <2>2, <2>3
  <2> SUFFICES ASSUME NEW a \in Content, NEW b \in Content, diffs'[<<a, b>>] # NoDiff
               PROVE  /\ a \in Parsable /\ b \in Parsable
                      /\ diffs'[<<a, b>>] = RecordDiff(Parsed[a], Parsed[b])
    BY DEF DiffInv
  <2>5. <<a, b>> = x => a = o /\ b = n
    OBVIOUS
  <2> QED
    BY <2>1, <2>4, <2>5 DEF DiffInv
<1> QED
  BY <1>1, <1>2, DiffSteps

(* A stored record diff accounts for every row of both snapshots, as bags:   *)
(* record_diff runs over rows that snapshot_rows verified, balances the      *)
(* number of rows of every key, never reports a row as both come and gone,   *)
(* and is silent exactly on the keys whose rows are the same.                *)
THEOREM StoredDiffsAreExact == Spec => []DiffsAreExact
<1>1. Init => DiffInv
  BY DEF Init, DiffInv
<1>2. TypeOK /\ DiffInv /\ [Next]_vars => DiffInv'
  <2>1. ASSUME DiffInv, UNCHANGED vars PROVE DiffInv'
    BY <2>1 DEF vars, ledger, DiffInv
  <2> QED
    BY <2>1, StepKeepsDiffs
<1>3. TypeOK /\ DiffInv => DiffsAreExact
  <2> SUFFICES ASSUME TypeOK, DiffInv, NEW o \in Content, NEW n \in Content,
                      diffs[<<o, n>>] # NoDiff
               PROVE  ExactDiff(diffs[<<o, n>>], Parsed[o], Parsed[n])
    BY DEF DiffsAreExact, ExactDiff, Having
  <2>1. /\ o \in Parsable /\ n \in Parsable
        /\ diffs[<<o, n>>] = RecordDiff(Parsed[o], Parsed[n])
    BY DEF DiffInv
  <2> QED
    BY <2>1, ParsedRows, RecordDiffIsExact
<1> QED
  BY <1>1, <1>2, <1>3, TypeCorrect, PTL DEF Spec
=============================================================================
