# Panopticon Null in TLA+

Panopticon Null is a command line program, written in Rust, that preserves public
records of surveillance procurement, detects what changed in them, lets people
review what may be quoted, publishes a static site, and posts alerts on X. There
is no server and no thread: every operation is a short-lived command (`pnull ...`)
over one data directory. What makes it hard is that commands run side by side
(two terminals, a cron job beside an operator), that only single SQL statements
are atomic (few operations open a transaction), that a process can die between
any two of them, and that the network may answer late or not at all.

This directory holds TLA+ models of that program, the TLC runs that check them
on small instances, and proofs checked by TLAPS.

## Inventory

| Component | State it keeps | Operations | Promises |
|---|---|---|---|
| X posting (`pnull-x`) | `approvals`, `posts`, `post_segments`, `x_attempts`, `x_reconciliations`; the posts on X | `x approve`, `x post --confirm`, `x reconcile` | only approved text; no segment twice; a second thread only after an operator withdrew the first reservation |
| Citation review (`pnull-cli`, `pnull-core`) | `review_decisions` | `review approve / reject / supersede` | append-only; the current decision governs |
| Publication (`pnull-publish`) | `<output>`, `<output>.pnull-building`, `publication_allowlists` | `build-site` | no citation is quoted, and nothing told of what rests on one, before its approval; a site is one whole build |
| Change ledger (`pnull-procurement` snapshot, changealert; `pnull-cli` refresh) | `source_snapshots`, `snapshot_revisions`, `snapshot_rows`, `snapshot_row_sets`, `coverage_ledger`, `fetch_observations`, `snapshot_diffs`, `procurement_alerts`, `procurement_matters` | `procurement ingest awards`, `procurement refresh --live` | alerts are true comparisons; history is append-only; a change is reported |
| CORA ledger (`cora_ledger`, `import`) | `cora_drafts`, `cora_requests`, `supplied_records`, the files of supplied records | `cora draft / submit / response`, `gap_resolved`, `still_unresolved`, `procurement import` | append-only events; a response names a preserved record |
| Source review and live ingest (`pnull-cli`) | `source_reviews`, `source_fetches` | `source review ...`, `ingest --live` | no fetch without a current review, at most one per interval |
| HTTP (`pnull-http`) | none (returns observations) | `provenance_fetch` | reviewed hosts only, bounded redirects, conditional requests |
| Ingestion (`pnull-ingest`) | content files, `evidence`, `processing_runs`; budgets in memory | `ingest_bytes`, `paginate_events`, extraction in a sandbox | idempotent, bounded, no event lost or doubled |
| Evidence store and migrations (`pnull-core`) | `evidence` and its record files, `user_version` | `insert_evidence`, `update_evidence_annotations`, `verify`, `migrate` | row and file agree; a migration is all or nothing |
| Detection (`pnull-detect`) | none | `scan`, `classify_document`, `compare`, subjects and actions | a term alone is only a mention; diffs are exact |
| Geometry (`pnull-geometry`) | none | occurrence search, citation resolution | a quote resolves to one place or is refused |
| Procurement chain and case files | `procurement_events`, `..._identifiers`, `..._organizations`, `reconciliation_*`, `case_files`, `official_relationships` | `case build`, `procurement reconcile`, relationships | gaps are stated, never filled; links only from declared fields |

How they interact: every command opens the same `Store` (SQLite in WAL mode).
Ingest and refresh write evidence, snapshots and alerts; the review queue decides
on citations of that evidence; `build-site` reads both; `x approve` and `x post`
pass the same citation gate and then own the posting tables. Nothing calls back;
all interaction is through shared rows and two directories.

`PROJECT.json` lists the hard behaviours ("hazards") with their lines.

## Modules

* **`XPosting`** - the posting protocol for one alert (no statement joins two
  alerts). A process is a record of the step its command is at and what it holds
  in memory; each step is one SQL statement, one transaction or one HTTP request.
  `Guard`, `CheckPosted`, `InsertAttempt`, `Reserve`, `SubmitOk` / `SubmitErr`,
  `RecordSegment`, `PersistSegment`, `PersistUncertain`, `PersistComplete` and
  `MarkPosted` are `post_with_attempt` in order; `RecBegin` to `RecPersist` are
  `reconcile`, whose operator may type any id at all: nothing checks it, and
  `Mistyped` ids that X never gave out are among them. A failed submit may have been
  refused, accepted with the answer lost, or still be under way (`LateAccept`). `Crash` can end any command
  anywhere. History variables (`granted`, `grantOf`, `withdrawn`, `overlapped`)
  are never read by a guard.
* **`ThreadGrants`** - what the protocol promises, in four actions: a grant is
  opened, sends segments in order and once each, and is withdrawn or finished.
  `XPosting!ImplementsThreadGrants` maps the posts row and the accepted
  segments to it.
* **`XPostingHonest`** - the same protocol under an operator who acts only while
  no post command runs and says only what is true of X.
* **`Publication`** - the review queue and `build_site`: the gate per alert, one
  action per file written, remove, half-removed, rename. A file is the build that
  wrote it, what it says and what it lists. What it says is the citations it quotes
  and the things it tells in words of their own, which are no citations: the summary
  and the changed lines of an alert (its page, its diff, the index, the feed), the
  body of a matter's page, subjects and actions, procurement notices. Each has
  `Grounds`, the citations its gate asks for. A matter whose text the privacy
  backstop refuses (`Private`) has a page that says nothing.
* **`Refresh`** - the change ledger of one surface: ingest and refresh commands,
  the fetch with its 304 path, and `record_snapshot` statement by statement.
  `RecordDiff` and `ChangeAlerts` are the two (different) comparisons the code
  makes. The columns of a row that its digests cover (`rowsets`) and `raw_json`
  (`raws`), which none does and which alerts are built from, are damaged apart:
  `Verified` sees the former only, and `tampered` remembers the latter.
* **`CoraLedger`** - the requests of one matter and the records imported in
  answer. A transition is `Read` (the row, and the refusal of the state it is
  already in) and `Write` (the whole list back, plus one event), because nothing
  joins the two; `ImportCheck` to `ImportRow` are the import with `fs::write`
  opened and filled apart. `IngestCreate` and `CaptureCreate` are the two other
  commands that write the same files, the former only where none exists, the latter
  over what is there. `settled` remembers the events acknowledged while no one else
  was about to write, `spoiled` the contents a writer of which was disturbed.
* **`Migration`** - `Store::open` and the schema steps. The version is read before
  the transaction, so `ReadVersion` and `Migrate` are two actions and two commands
  may both have decided to migrate.
* **`Ingestion`** (extends `Migration`: every command opens the store first) -
  `ingest_bytes` from the content file (`PersistCreate`, `PersistFill`,
  `PersistVerify`) over extraction (`ExtractText`, `ExtractOcr`, `ExtractFails`) to
  record file, row, text maps and run, and `pnull scan`, whose `AnnotateFile` and
  `AnnotateRow` are the two halves of `update_evidence_annotations`. An extracted
  text is the set of pages it came from, so a text of another document shows. The
  sandbox directory belongs to the command and keeps the page images of the
  documents before. The word rows that `parse_tsv` keeps are those of page 1 in
  every image's file (see the finding about pages 2 and up). No CLI command
  enables OCR; it is a field of the library's request, and an input here. That an
  import or a capture may write a content file too is left to `CoraLedger`.
* **`LiveIngest`** - `source review record` and `capture`, and a live ingest: `Start`
  is the gate and the interval, `Request` / `Redirected` / `NotModified` /
  `RequestFails` / `Body` are `provenance_fetch` and `fetch_source`, `Parse` is one
  turn of the loop of `paginate_events`, `Record`, `InsertMatter` and
  `InsertAttachment` the rows at the end. The operator edits the source list, the
  feed changes and time passes between any two steps. A review's expiry is what was
  typed: a text, which the code compares with the clock's, and the instant it names,
  which nobody looks at; with an offset the two differ.
* **`Detect`** - `pnull-detect` as operators over lines that are sets of phrases
  (those they contain, deny, and bind to a vendor), and the actions that apply them
  to stored versions: `ScanAll` (`InsertFinding` and `InsertAlert`, one statement
  each), `Supersede`, `PrintDiff`, `BindMatter`; `boundOf` remembers the version whose
  subjects and actions are bound to the matter.
* **`CitationGeometry`** - text maps, joined words, occurrences, citations and the
  rectangles of the reviewer image, in whole units. A page is read by pdftotext, whose
  rows are stored as they come (`PlainRect`), or by Tesseract, whose rows are turned
  over (`FlippedRect`); the image turns them over once more. The loops of `find_occurrences`
  are `Joined` and `Occurrences`. What they should do is defined apart from them:
  `WholeWords` are the stretches of a page that line breaks connect, `Spelled` what
  one spells, `Readings` the ways to read a quote as consecutive whole words.
* **`CaseFiles`** - preserved pages to matters, events, identifiers, organizations,
  chain links, official relationships and case files. A command is the list of
  INSERT OR IGNORE statements it makes (`IngestWrites`, `DemoWrites`, ...), taken
  one at a time; it may stop between any two and be run again. The search for
  references works on the identifiers it indexed first (`ReadIndex`).
* **`XPosting_proofs`, `CoraLedger_proofs`, `Ingestion_proofs`, `Publication_proofs`,
  `Refresh_proofs`, `LiveIngest_proofs`, `CaseFiles_proofs`, `Citations_proofs`** -
  theorems about these, each about the module it is named after (`Ingestion_proofs`
  about `Migration` too), `Citations_proofs` about `Detect` and `CitationGeometry`.
* **`MC...`** - small instances for TLC.

`Ingestion` composes with `Migration` by extension, `XPosting` with `ThreadGrants`
by refinement. The other modules meet in the store and are kept apart because no
statement of one reads what another writes, except through a set the reader takes
as an input: `Publication` takes any citations and evidence, `Refresh` and
`CaseFiles` any pages, `Detect` any text.

Operators named after a mistake (`ReserveReplacing`, `RecordDiffBySet`, ...) are
no part of any next-state relation. Each is what a plausible bug would make of
the operator it stands beside; put in its place it must break the property
`PROJECT.json` names, which shows that the property depends on the code.

## What the runs show

| Run | Instance | Result |
|---|---|---|
| `x_posting` | 2 posters, 1 operator, 2 drafts, 2 segments, 2 attempts, 2 reconciliations, 1 mistyped id; 2.2 million states | all hold |
| `x_repost` | 2 posters, 1 honest operator, 1 segment, 3 attempts, 1 reconciliation | `RepostOnlyAfterReconciling` fails |
| `publication` | 2 builders, 2 alerts, one with a diff, 3 citations, 1 evidence, 2 matters, one private, 2 statements, with and without a citation, 1 notice, 2 decisions, 2 builds; 5.3 million states | all hold |
| `refresh` | 2 processes, 4 page contents (changed row, doubled row, empty table, no table), 3 commands, 1 damaged row; 2.3 million states | all hold |
| `cora_ledger` | 3 processes, 1 gap set, 1 record, 4 events; 1.7 million states | all hold |
| `ingestion` | 2 commands, databases of versions 0, 2 and 5 (newer than the program), a long and a short scan and a PDF with text, 2 taxonomies; 2.1 million states | all hold |
| `live_ingest` | 2 commands, 2 hosts, 2 settings that differ in the interval, 4 events, 2 reviews, 2 expiries (one passes, one sorts late), 1 edit, 3 instants; 1.5 million states | all hold |
| `live_ingest_ends` | 1 command, the program's 5 redirects, under `FairSpec` | `CommandsEnd` holds |
| `detect` | every two versions of up to 3 lines out of 8, one source type; 0.6 million states | all hold |
| `detect_vendor` | the same | `VendorActionsAreExplicit` fails |
| `citation_geometry` | every page of 4 words out of 5 read by pdftotext, every one of 3 read by Tesseract, a larger and a smaller page, quotes of 0 to 2 words | all hold |
| `case_files` | 2 workers, 3 captures, 3 commands; 0.6 million states | all hold |

What they ask:

* Posting - who may have sent what, and when a second thread can begin; and that an id
  in the store that X never gave out is on record as typed by an operator
  (`RecordedIsAccountedFor`).
* Publication - what may be quoted and told (`OnlyApprovedQuoted`), when the site is one
  build, and when it is what the last decisions grant (`SettledSiteIsExact`: only as long
  as the hashed ids of the decisions on a citation sort as they were made). What an alert
  says in words of its own has no review of its own; the property says that it is told
  only with every citation of the alert approved, and the finding that this is less than
  the documentation promises.
* Refresh - whether alerts and diffs are true, and nothing undisturbed unreported. Against
  damage of the columns under a digest the code defends itself; where `raw_json` was
  damaged, `AlertsAreTrue` claims of an alert only what it says of the new page.
* CORA - what overlapping read-modify-writes keep, and what a stored file can be while
  three commands write it.
* Ingestion - nobody works on an unmigrated database (`OpenMeansMigrated`); stored
  evidence verifies after any crash (`StoredIsWhole`); file and row of a record agree
  unless two commands met there or one stopped between them (`RecordFileMatchesRow`
  says exactly when, which is as much as the code gives); no document gets the text
  of another through the shared directory (`TextIsItsDocuments`).
* Live ingest - no request leaves the reviewed hosts, over redirects and however
  settings and reviews change underneath (`FetchesAreReviewed`), nor begins after the
  review's end if the end was typed so that its text sorts no later; the interval holds
  unless two commands passed the gate together (`PacedUnlessRaced`); over a steady
  feed the pages add up to it, no event lost or doubled (`RunReturnsTheFeed`).
* Detection - each rule found cites a line that really shows it, a state rests on
  an undenied line near a term, comparisons do not come from lines no rule speaks of,
  and the alert and the matter never tell opposite outcomes (`ReadingsAgree`). That an
  outcome belongs to the matter rather than to another item of the text is not so in
  the code, and is a finding.
* Geometry - the search finds a quote as often as a reader would, hyphens included, and
  the highlight covers one reading of it on a page that Tesseract read, and exactly the
  mirror images of its words on one that pdftotext read (a finding: every page the CLI
  reads). Words broken over two lines and pages of another size than the default are
  left out (findings, too).
* Case files - events cite a capture that has their row, links run from the earlier
  stage's event, an ingest that ended well has left every row reachable however
  earlier ones were cut, relationships resolve, and a written file stays true.

The two violations are findings: the documentation or a comment says one thing and
the code does another. `PROJECT.json` quotes both, and lists the disagreements
read off the code while modelling, which have no run of their own. Among these are
seven that earlier runs of this project exhibited: the order of review decisions,
the ungated feed, the gap while a site is replaced, the snapshot that becomes latest
again, the refresh that is interrupted, the overwritten CORA event and the torn
record.

Why the bounds are enough. Posting: two posters and two attempts give every
race for the one reservation and one withdrawal between two grants; two segments
give a first, a last and a torn thread; two reconciliations let one clear what
the other confirmed. Publication: two citations on one alert tell "all approved"
from "some approved", two builds give every overlap of the shared directory, two
decisions give an approval and its revocation in either hash order; a matter whose page
is withheld, an alert with a diff, and statements with a label and with nothing for a
citation take every branch of the pages. Refresh: four
contents cover changed, added, removed and doubled rows, zero rows and a page
that no longer parses; three commands give A, B, A and a retry. CORA: three processes
let a stale writer meet one that has written and one that has read since; four
events are the draft and three transitions, of which any two overlap. Requests of
different gap sets are different rows; they share only the row of the draft's text,
which no property of the run reads, so one is enough. Ingestion: two commands meet
at one record or one database in every order, and a job of two documents has a
second one to find the images of the first; the first is longer than the second
or the reverse. Images are named page-1 to page-5 at most (`MAX_OCR_PAGES`), so
their order by name is their order by number. Live ingest: three events, later four, over
pages of two give a full page, a short page and an empty one; pages of one meet
the page limit; two events share a matter and one attachment list is over its
cap; two instants more than an interval of one let a command be early, on time
and late. With `MaxRedirects` 1 one redirect is followed and the next refused; the
liveness run has all five. Detection: three lines with a context of one put
a line in the context, at its edge or outside, and let two lines contradict each
other. Geometry: four words hold overlapping occurrences, two breaks in a row and a break
at the end of the page; one of the five texts is a hyphen alone.
Case files: three commands are two captures and an overlap, or an ingest cut
short, repeated, and a case file built in between.

Symmetry is used for processes (and drafts), which no property distinguishes, and
not in the liveness run. Deadlock checking is off where a bounded set of commands
really ends (everywhere but in the CORA runs, whose commands are not counted).

Fairness. Nothing in the program schedules or repeats a command, so nothing has to
start, and all runs but one assume none. `LiveIngest!FairSpec` is weak fairness of
`Step(c)` for each command: a running process goes on to its next statement, and a
request that is never answered ends with the client's timeout, which `RequestFails`
stands for. It does not choose among the outcomes: a server may answer every request
with another redirect, and `CommandsEnd` must come from the limits in the code. The
program's `Crash` is under no fairness.

## What is proved

Each theorem holds for every value of the constants that the named `ASSUME`s
allow, so for any number of commands running side by side. `PROJECT.json` lists
them with the property they state. Almost none of the properties is inductive as
it stands; what has to be added is what a reader of the code needs to know to
believe it, and is said here.

**Posting** (`XPosting_proofs`).

* `TypeCorrect`: `Spec => []TypeOK`.
* `SendsAreOrdered`, `RepostsAreWithdrawn`, from one invariant `SafeInv`. A poster
  about to submit must be the only one with its attempt number, be at the right
  segment, and have nothing in flight. `SafeInv` says so in five parts: the types,
  which steps a poster and an operator can be at (`RoleInv`), that attempt numbers
  are given out once (`TargetInv`), how reservations are numbered (`GrantInv`: as
  many grants as withdrawals, plus one while a posts row exists), and what has been
  sent at each step (`SendInv`).
* `PostingImplementsGrants`: `Spec => ImplementsThreadGrants`: the initial state
  maps to the initial state, every step to a grant, a send, a withdrawal, a
  finish or a stutter.
* `RecordsAreAccountedFor`: every id in a table or in the memory of a command is live or
  in a reconciliation on record (`AccountInv`); an operator's own id is not until the
  decision is inserted, which comes before it is stored anywhere else.
* `TextIsApproved`: every row, stored or carried, is of the approved draft, and an
  attempt has its row before it asks for the reservation (`DraftInv`).
* `CrashLosesOne`: the command that holds the reservation has recorded every segment
  before the one it is at (`RowsInv`). That a crash may lose one is the gap between
  `RecordSegment` and the submit before it.
* `FinishedThreadsAreWhole`: the copy of a sending command names its own posts, and
  while no reconciliation overlapped, no operator is about to mark a row that a
  poster holds (`ThreadInv`).
* `HonestIsSpecial` (a lemma): the operator of `XPostingHonest` is one of those of
  `XPosting`, so all of this is true under an honest operator too.

**CORA ledger** (`CoraLedger_proofs`).

* `TypeCorrect`.
* `LedgerKeepsHistories`: the list a command has read and the event it will append
  must fit (`PendingAppend`).
* `LedgerKeepsAcknowledged`: every command about to write has read all settled events
  (`KeptInv`); a write that settles its event has no rival left to lose it.
* `LedgerCitesImports`: the event a command will append and every event it has read
  cite, if they are responses, a record already imported (`ImportInv`), and imports
  are never undone.
* `SuppliedFilesAreWhole`: while nothing disturbs them, one command at most is at a file,
  be it an import, an ingest or a capture; what it leaves is whole, and the row comes
  after (`WholeInv`).

**Ingestion and migrations** (`Ingestion_proofs`).

* `OpensAreMigrated`: a database has the tables of its mark, and a command about to
  migrate read a version whose tables are all there (`SchemaInv`); the steps above
  that version give the rest.
* `StoredVerifies`: the content is whole for every command past writing or verifying
  it, and for every record a scan has read and will write back (`ContentInv`).
* `TextsAreTheirDocuments`: the text in a command's memory is of the document it is at,
  although images of the document before may still lie in the directory (`TextInv`).
* `RecordFilesMatchRows`: for a document where no two commands met and none stopped,
  at most one command is between file and row, and then knows both (`RecordInv`).

**Publication** (`Publication_proofs`).

* `SiteQuotesApproved`: what a build will still write is of alerts that passed the
  gate; a citation in a file was approved, and whatever else the file tells had all its
  grounds approved, when the page was written (`Vetted`, `QuoteInv`).
* `SiteIsWhole`: a build that has run alone owns the temporary directory, and what it
  has written and has yet to write add up to its site (`BuildInv`). The paths of
  different files differ (`PathAssumption`).
* `SettledSitesAreExact`: a build that began when the queue had as many decisions as
  now has seen the queue as it is, as decisions are only ever added (`ExactInv`). The
  theorem is conditional, like its property: with `IdsFollowTime` the largest id is the
  last decision, and without it the code does not keep the promise.

**Change ledger** (`Refresh_proofs`).

* `LedgerIsAppendOnly`, an action property: `Spec => [][...]`, from the types alone.
* `SnapshotsFormNoCycle`: a command about to write a revision has just inserted a
  snapshot that supersedes another (`HistInv`).
* `AlertsTellTheTruth`: the alerts a command carries are true of the two contents they
  name (`TrueInv`), which rests on what `ChangeAlerts` returns for any two sequences of
  rows, and on `raws` being what was parsed wherever it was not `tampered` with.
* `StoredDiffsAreExact`: a stored diff is the diff of its two contents (`DiffInv`), and
  the counts of `RecordDiff` balance per key. That removed and added rows pair off is
  shown with bijections between occurrences of a row.
* `ChangesGetReported`: undisturbed, at most one command runs, it finds the rows of every
  snapshot, and every snapshot but its own is reported (`ReportInv`).

**Live ingest** (`LiveIngest_proofs`).

* `RequestsAreReviewed`: a command on its way was sanctioned by a review, reviews are
  never removed, and each redirect was checked before it is followed (`SanctionInv`). The
  text of the expiry had not passed; the instant had not only where `SortsInTime`.
* `FetchesArePaced`: until two commands were past the gate together there is at most one,
  and the fetch time it read is the newest one recorded (`PaceInv`).
* `IngestReturnsTheFeed`: after each page the events are the first `offset` of the feed,
  or all of it (`FeedInv`); when the loop stops, why it stopped says how many that are.
  The loop over the events of one page is the recursive function `Taken`.

**Detection** (`Citations_proofs`), from one invariant, `DetectInv`: a stored finding and
alert are those of their version, a diff compared the two versions there are, and what
is bound was extracted from a stored one. The work is in what the operators return:

* `FindingsAreCited`: the first line of evidence is found after any false positives.
* `AssertedStatesAreSupported`: one state only, from a line of the context that the alert
  cites.
* `IrrelevantLinesAreIgnored`: `Compare` sees the same phrases, in the same order, with
  and without the lines that no rule speaks of.
* `AlertsAndMattersAgree`: the phrases that make a finding approved or rejected are among
  those the matter's action is read from, so the whole text has that outcome too: it is
  the strongest, or its opposite is there as well and the matter gets none.

**Citation geometry** (`Citations_proofs`), from `GeometryInv`: a stored map is the text
map of its page, a stored citation has the rectangles of one occurrence of its quote
in the map of its page, and the image is that of such a citation.

* `SearchIsExact`: after any number of words, what `Joined` holds are the whole words so
  far, in order, with what they spell and their boxes (`JoinedTells`), so the places
  where a quote matches in the stream and its readings on the page correspond one to
  one (`StartsRead`, `ReadingsStart`, `ReadingsCount`).
* `HighlightsCover`: the start of the occurrence gives the reading; an unbroken word
  keeps its own box, and the pixels from one scaled edge to the other, clamped, contain
  those of the box (`SpanCovers`) where it ends up: in its place when the rows were
  turned over twice, upside down when once. It needs the map to be valid: `Cite` refuses
  one that is not.

**Case files** (`CaseFiles_proofs`), from `CommandInv`: what a command has yet to write
is well made and in order, the page before what cites it; what it began with is stored
or still to come (`JobsInv`); and what is stored is well made (`StoreInv`). A store that
only grows keeps the rest.

* `EventsAreCited`, `IngestsReach`, `LinksResolve`, `FilesStayTrue`.
* `ChainsRunForward` needs to know which dates can meet in one matter (`Dated`): an award
  is dated, and a solicitation is undated but for the demo's own matter, which has no
  award. Otherwise events sorted by date could put the later stage first, as they do in
  the mutant that dates solicitations.

Assumptions. Bounds are natural numbers, at least one where the code has at least one
(a segment, a page, a limit); a value that stands for "none" is no other value. Beyond
these: posters and operators are different processes; the lists a build walks hold what
they are lists of, and no two of its files share a path; a page parses to rows or to
none; a source names an event once in its feed (`FeedsAssumption`); the lines of a
text deny only phrases they contain, each rule has a term, and no rule is called
"primary" (`RulesAssumption`, `LinesAssumption`); page numbers are naturals, sizes of
pages are positive and boxes are any integers (`PagesAssumption`); award rows have a date, and the
demo's solicitation number is spelled with a dash, which no normalized identifier has
(`RowsAssumption`, `TransitAssumption`). TLC evaluates each of them in the
runs of its module.

Induction over data is not available as a rule to the provers here. Where a loop has
to be reasoned about, its function is defined by recursion on a number and the proof
takes the least number at which the claim fails (`LeastOfNat`, from the well-founded
ordering of finite sets), so `Relevant`, `Taken`, `Joined`, `Occurrences` and the
flattening of lists of statements are reasoned about for any length.

Model-checked only: `CommandsEnd`, which is liveness under fairness and out of the
provers' reach; and the two violations, which are counterexamples. Every other
property of a run is a theorem.

## Abstractions

* Time is order: two commands never start in the same instant, and the times the
  program writes sort as they pass. Times that people type need not (`LiveIngest`).
* Contents, drafts and citations are immutable and named by their hash, so the
  bound digest of an approval always matches what it is compared with.
* The allowlist seeded by the demo holds both publication categories; it is given or not
  (`allowlisted`), as a whole. Titles are not told apart from the summaries they stand
  with.
* The actions of a matter carry all labels of its finding as citations (a finding);
  `Extract` leaves these out.
* A call of the review gate is one action, although it is one query per citation.
* `remove_dir_all` is one state in which the directory is neither whole nor gone.
* The parser is a constant function of the page; the ETag of a page is fixed.
* SQLite returns rows with equal sort keys in order of insertion.
* `cora draft` reads the matter and its identifiers and stores the text in one
  action; which gap set that gives is any. The refusals of an import (size, digest,
  empty fields) change nothing and are left out. `gap_resolved` and
  `still_unresolved` are exported by the library but have no command yet.
* `ingest awards` also attaches rows to matters: `Refresh` leaves that to `CaseFiles`.
* A phrase is one atom: that `str::contains` also finds it inside longer words is a
  matter of which lines the instance has. A denial is a phrase the line has with
  one of the code's negations or conditions in front of it.
* A URL is a host and whether it is the one asked for; name resolution and the
  refusal of private addresses are among the outcomes of `RequestFails`.
* Of the budgets, downloaded bytes (in events) and attachments are counted; the
  others are limits of one external process and end the command the same way.
* Coordinates are whole numbers, so rounding and clamping are exact. That pdftotext
  counts rows from the top of the page is not said in this repository; it is how
  Poppler documents `-bbox-layout`, and the one thing taken from outside here.
* A content file is "none", "torn" or "whole": its write is the creation of the file
  and its filling, and a crash may fall between. A record file is written beside
  and renamed into place, in one action.

## Not modelled

* The parsers of award tables, solicitation lists, CSV and OpenBook pages, and the
  text of drafts, case files and web pages: data transformation without state.
* What Poppler, Tesseract, bubblewrap and prlimit do with a file; processing runs
  are rows with the artifacts they name.
* Reconciliation decisions and the coverage summary: rows inserted once by their
  hash and read back in order by nothing that acts on them. Two findings concern them.
* The case file's lines about CORA requests and similar identifiers, and the
  listings of every component: they change nothing.
* The publication allowlist is read by `Publication` and given as part of its
  initial state.

## Plan

1. Done: all modules above with their runs, and theorems that between them state every
   safety and action property that a passing run checks.
2. Left for when the program has them: commands for `gap_resolved` and
   `still_unresolved`, and callers of the reconciliation decisions that act on them.
