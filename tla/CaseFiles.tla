------------------------------- MODULE CaseFiles -------------------------------
(***************************************************************************)
(* From preserved procurement records to case files: `pnull procurement    *)
(* ingest` attaches the rows of a page to matters, the scripted demo does   *)
(* the same for its fixtures and looks for references between records, and  *)
(* `pnull case build` derives the chain of a matter and writes its file.    *)
(*                                                                         *)
(* A command is the list of the store's writes it makes, one statement      *)
(* each; all of them are INSERT OR IGNORE.  It may stop between any two, be *)
(* run again, and commands run beside each other.  A page is known by its   *)
(* digest, and so is its snapshot.                                          *)
(***************************************************************************)
EXTENDS Integers, SequencesExt

CONSTANTS
    Worker,
    Page,           \* the pages that may be ingested
    SourceOf,       \* page -> "awards" or "solicitations"
    RowsOf,         \* page -> its rows: [raw, text, date, org, refs]
    Norm,           \* spelling of an identifier -> its normalized form, or None
    None,
    Near,           \* pairs of normalized forms that differ in the last character
    Mirror, Awards, AwardsLater,  \* the pages of the demo
    Transit, Control,             \* the identifiers it builds matters for
    MaxCommands     \* bound: commands ever started

ASSUME PageAssumption ==
    /\ {Mirror, Awards, AwardsLater} \subseteq Page
    /\ SourceOf[Mirror] = "solicitations" /\ SourceOf[Awards] = "awards" /\ SourceOf[AwardsLater] = "awards"
\* An award event always stores a date, as text; a page's numbers are strings.
ASSUME RowsAssumption ==
    \A page \in Page :
        /\ RowsOf[page] \in Seq(Range(RowsOf[page]))
        /\ \A row \in Range(RowsOf[page]) :
             /\ row.raw \in DOMAIN Norm /\ row.org \in Seq(Range(row.org))
             /\ SourceOf[page] = "awards" => row.date \in Nat \ {0}
ASSUME FixtureAssumption ==
    /\ \E i \in DOMAIN RowsOf[Mirror] : RowsOf[Mirror][i].raw = Transit
    /\ \E i \in DOMAIN RowsOf[Awards] : RowsOf[Awards][i].raw = Control

\* The fixture's number has a dash, which normalize_identifier leaves out of
\* every number, and it is not the name of the other matter.
ASSUME TransitAssumption ==
    /\ Transit # "control" /\ Norm[Transit] # None
    /\ \A raw \in DOMAIN Norm : Norm[raw] # Transit

VARIABLES
    snapshots,      \* pages preserved, oldest first
    matters,
    identifiers,    \* [matter, raw]
    organizations,  \* [matter, name]
    events,         \* [matter, kind, date, summary, raws, evidence]
    links,          \* official relationships: [matter, page, refs, target, in]
    items,          \* the reconciliation queue: [matter, about]
    rows,           \* case_files: matter -> the content its stored digests are of
    files,          \* matter -> the content of the file written last
    job,            \* worker -> what it still has to do, the page it ingests, and
                    \* the identifiers it has indexed
    commands,       \* commands started (bounded)
    ingested        \* history: pages whose ingest ended well

stored == <<snapshots, matters, identifiers, organizations, events, links, items>>
vars == <<stored, rows, files, job, commands, ingested>>

Idle == [todo |-> <<>>, page |-> None, index |-> {}]

Init ==
    /\ snapshots = <<>>
    /\ matters = {} /\ identifiers = {} /\ organizations = {} /\ events = {}
    /\ links = {} /\ items = {}
    /\ rows = <<>> /\ files = <<>>
    /\ job = [w \in Worker |-> Idle]
    /\ commands = 0 /\ ingested = {}

Preserved == Range(snapshots)

(***************************************************************************)
(* The writes of a row.                                                    *)
(***************************************************************************)

\* matter_id_for_identifier.
MatterFor(key) == <<"co", key>>

NoDate == 0

\* A mistake: a solicitation is dated as its page says.
PostedDate(row) == row.date

\* insert_solicitation_event stores no date; NULL sorts before any text.
SolicitationDate(row) == NoDate

EventWrite(m, kind, date, summary, raws, page) ==
    [op |-> "event",
     event |-> [matter |-> m, kind |-> kind, date |-> date, summary |-> summary,
                raws |-> raws, evidence |-> page]]
IdentifierWrite(m, raw) == [op |-> "identifier", identifier |-> [matter |-> m, raw |-> raw]]
OrganizationWrites(m, names) ==
    [i \in DOMAIN names |-> [op |-> "organization", organization |-> [matter |-> m, name |-> names[i]]]]
MatterWrite(m) == [op |-> "matter", matter |-> m]
SnapshotWrite(page) == [op |-> "snapshot", page |-> page]
ItemWrite(m, about) == [op |-> "item", item |-> [matter |-> m, about |-> about]]

\* attach_award_row: a number that normalizes to nothing stands for itself.
AwardWrites(page, row) ==
    LET m == MatterFor(IF Norm[row.raw] = None THEN row.raw ELSE Norm[row.raw])
    IN  <<MatterWrite(m), IdentifierWrite(m, row.raw)>>
        \o OrganizationWrites(m, row.org)
        \o <<EventWrite(m, "award", row.date, <<row.raw, row.text>>, {row.raw}, page)>>

\* attach_solicitation_record: a record without an identifier is passed over.
SolicitationWrites(page, row) ==
    IF Norm[row.raw] = None THEN <<>>
    ELSE LET m == MatterFor(Norm[row.raw])
         IN  <<MatterWrite(m), IdentifierWrite(m, row.raw),
               EventWrite(m, "solicitation", SolicitationDate(row), <<row.text>>, {row.raw}, page)>>

RowWrites(page, row) ==
    IF SourceOf[page] = "awards" THEN AwardWrites(page, row) ELSE SolicitationWrites(page, row)
AttachWrites(page) == FlattenSeq([i \in DOMAIN RowsOf[page] |-> RowWrites(page, RowsOf[page][i])])

\* A mistake: a page that is preserved already is taken for attached.
SkipPreserved(page) ==
    <<SnapshotWrite(page)>> \o (IF page \in Preserved THEN <<>> ELSE AttachWrites(page))

\* ingest_awards and ingest_solicitations.
IngestWrites(page) == <<SnapshotWrite(page)>> \o AttachWrites(page)

(***************************************************************************)
(* The script of the demo.                                                 *)
(***************************************************************************)

RowOf(page, raw) == RowsOf[page][CHOOSE i \in DOMAIN RowsOf[page] : RowsOf[page][i].raw = raw]
TransitMatter == MatterFor(Transit)
ControlMatter == <<"co", "control">>

\* build_transit_fare_matter and its review queue: the identifier as it is
\* spelled names the matter, and two dated events cite the mirror.
TransitWrites ==
    <<MatterWrite(TransitMatter), IdentifierWrite(TransitMatter, Transit)>>
    \o OrganizationWrites(TransitMatter, <<"department">>)
    \o <<EventWrite(TransitMatter, "solicitation", 2, <<"published">>, {Transit}, Mirror),
         EventWrite(TransitMatter, "answers", 3, <<"answers">>, {Transit}, Mirror),
         ItemWrite(TransitMatter, <<"missing documents">>)>>

\* build_control_matter.
ControlWrites ==
    LET row == RowOf(Awards, Control)
    IN  <<MatterWrite(ControlMatter), IdentifierWrite(ControlMatter, Control)>>
        \o OrganizationWrites(ControlMatter, row.org)
        \o <<EventWrite(ControlMatter, "award", row.date, <<row.raw, row.text, "demo">>, {Control}, Awards),
             ItemWrite(ControlMatter, <<"vendor aliases">>)>>

\* row_identity (a digest where there is no number), and the row
\* build_change_alerts keeps for it: the last.
Identity(row) == IF Norm[row.raw] = None THEN row.text ELSE Norm[row.raw]
Identities(page) == {Identity(RowsOf[page][i]) : i \in DOMAIN RowsOf[page]}
LastRow(page, id) ==
    Last(SelectSeq(RowsOf[page], LAMBDA row : Identity(row) = id))

Removed == Identities(Awards) \ Identities(AwardsLater)
Corrected == {id \in Identities(Awards) \cap Identities(AwardsLater) :
                LastRow(Awards, id) # LastRow(AwardsLater, id)}
Added == Identities(AwardsLater) \ Identities(Awards)

\* reingest_second_snapshot: every alert's matter, and an event unless a row
\* was added.  The event names no identifier.
ChangeWrites ==
    LET change(id) ==
          LET m == MatterFor(id)
          IN  <<MatterWrite(m)>>
              \o (IF id \in Added THEN <<>>
                  ELSE <<EventWrite(m, IF id \in Removed THEN "removed" ELSE "corrected", 4,
                                    <<id>>, {}, AwardsLater)>>)
    IN  <<SnapshotWrite(AwardsLater)>>
        \o FlattenSeq([i \in 1..Cardinality(Removed \cup Corrected \cup Added) |->
                         change(SetToSeq(Removed \cup Corrected \cup Added)[i])])

\* preserved_record_references: award rows with notes, solicitations with
\* linked documents.  The former name the matter of the normalized number,
\* the latter that of the number as it is spelled.
RelateWrites(page) ==
    LET owner(row) == MatterFor(IF page = Mirror \/ Norm[row.raw] = None THEN row.raw ELSE Norm[row.raw])
        relate(row) == [op |-> "relate", matter |-> owner(row), page |-> page, refs |-> row.refs]
    IN  FlattenSeq([i \in DOMAIN RowsOf[page] |->
            IF RowsOf[page][i].refs = <<>> THEN <<>> ELSE <<relate(RowsOf[page][i])>>])

GenerateWrite(m) == [op |-> "generate", matter |-> m]
FileWrite(m) == [op |-> "file", matter |-> m]
IndexWrite == [op |-> "index"]

DemoWrites ==
    <<SnapshotWrite(Mirror), SnapshotWrite(Awards)>> \o TransitWrites \o ControlWrites
    \o ChangeWrites \o <<IndexWrite>> \o RelateWrites(Awards) \o RelateWrites(Mirror)
    \o <<GenerateWrite(TransitMatter), GenerateWrite(ControlMatter)>>
    \o <<FileWrite(TransitMatter), FileWrite(ControlMatter)>>

(***************************************************************************)
(* The chain and the case file of a matter, as the store is now.           *)
(***************************************************************************)

EventsOf(m) == {e \in events : e.matter = m}
IdentifiersOf(m) == {i.raw : i \in {i \in identifiers : i.matter = m}}

\* ChainStage::from_event_kind and index; corrective events have no stage.
Stage == [solicitation |-> 1, answers |-> 1, award |-> 3, corrected |-> 0, removed |-> 0]
Staged(m) == {e \in EventsOf(m) : Stage[e.kind] # 0}

\* The normalized identifiers of an event, of those its matter has.
Keys(e) == {Norm[raw] : raw \in e.raws \cap IdentifiersOf(e.matter)} \ {None}

\* resolve_event_evidence: every stored snapshot has a digest.
Evidenced(e) == e.evidence \in Preserved

\* Two events of different stages with an identifier in common, in the order
\* of the query: by date, and on one date by hash, that is either way.
Pairs(m) ==
    {p \in Staged(m) \X Staged(m) :
        /\ p[1].date <= p[2].date
        /\ Stage[p[1].kind] # Stage[p[2].kind] /\ Keys(p[1]) \cap Keys(p[2]) # {}}

\* build_links_and_gaps: the stages are put in order, the evidence is not.
LinksOf(m) ==
    {[from |-> Min({Stage[p[1].kind], Stage[p[2].kind]}), to |-> Max({Stage[p[1].kind], Stage[p[2].kind]}),
      fromEvent |-> p[1], toEvent |-> p[2]] : p \in {p \in Pairs(m) : Evidenced(p[1]) /\ Evidenced(p[2])}}
GapsOf(m) == {p \in Pairs(m) : ~Evidenced(p[1]) \/ ~Evidenced(p[2])}

\* build_citations: an event is quoted from its own snapshot, the identifiers
\* and organizations from that of the first event.
EventCitations(m) == {[quote |-> e.summary, from |-> e.evidence] : e \in {e \in EventsOf(m) : Evidenced(e)}}
NameCitations(m) ==
    LET first == {e \in EventsOf(m) : Evidenced(e) /\ \A f \in EventsOf(m) : Evidenced(f) => e.date <= f.date}
        names == {<<raw>> : raw \in IdentifiersOf(m)}
                   \cup {<<o.name>> : o \in {o \in organizations : o.matter = m}}
    IN  IF first = {} THEN {}
        ELSE {[quote |-> n, from |-> (CHOOSE e \in first : TRUE).evidence] : n \in names}

\* build_content.
Content(m) ==
    [links |-> LinksOf(m), gaps |-> GapsOf(m),
     quotes |-> EventCitations(m), names |-> NameCitations(m),
     related |-> {l \in links : l.matter = m \/ l.in = m},
     missing |-> {i.about : i \in {i \in items : i.matter = m}}]

(***************************************************************************)
(* The steps of a command.                                                 *)
(***************************************************************************)

Due(w, op) == job[w].todo # <<>> /\ Head(job[w].todo).op = op
Write(w) == Head(job[w].todo)

\* The worker goes on; with its last write an ingest has ended well.
Proceed(w) ==
    LET rest == Tail(job[w].todo)
    IN  /\ job' = [job EXCEPT ![w] = IF rest = <<>> THEN Idle ELSE [@ EXCEPT !.todo = rest]]
        /\ ingested' = IF rest = <<>> THEN ingested \cup ({job[w].page} \ {None}) ELSE ingested
        /\ UNCHANGED commands

Free(w) == job[w].todo = <<>> /\ commands < MaxCommands

Begin(w, todo, page) ==
    /\ commands' = commands + 1
    /\ job' = [job EXCEPT ![w] = [todo |-> todo, page |-> page, index |-> {}]]
    /\ UNCHANGED <<stored, rows, files, ingested>>

Ingest(w) == \E page \in Page : Free(w) /\ Begin(w, IngestWrites(page), page)

\* The demo begins with a new directory.
Demo(w) == snapshots = <<>> /\ commands = 0 /\ Free(w) /\ Begin(w, DemoWrites, None)

CaseBuild(w) == \E m \in matters : Free(w) /\ Begin(w, <<GenerateWrite(m), FileWrite(m)>>, None)

InsertSnapshot(w) ==
    /\ Due(w, "snapshot")
    /\ snapshots' = IF Write(w).page \in Preserved THEN snapshots ELSE Append(snapshots, Write(w).page)
    /\ Proceed(w)
    /\ UNCHANGED <<matters, identifiers, organizations, events, links, items, rows, files>>

InsertMatter(w) ==
    /\ Due(w, "matter")
    /\ matters' = matters \cup {Write(w).matter}
    /\ Proceed(w)
    /\ UNCHANGED <<snapshots, identifiers, organizations, events, links, items, rows, files>>

InsertIdentifier(w) ==
    /\ Due(w, "identifier")
    /\ identifiers' = identifiers \cup {Write(w).identifier}
    /\ Proceed(w)
    /\ UNCHANGED <<snapshots, matters, organizations, events, links, items, rows, files>>

InsertOrganization(w) ==
    /\ Due(w, "organization")
    /\ organizations' = organizations \cup {Write(w).organization}
    /\ Proceed(w)
    /\ UNCHANGED <<snapshots, matters, identifiers, events, links, items, rows, files>>

\* ProcurementEvent::id_for.
EventId(e) == <<e.matter, e.kind, e.date, e.summary>>

\* A mistake: the newest capture of the event is kept.
KeepNewest(e) == {f \in events : EventId(f) # EventId(e)} \cup {e}

KeepFirst(e) == IF \E f \in events : EventId(f) = EventId(e) THEN events ELSE events \cup {e}

\* A mistake: the event is bound to the newest snapshot of its source.
BindNewest(e) ==
    [e EXCEPT !.evidence = Last(SelectSeq(snapshots, LAMBDA p : SourceOf[p] = SourceOf[e.evidence]))]

\* The event is bound to the snapshot its command recorded.
Bind(e) == e

InsertEvent(w) ==
    /\ Due(w, "event")
    /\ events' = KeepFirst(Bind(Write(w).event))
    /\ Proceed(w)
    /\ UNCHANGED <<snapshots, matters, identifiers, organizations, links, items, rows, files>>

InsertItem(w) ==
    /\ Due(w, "item")
    /\ items' = items \cup {Write(w).item}
    /\ Proceed(w)
    /\ UNCHANGED <<snapshots, matters, identifiers, organizations, events, links, rows, files>>

\* A mistake: that the identifier is stored is enough.
AnyTarget(m) == TRUE

\* matter_resolves_to_valid_snapshot.
Resolves(m) == m \in matters /\ \E e \in EventsOf(m) : Evidenced(e)

\* Before the first record, detect_official_relationships indexes the identifiers
\* of all matters (in one step here; they are only ever added to).
ReadIndex(w) ==
    /\ Due(w, "index")
    /\ job' = [job EXCEPT ![w].todo = Tail(@), ![w].index = identifiers]
    /\ UNCHANGED <<stored, rows, files, commands, ingested>>

\* The indexed identifiers a token names, other than itself in its own matter.
Targets(index, r, token) ==
    {i \in index : /\ Norm[token] # None /\ Norm[i.raw] = Norm[token]
                   /\ ~(i.matter = r.matter /\ i.raw = token)
                   /\ Resolves(i.matter)}

\* The links and the candidates of one record.  A link's id does not name
\* the matter of its target: of two matters with one spelling, one is linked.
Relate(w) ==
    /\ Due(w, "relate")
    /\ LET r == Write(w)
           index == job[w].index
           hits == UNION {Targets(index, r, r.refs[k]) : k \in DOMAIN r.refs}
           spelled == {i.raw : i \in hits}
           known == {l.target : l \in {l \in links : l.matter = r.matter /\ l.page = r.page /\ l.refs = r.refs}}
           missed == {k \in DOMAIN r.refs : Norm[r.refs[k]] # None /\ Targets(index, r, r.refs[k]) = {}}
           near(k) == {i \in index : <<Norm[r.refs[k]], Norm[i.raw]>> \in Near}
       IN  /\ \E pick \in [spelled \ known -> hits] :
                /\ \A raw \in spelled \ known : pick[raw].raw = raw
                /\ links' = links \cup
                     {[matter |-> r.matter, page |-> r.page, refs |-> r.refs,
                       target |-> raw, in |-> pick[raw].matter] : raw \in spelled \ known}
           /\ items' = items \cup
                {[matter |-> r.matter, about |-> <<r.refs[k], CHOOSE i \in near(k) : TRUE>>] :
                    k \in {k \in missed : near(k) # {}}}
    /\ Proceed(w)
    /\ UNCHANGED <<snapshots, matters, identifiers, organizations, events, rows, files>>

\* generate: the row of a matter is written once, its id hashing a constant time.
Generate(w) ==
    /\ Due(w, "generate")
    /\ rows' = rows @@ (Write(w).matter :> Content(Write(w).matter))
    /\ Proceed(w)
    /\ UNCHANGED <<stored, files>>

\* The content is built again for the file.
WriteFile(w) ==
    /\ Due(w, "file")
    /\ LET m == Write(w).matter
       IN  files' = [x \in DOMAIN files \cup {m} |-> IF x = m THEN Content(m) ELSE files[x]]
    /\ Proceed(w)
    /\ UNCHANGED <<stored, rows>>

Crash(w) ==
    /\ job[w].todo # <<>>
    /\ job' = [job EXCEPT ![w] = Idle]
    /\ UNCHANGED <<stored, rows, files, commands, ingested>>

Next ==
    \E w \in Worker :
        \/ Ingest(w) \/ Demo(w) \/ CaseBuild(w)
        \/ InsertSnapshot(w) \/ InsertMatter(w) \/ InsertIdentifier(w) \/ InsertOrganization(w)
        \/ InsertEvent(w) \/ InsertItem(w) \/ ReadIndex(w) \/ Relate(w) \/ Generate(w) \/ WriteFile(w)
        \/ Crash(w)

Spec == Init /\ [][Next]_vars

(***************************************************************************)
(* Properties.                                                             *)
(***************************************************************************)

\* The page an event cites is preserved and has the row the event tells of,
\* whatever was captured since and however commands overlapped; so a chain
\* never has a gap for want of evidence.  (matters.rs 170-270, chain.rs
\* 262-340.)
EventsCiteTheirRow ==
    \A e \in events : e.kind \in {"award", "solicitation"} =>
        /\ Evidenced(e)
        /\ \E i \in DOMAIN RowsOf[e.evidence] :
             LET row == RowsOf[e.evidence][i]
             IN  row.raw \in e.raws
                 /\ e.summary \in {<<row.raw, row.text>>, <<row.raw, row.text, "demo">>, <<row.text>>, <<"published">>}

\* The evidence a link gives for its earlier stage is that of the event of the
\* earlier stage.  (chain.rs 134-137, 276-350.)
LinksRunForward ==
    \A m \in matters : \A l \in LinksOf(m) :
        l.from = Stage[l.fromEvent.kind] /\ l.to = Stage[l.toEvent.kind]

\* After an ingest that ended well every row with an identifier has its
\* matter, its identifier and its event, also when an earlier ingest of the
\* page was cut short.  (procurement_cmd.rs 28-140, matters.rs 1-5.)
IngestedIsReachable ==
    \A page \in ingested : \A i \in DOMAIN RowsOf[page] :
        LET row == RowsOf[page][i]
        IN  Norm[row.raw] # None =>
              LET m == MatterFor(Norm[row.raw])
              IN  /\ m \in matters /\ [matter |-> m, raw |-> row.raw] \in identifiers
                  /\ \E e \in EventsOf(m) : Last(e.summary) = row.text

\* A relationship leads from a preserved page to a matter that a preserved
\* page speaks of, and that has the identifier.  (relationships.rs 88-245.)
RelationshipsResolve ==
    \A l \in links :
        /\ l.page \in Preserved
        /\ [matter |-> l.in, raw |-> l.target] \in identifiers
        /\ \E e \in EventsOf(l.in) : Evidenced(e)

\* What a written case file links, and what it quotes of events, the store
\* still says, with the same evidence.  (core lib.rs 902-914, casefile.rs
\* 346-385.)
CaseFilesStayTrue ==
    \A m \in DOMAIN files :
        /\ files[m].links \subseteq LinksOf(m)
        /\ files[m].quotes \subseteq EventCitations(m)

=============================================================================
