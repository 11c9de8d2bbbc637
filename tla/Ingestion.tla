------------------------------ MODULE Ingestion ------------------------------
(***************************************************************************)
(* Evidence: ingest_bytes (content file, sandboxed extraction, record      *)
(* file, row, text maps, processing run) and `pnull scan`, which rewrites  *)
(* records with the annotations of the current rules.  Commands run beside *)
(* each other on one data directory and may stop at any statement.         *)
(*                                                                         *)
(* An extracted text is the set of pages <<document, page>> it came from.  *)
(* One command keeps one sandbox, and so one working directory, for all    *)
(* the documents it ingests.                                               *)
(***************************************************************************)
EXTENDS Migration, Integers

CONSTANTS
    Document,         \* the byte strings a command may ingest
    Pages,            \* document -> number of pages
    HasText,          \* the documents with a text layer; the others are scans
    RuleVersion,      \* the taxonomies `pnull scan` may run under
    MaxAttachments,   \* budget: documents of one job
    MaxOcrPages,      \* MAX_OCR_PAGES
    MaxCommands       \* bound: commands ever started

ASSUME DocumentAssumption ==
    Document # {} /\ Pages \in [Document -> Nat \ {0}] /\ HasText \subseteq Document
ASSUME LimitAssumption ==
    MaxAttachments \in Nat /\ MaxOcrPages \in Nat /\ MaxCommands \in Nat

None == [none |-> TRUE]

VARIABLES
    blob,      \* document -> its content file: "none", "torn" or "whole"
    file,      \* document -> the record in its JSON file, or None
    row,       \* document -> [record, text] in the evidence table, or None
    maps,      \* the text maps stored: [doc, page, words]
    runs,      \* the processing runs stored: [doc, artifacts]
    findings,  \* <<document, rules>> in the findings table
    alerts,    \* <<document, rules>> in the alerts table
    job,       \* command -> its step and memory
    commands,  \* commands started (bounded)
    disturbed  \* history: documents whose record was written by two commands at once
               \* or by one that stopped between the file and the row

stored == <<blob, file, row, maps, runs, findings, alerts>>
vars == <<schemaVars, stored, job, commands, disturbed>>

Idle == [pc |-> "idle", doc |-> CHOOSE d \in Document : TRUE, ocr |-> FALSE, used |-> 0,
         png |-> <<>>, text |-> {}, maps |-> {}, status |-> "none", rules |-> 0, todo |-> {}, seen |-> None]

Init ==
    /\ OpenInit
    /\ blob = [d \in Document |-> "none"]
    /\ file = [d \in Document |-> None]
    /\ row = [d \in Document |-> None]
    /\ maps = {} /\ runs = {} /\ findings = {} /\ alerts = {}
    /\ job = [j \in Opener |-> Idle]
    /\ commands = 0
    /\ disturbed = {}

At(j, pc) == IsOpen(j) /\ job[j].pc = pc
Goto(j, pc) == job' = [job EXCEPT ![j].pc = pc]

\* The steps between the first look at a record and the row that holds it.
InRecord(j, d) == job[j].doc = d /\ job[j].pc \in {"file", "row", "update"}

\* History: two commands are at d's record after this step.
NoteOverlap ==
    disturbed' = disturbed \cup
        {d \in Document : \E i, j \in Opener : i # j /\ InRecord(i, d)' /\ InRecord(j, d)'}

\* The command ends; its context goes with it.
Ends(j) ==
    /\ job' = [job EXCEPT ![j] = Idle]
    /\ opening' = [opening EXCEPT ![j] = [at |-> "closed", version |-> 0]]
    /\ UNCHANGED schema

Keeps == UNCHANGED <<schemaVars, commands>>

(***************************************************************************)
(* Opening the store, ending a command, stopping anywhere.                 *)
(***************************************************************************)

Open(j) == OpenNext(j) /\ commands < MaxCommands /\ UNCHANGED <<stored, job, commands, disturbed>>

\* A command ends well between two documents, or after its last scan.
Finish(j) ==
    /\ At(j, "ready")
    /\ Ends(j)
    /\ UNCHANGED <<stored, commands, disturbed>>

Crash(j) ==
    /\ IsOpen(j) /\ job[j].pc \notin {"idle", "ready"}
    /\ Ends(j)
    /\ disturbed' = disturbed \cup {d \in Document : job[j].pc \in {"row", "update"} /\ InRecord(j, d)}
    /\ UNCHANGED <<stored, commands>>

(***************************************************************************)
(* ingest_bytes.                                                           *)
(***************************************************************************)

\* validate_request, the size check and the first budgets; exceeding one is
\* an error that ends the command, whose counter has then gone over.
BeginIngest(j, d, ocr) ==
    /\ \/ At(j, "idle") /\ commands < MaxCommands
       \/ At(j, "ready")
    /\ job[j].used < MaxAttachments
    /\ job' = [job EXCEPT ![j] = [@ EXCEPT !.pc = "persist", !.doc = d, !.ocr = ocr, !.used = job[j].used + 1]]
    /\ commands' = IF job[j].pc = "idle" THEN commands + 1 ELSE commands
    /\ UNCHANGED <<schemaVars, stored, disturbed>>

\* add_attachment at its limit.
BudgetExceeded(j) ==
    /\ At(j, "ready") /\ job[j].used = MaxAttachments
    /\ Ends(j)
    /\ UNCHANGED <<stored, commands, disturbed>>

\* create_new makes the file this command writes.
PersistCreate(j) ==
    /\ At(j, "persist") /\ blob[job[j].doc] = "none"
    /\ blob' = [blob EXCEPT ![job[j].doc] = "torn"]
    /\ Goto(j, "fill")
    /\ Keeps /\ UNCHANGED <<file, row, maps, runs, findings, alerts, disturbed>>

\* write_all and sync_all.
PersistFill(j) ==
    /\ At(j, "fill")
    /\ blob' = [blob EXCEPT ![job[j].doc] = "whole"]
    /\ Goto(j, "extract")
    /\ Keeps /\ UNCHANGED <<file, row, maps, runs, findings, alerts, disturbed>>

\* A mistake: a file that exists is taken for the content.
AnyFile(d) == TRUE

\* AlreadyExists: what is there must have the digest.
DigestMatches(d) == blob[d] = "whole"

PersistVerify(j) ==
    /\ At(j, "persist") /\ blob[job[j].doc] # "none"
    /\ IF DigestMatches(job[j].doc)
       THEN Goto(j, "extract") /\ UNCHANGED schemaVars
       ELSE Ends(j)
    /\ UNCHANGED <<stored, commands, disturbed>>

PagesOf(d) == {<<d, p>> : p \in 1..Pages[d]}
TextMaps(d) == {[page |-> p, words |-> {<<d, p>>}] : p \in 1..Pages[d]}

\* pdftoppm writes this document's images over those of the documents before
\* it; the images of an earlier, longer document stay in the directory.
Rendered(j) ==
    LET d == job[j].doc
        old == job[j].png
    IN  [p \in (1..Pages[d]) \cup DOMAIN old |-> IF p <= Pages[d] THEN d ELSE old[p]]

\* A mistake: every row of the image's TSV is taken.
AllRows(p) == TRUE

\* parse_ocr_tsv keeps the rows whose page_num is the page's; Tesseract is run
\* on one image at a time and calls each of them page 1.
RowsKept(p) == p = 1

OcrWords(png, p) == IF RowsKept(p) THEN {<<png[p], p>>} ELSE {}

OcrText(png) == UNION {OcrWords(png, p) : p \in DOMAIN png}

Extracted(j, status, text, artifacts, png) ==
    job' = [job EXCEPT ![j] = [@ EXCEPT !.pc = "exists", !.status = status, !.text = text,
                                        !.maps = artifacts, !.png = png]]

\* extract: the text layer if there is one; otherwise OCR of the rendered
\* pages, when it is enabled and the pages are few enough.
ExtractText(j) ==
    /\ At(j, "extract") /\ job[j].doc \in HasText
    /\ Extracted(j, "Complete", PagesOf(job[j].doc), TextMaps(job[j].doc), job[j].png)
    /\ Keeps /\ UNCHANGED <<stored, disturbed>>

ExtractOcr(j) ==
    /\ At(j, "extract") /\ job[j].doc \notin HasText
    /\ job[j].ocr /\ Pages[job[j].doc] <= MaxOcrPages
    /\ LET png == Rendered(j)
       IN  Extracted(j, "CompleteWithOcr", OcrText(png),
                     {[page |-> p, words |-> OcrWords(png, p)] : p \in DOMAIN png}, png)
    /\ Keeps /\ UNCHANGED <<stored, disturbed>>

\* Any tool may fail, time out or exceed a budget, after which the directory
\* holds what was rendered before; without OCR a scan has no text.  The ingest
\* goes on with an empty text and status Failed.
ExtractFails(j) ==
    /\ At(j, "extract")
    /\ \E png \in {job[j].png} \cup (IF job[j].ocr /\ job[j].doc \notin HasText THEN {Rendered(j)} ELSE {}) :
         Extracted(j, "Failed", {}, {}, png)
    /\ Keeps /\ UNCHANGED <<stored, disturbed>>

Record(j) == [by |-> j, status |-> job[j].status, notes |-> 0]

\* insert_evidence: a row that exists is left alone.
LookForRow(j) ==
    /\ At(j, "exists")
    /\ Goto(j, IF row[job[j].doc] = None THEN "file" ELSE "maps")
    /\ NoteOverlap
    /\ Keeps /\ UNCHANGED stored

\* write_atomic of the record's JSON.
WriteRecord(j) ==
    /\ At(j, "file")
    /\ file' = [file EXCEPT ![job[j].doc] = Record(j)]
    /\ Goto(j, "row")
    /\ NoteOverlap
    /\ Keeps /\ UNCHANGED <<blob, row, maps, runs, findings, alerts>>

\* INSERT, which fails when another command inserted the row meanwhile.
InsertRow(j) ==
    /\ At(j, "row")
    /\ LET d == job[j].doc
       IN  IF row[d] = None
           THEN /\ row' = [row EXCEPT ![d] = [record |-> Record(j), text |-> job[j].text]]
                /\ Goto(j, "maps") /\ UNCHANGED schemaVars
           ELSE Ends(j) /\ UNCHANGED row
    /\ UNCHANGED <<blob, file, maps, runs, findings, alerts, commands, disturbed>>

MapRow(j, m) == [doc |-> job[j].doc, page |-> m.page, words |-> m.words]
MapsLeft(j) == {m \in job[j].maps : MapRow(j, m) \notin maps}

\* One text map, in page order.
InsertTextMap(j) ==
    /\ At(j, "maps")
    /\ \E m \in MapsLeft(j) :
         /\ \A o \in MapsLeft(j) : m.page <= o.page
         /\ maps' = maps \cup {MapRow(j, m)}
    /\ Keeps /\ UNCHANGED <<blob, file, row, runs, findings, alerts, job, disturbed>>

MapsStored(j) == MapsLeft(j) = {}

\* The processing run, always "complete", naming the maps as its artifacts.
InsertRun(j) ==
    /\ At(j, "maps") /\ MapsStored(j)
    /\ runs' = runs \cup {[doc |-> job[j].doc, artifacts |-> {MapRow(j, m) : m \in job[j].maps}]}
    /\ job' = [job EXCEPT ![j] = [Idle EXCEPT !.pc = "ready", !.used = job[j].used, !.png = job[j].png]]
    /\ Keeps /\ UNCHANGED <<blob, file, row, maps, findings, alerts, disturbed>>

(***************************************************************************)
(* `pnull scan`.                                                           *)
(***************************************************************************)

\* all_evidence: the records and texts as they are now; a record is annotated
\* when its text has a term, which every text in the model has.
BeginScan(j, r) ==
    /\ At(j, "idle") /\ commands < MaxCommands
    /\ LET found == {d \in Document : row[d] # None /\ row[d].text # {}}
       IN  job' = [job EXCEPT ![j] = [Idle EXCEPT !.pc = "next", !.rules = r, !.todo = found, !.seen = row]]
    /\ commands' = commands + 1
    /\ UNCHANGED <<schemaVars, stored, disturbed>>

\* Records are taken in the order of their ids.
NextRecord(j) == CHOOSE d \in job[j].todo : TRUE
Annotated(j, d) == [job[j].seen[d].record EXCEPT !.notes = job[j].rules]

\* A mistake: only the row is rewritten.
AnnotateRowOnly(j) ==
    /\ At(j, "next") /\ job[j].todo # {}
    /\ job' = [job EXCEPT ![j].pc = "update", ![j].doc = NextRecord(j)]
    /\ NoteOverlap
    /\ Keeps /\ UNCHANGED stored

\* update_evidence_annotations: the record file first ...
AnnotateFile(j) ==
    /\ At(j, "next") /\ job[j].todo # {}
    /\ job' = [job EXCEPT ![j].pc = "update", ![j].doc = NextRecord(j)]
    /\ file' = [file EXCEPT ![NextRecord(j)] = Annotated(j, NextRecord(j))]
    /\ NoteOverlap
    /\ Keeps /\ UNCHANGED <<blob, row, maps, runs, findings, alerts>>

\* ... then the row, with the record and the text read at the start.
AnnotateRow(j) ==
    /\ At(j, "update")
    /\ LET d == job[j].doc
       IN  row' = [row EXCEPT ![d] = [record |-> Annotated(j, d), text |-> job[j].seen[d].text]]
    /\ Goto(j, "finding")
    /\ Keeps /\ UNCHANGED <<blob, file, maps, runs, findings, alerts, disturbed>>

InsertFinding(j) ==
    /\ At(j, "finding")
    /\ findings' = findings \cup {<<job[j].doc, job[j].rules>>}
    /\ Goto(j, "alert")
    /\ Keeps /\ UNCHANGED <<blob, file, row, maps, runs, alerts, disturbed>>

InsertAlert(j) ==
    /\ At(j, "alert")
    /\ alerts' = alerts \cup {<<job[j].doc, job[j].rules>>}
    /\ job' = [job EXCEPT ![j].pc = "next", ![j].todo = @ \ {job[j].doc}]
    /\ Keeps /\ UNCHANGED <<blob, file, row, maps, runs, findings, disturbed>>

EndScan(j) ==
    /\ At(j, "next") /\ job[j].todo = {}
    /\ Ends(j)
    /\ UNCHANGED <<stored, commands, disturbed>>

Ingest(j) ==
    \/ \E d \in Document, ocr \in BOOLEAN : BeginIngest(j, d, ocr)
    \/ BudgetExceeded(j) \/ PersistCreate(j) \/ PersistFill(j) \/ PersistVerify(j)
    \/ ExtractText(j) \/ ExtractOcr(j) \/ ExtractFails(j)
    \/ LookForRow(j) \/ WriteRecord(j) \/ InsertRow(j) \/ InsertTextMap(j) \/ InsertRun(j)

ScanAll(j) ==
    \/ \E r \in RuleVersion : BeginScan(j, r)
    \/ AnnotateFile(j) \/ AnnotateRow(j) \/ InsertFinding(j) \/ InsertAlert(j) \/ EndScan(j)

Next == \E j \in Opener : Open(j) \/ Ingest(j) \/ ScanAll(j) \/ Finish(j) \/ Crash(j)

Spec == Init /\ [][Next]_vars

(***************************************************************************)
(* Properties.                                                             *)
(***************************************************************************)

\* `pnull verify` succeeds for every stored record: its content file is whole,
\* whatever crashed while writing it and however two ingests of the same bytes
\* interleaved.  (lib.rs 383-410, core lib.rs 566-579.)
StoredIsWhole ==
    \A d \in Document : row[d] # None => blob[d] = "whole"

\* The JSON file under records/ and the row say the same of a record whenever
\* no command is between writing the two, unless a command stopped there or two
\* commands were there at once.  (core lib.rs 332-378.)
RecordFileMatchesRow ==
    \A d \in Document \ disturbed :
        (\A j \in Opener : ~InRecord(j, d)) =>
            IF row[d] = None THEN file[d] = None ELSE file[d] = row[d].record

\* The text and the maps stored for a document are that document's, although
\* the working directory still holds the page images of the documents that the
\* command ingested before.  (ingest lib.rs 848-900, geometry lib.rs 262-264.)
TextIsItsDocuments ==
    /\ \A d \in Document : row[d] # None => row[d].text \subseteq PagesOf(d)
    /\ \A m \in maps : m.words \subseteq PagesOf(m.doc)

=============================================================================
