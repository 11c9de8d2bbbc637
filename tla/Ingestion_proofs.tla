--------------------------- MODULE Ingestion_proofs ---------------------------
(***************************************************************************)
(* Proofs about Migration and Ingestion, for any commands, documents and   *)
(* old databases: whoever works on a store works on a migrated one, the    *)
(* content of everything stored is whole, no document gets text of         *)
(* another, and an undisturbed record's file and row agree.                *)
(***************************************************************************)
EXTENDS Ingestion, TLAPS

AllTables == BaseTables \cup UNION {Adds[v] : v \in DOMAIN Adds}
\* The tables a database marked with a version has, the base tables apart.
TablesOf(version) == UNION {Adds[v] : v \in {v \in DOMAIN Adds : v <= version}}

Opening == [at : {"closed", "open", "refused", "migrating"}, version : Nat]

SchemaTypes ==
    /\ schema \in [version : Nat, tables : SUBSET AllTables]
    /\ opening \in [Opener -> Opening]

\* A database has at least the tables of its mark, and what a command read of
\* it is no newer than what it is.
SchemaInv ==
    /\ SchemaTypes
    /\ TablesOf(schema.version) \subseteq schema.tables
    /\ \A o \in Opener :
         /\ opening[o].at \in {"migrating", "open"} => BaseTables \subseteq schema.tables
         /\ opening[o].at = "migrating" =>
              /\ schema.version <= SCHEMA_VERSION
              /\ TablesOf(opening[o].version) \subseteq schema.tables
         /\ opening[o].at = "open" => schema.version = SCHEMA_VERSION
         /\ schema.version > SCHEMA_VERSION => opening[o].at \in {"closed", "refused"}

LEMMA Whole4 == \A version \in Nat :
    /\ version >= 4 => TablesOf(version) = UNION {Adds[v] : v \in DOMAIN Adds}
    /\ TablesOf(version) \subseteq UNION {Adds[v] : v \in DOMAIN Adds}
    /\ AddedSince(version) \cup TablesOf(version) = UNION {Adds[v] : v \in DOMAIN Adds}
<1>1. DOMAIN Adds = 1..4
  BY DEF Adds
<1> QED
  BY <1>1 DEF TablesOf, AddedSince, SCHEMA_VERSION

LEMMA SchemaInit == OpenInit => SchemaInv
<1> SUFFICES ASSUME OpenInit PROVE SchemaInv
  OBVIOUS
<1>1. PICK v \in OldVersions :
        schema = [version |-> v,
                  tables |-> IF v = 0 THEN {} ELSE BaseTables \cup TablesOf(v)]
  BY DEF OpenInit, TablesOf
<1>2. v \in Nat
  BY VersionAssumption
<1>3. v = 0 => TablesOf(v) = {}
  <2>1. DOMAIN Adds = 1..4
    BY DEF Adds
  <2> QED
    BY <2>1 DEF TablesOf
<1>4. TablesOf(schema.version) \subseteq schema.tables
  BY <1>1, <1>3
<1>5. SchemaTypes
  BY <1>1, <1>2, Whole4 DEF SchemaTypes, OpenInit, Opening, AllTables
<1> QED
  BY <1>4, <1>5 DEF SchemaInv, OpenInit

LEMMA OpenKeepsSchema ==
    ASSUME SchemaInv, NEW o \in Opener, OpenNext(o)
    PROVE  SchemaInv'
<1>1. CASE ReadVersion(o)
  <2>1. SchemaTypes'
    BY <1>1 DEF SchemaInv, SchemaTypes, ReadVersion, Opening, AllTables
  <2>2. schema'.version = schema.version /\ schema'.tables = schema.tables \cup BaseTables
    BY <1>1 DEF ReadVersion, SchemaInv, SchemaTypes
  <2>3. \A p \in Opener \ {o} : opening'[p] = opening[p]
    BY <1>1 DEF ReadVersion, SchemaInv, SchemaTypes
  <2>4. /\ opening'[o].version = schema.version
        /\ opening'[o].at = IF schema.version = SCHEMA_VERSION THEN "open"
                            ELSE IF schema.version > MAX_SUPPORTED_SCHEMA_VERSION THEN "refused"
                            ELSE "migrating"
    BY <1>1 DEF ReadVersion, SchemaInv, SchemaTypes
  <2> QED
    BY <2>1, <2>2, <2>3, <2>4
    DEF SchemaInv, SchemaTypes, TablesOf, SCHEMA_VERSION, MAX_SUPPORTED_SCHEMA_VERSION
<1>2. CASE Migrate(o)
  <2>1. /\ schema'.version = SCHEMA_VERSION
        /\ schema'.tables = schema.tables \cup AddedSince(opening[o].version)
    BY <1>2 DEF Migrate, Steps
  <2>2. /\ opening[o].at = "migrating" /\ opening[o].version \in Nat
        /\ BaseTables \subseteq schema.tables
        /\ TablesOf(opening[o].version) \subseteq schema.tables
    BY <1>2 DEF Migrate, SchemaInv, SchemaTypes, Opening
  <2>3. schema'.tables = AllTables
    BY <2>1, <2>2, Whole4 DEF AllTables, SchemaInv, SchemaTypes
  <2>4. \A version \in Nat : TablesOf(version) \subseteq schema'.tables
    BY <2>3, Whole4 DEF AllTables
  <2>5. /\ opening'[o].at = "open" /\ opening'[o].version = opening[o].version
        /\ \A p \in Opener \ {o} : opening'[p] = opening[p]
    BY <1>2 DEF Migrate, SchemaInv, SchemaTypes, Opening
  <2>6. SchemaTypes'
    BY <1>2, <2>1, <2>3 DEF Migrate, SchemaInv, SchemaTypes, Opening, SCHEMA_VERSION
  <2>7. TablesOf(schema'.version) \subseteq schema'.tables
    BY <2>1, <2>4 DEF SCHEMA_VERSION
  <2>8. ASSUME NEW p \in Opener
        PROVE /\ BaseTables \subseteq schema'.tables
              /\ TablesOf(opening'[p].version) \subseteq schema'.tables
              /\ schema'.version = SCHEMA_VERSION
    BY <2>1, <2>3, <2>4, <2>6 DEF AllTables, SchemaTypes, Opening
  <2> QED
    BY <2>6, <2>7, <2>8 DEF SchemaInv, SCHEMA_VERSION, TablesOf
<1>3. CASE MigrateBusy(o)
  BY <1>3 DEF MigrateBusy, SchemaInv, SchemaTypes, Opening, TablesOf
<1> QED
  BY <1>1, <1>2, <1>3 DEF OpenNext

LEMMA EndingKeepsSchema ==
    ASSUME SchemaInv, NEW j \in Opener, UNCHANGED schema,
           opening' = [opening EXCEPT ![j] = [at |-> "closed", version |-> 0]]
    PROVE  SchemaInv'
  BY DEF SchemaInv, SchemaTypes, Opening, TablesOf

\* A step of Ingestion opens, closes, or leaves the database to what it is.
LEMMA StepOfSchema ==
    ASSUME Next
    PROVE  \E j \in Opener :
             \/ OpenNext(j)
             \/ UNCHANGED schema /\ opening' = [opening EXCEPT ![j] = [at |-> "closed", version |-> 0]]
             \/ UNCHANGED schemaVars
<1> PICK j \in Opener : Open(j) \/ Ingest(j) \/ ScanAll(j) \/ Finish(j) \/ Crash(j)
  BY DEF Next
<1>1. CASE Open(j)
  BY <1>1 DEF Open
<1>2. CASE Ingest(j)
  BY <1>2 DEF Ingest, BeginIngest, BudgetExceeded, PersistCreate, PersistFill, PersistVerify,
     ExtractText, ExtractOcr, ExtractFails, LookForRow, WriteRecord, InsertRow, InsertTextMap,
     InsertRun, Keeps, Ends
<1>3. CASE ScanAll(j)
  BY <1>3 DEF ScanAll, BeginScan, AnnotateFile, AnnotateRow, InsertFinding, InsertAlert, EndScan,
     Keeps, Ends
<1>4. CASE Finish(j) \/ Crash(j)
  BY <1>4 DEF Finish, Crash, Ends
<1> QED
  BY <1>1, <1>2, <1>3, <1>4

LEMMA SchemaIsInvariant == Spec => []SchemaInv
<1>1. Init => SchemaInv
  BY SchemaInit DEF Init
<1>2. SchemaInv /\ [Next]_vars => SchemaInv'
  <2> SUFFICES ASSUME SchemaInv, [Next]_vars PROVE SchemaInv'
    OBVIOUS
  <2>1. CASE UNCHANGED schemaVars
    BY <2>1 DEF schemaVars, SchemaInv, SchemaTypes, TablesOf
  <2>2. CASE Next
    BY <2>1, <2>2, StepOfSchema, OpenKeepsSchema, EndingKeepsSchema
  <2> QED
    BY <2>1, <2>2 DEF vars, schemaVars
<1> QED
  BY <1>1, <1>2, PTL DEF Spec

\* Whatever versions the commands read and in whatever order their transactions
\* commit, a command works on a database with every table of this build's
\* schema, and one with a newer schema is never migrated (migrate.rs:44-76).
THEOREM OpensAreMigrated == Spec => []OpenMeansMigrated
<1>1. SchemaInv => OpenMeansMigrated
  BY Whole4 DEF SchemaInv, SchemaTypes, OpenMeansMigrated, IsOpen, AllTables, SCHEMA_VERSION
<1> QED
  BY <1>1, SchemaIsInvariant, PTL


(***************************************************************************)
(* The content of what is stored.                                          *)
(***************************************************************************)

Pc == {"idle", "ready", "persist", "fill", "extract", "exists", "file", "row", "maps",
       "next", "update", "finding", "alert"}
Status == {"none", "Complete", "CompleteWithOcr", "Failed"}
EvidenceRecord == [by : Opener, status : Status, notes : RuleVersion \cup {0}]
Row == [record : EvidenceRecord, text : SUBSET (Document \X Nat)]
Table == [Document -> Row \cup {None}]
Images == UNION {[S -> Document] : S \in SUBSET Nat}
Map == [page : Nat, words : SUBSET (Document \X Nat)]
Job == [pc : Pc, doc : Document, ocr : BOOLEAN, used : Nat, png : Images,
        text : SUBSET (Document \X Nat), maps : SUBSET Map, status : Status,
        rules : RuleVersion \cup {0}, todo : SUBSET Document, seen : Table \cup {None}]

ContentTypes ==
    /\ blob \in [Document -> {"none", "torn", "whole"}]
    /\ row \in Table
    /\ job \in [Opener -> Job]

\* From the moment a command has seen or written the whole content, and for
\* every record that a scan has read, the content is whole.
Sound(command, content) ==
    /\ command.pc \in {"extract", "exists", "file", "row", "maps"} => content[command.doc] = "whole"
    /\ command.pc \in {"next", "update", "finding", "alert"} =>
         /\ command.seen \in Table
         /\ \A d \in command.todo : command.seen[d] # None /\ content[d] = "whole"
    /\ command.pc \in {"update", "finding", "alert"} => command.doc \in command.todo

ContentInv ==
    /\ ContentTypes
    /\ StoredIsWhole
    /\ \A j \in Opener : Sound(job[j], blob)

LEMMA NoImages == <<>> \in Images
<1>1. <<>> \in [{} -> Document]
  OBVIOUS
<1> QED
  BY <1>1 DEF Images

LEMMA IdleIsSound ==
    /\ Idle \in Job
    /\ \A content : Sound(Idle, content)
<1>1. (CHOOSE d \in Document : TRUE) \in Document
  BY DocumentAssumption
<1>2. Idle \in Job
  BY <1>1, NoImages DEF Idle, Job, Pc, Status
<1> QED
  BY <1>2 DEF Idle, Sound

LEMMA ContentInit == Init => ContentInv
<1> SUFFICES ASSUME Init PROVE ContentInv
  OBVIOUS
<1>1. ContentTypes
  BY IdleIsSound DEF Init, ContentTypes, Table
<1>2. StoredIsWhole
  BY DEF Init, StoredIsWhole
<1> QED
  BY <1>1, <1>2, IdleIsSound DEF Init, ContentInv

\* One command changes; what was whole stays whole.
LEMMA OneChanges ==
    ASSUME ContentInv, NEW j \in Opener, NEW command \in Job,
           job' = [job EXCEPT ![j] = command],
           blob' \in [Document -> {"none", "torn", "whole"}], row' \in Table,
           \A d \in Document : blob[d] = "whole" => blob'[d] = "whole",
           \A d \in Document : row'[d] # None => blob'[d] = "whole",
           Sound(command, blob')
    PROVE  ContentInv'
<1>1. job' \in [Opener -> Job]
  BY DEF ContentInv, ContentTypes
<1>2. ASSUME NEW p \in Opener PROVE Sound(job'[p], blob')
  <2>1. CASE p = j
    BY <2>1 DEF ContentInv, ContentTypes
  <2>2. CASE p # j
    <3>1. job'[p] = job[p] /\ job[p] \in Job /\ Sound(job[p], blob)
      BY <2>2 DEF ContentInv, ContentTypes
    <3>2. job[p].doc \in Document /\ job[p].todo \subseteq Document
      BY <3>1 DEF Job
    <3> QED
      BY <3>1, <3>2 DEF Sound
  <2> QED
    BY <2>1, <2>2
<1> QED
  BY <1>1, <1>2 DEF ContentInv, ContentTypes, StoredIsWhole

LEMMA EndingKeepsContent ==
    ASSUME ContentInv, NEW j \in Opener, Ends(j), UNCHANGED <<blob, row>>
    PROVE  ContentInv'
  BY IdleIsSound, OneChanges DEF Ends, ContentInv, ContentTypes, StoredIsWhole

\* The command goes on to another step with the same memory.
LEMMA GoingKeepsContent ==
    ASSUME ContentInv, NEW j \in Opener, NEW pc \in Pc, Goto(j, pc),
           UNCHANGED <<blob, row>>, Sound([job[j] EXCEPT !.pc = pc], blob)
    PROVE  ContentInv'
<1>1. [job[j] EXCEPT !.pc = pc] \in Job
  BY DEF ContentInv, ContentTypes, Job
<1>2. job' = [job EXCEPT ![j] = [job[j] EXCEPT !.pc = pc]]
  BY DEF Goto
<1> QED
  BY <1>1, <1>2, OneChanges DEF ContentInv, ContentTypes, StoredIsWhole

LEMMA PersistKeepsContent ==
    ASSUME ContentInv, NEW j \in Opener, PersistCreate(j) \/ PersistFill(j) \/ PersistVerify(j)
    PROVE  ContentInv'
<1>0. job[j] \in Job /\ job[j].doc \in Document
  BY DEF ContentInv, ContentTypes, Job
<1>1. CASE PersistCreate(j)
  <2> DEFINE new == [job[j] EXCEPT !.pc = "fill"]
  <2>1. new \in Job /\ job' = [job EXCEPT ![j] = new]
    BY <1>0, <1>1 DEF PersistCreate, Goto, Job, Pc
  <2>2. Sound(new, blob')
    BY <1>0 DEF Sound, Job
  <2>3. /\ blob[job[j].doc] = "none" /\ UNCHANGED row
        /\ blob' = [blob EXCEPT ![job[j].doc] = "torn"]
    BY <1>1 DEF PersistCreate
  <2> HIDE DEF new
  <2> QED
    BY <1>0, <2>1, <2>2, <2>3, OneChanges DEF ContentInv, ContentTypes, StoredIsWhole
<1>2. CASE PersistFill(j)
  <2> DEFINE new == [job[j] EXCEPT !.pc = "extract"]
  <2>1. new \in Job /\ job' = [job EXCEPT ![j] = new]
    BY <1>0, <1>2 DEF PersistFill, Goto, Job, Pc
  <2>2. UNCHANGED row /\ blob' = [blob EXCEPT ![job[j].doc] = "whole"]
    BY <1>2 DEF PersistFill
  <2>3. Sound(new, blob')
    BY <1>0, <2>2 DEF Sound, Job, ContentInv, ContentTypes
  <2> HIDE DEF new
  <2> QED
    BY <1>0, <2>1, <2>2, <2>3, OneChanges DEF ContentInv, ContentTypes, StoredIsWhole
<1>3. CASE PersistVerify(j)
  <2>1. CASE DigestMatches(job[j].doc)
    <3>1. Sound([job[j] EXCEPT !.pc = "extract"], blob)
      BY <1>0, <2>1 DEF Sound, Job, DigestMatches
    <3> QED
      BY <1>3, <2>1, <3>1, GoingKeepsContent DEF PersistVerify, stored, Pc
  <2>2. CASE ~DigestMatches(job[j].doc)
    BY <1>3, <2>2, EndingKeepsContent DEF PersistVerify, stored
  <2> QED
    BY <2>1, <2>2
<1> QED
  BY <1>1, <1>2, <1>3

LEMMA ExtractedKeepsContent ==
    ASSUME ContentInv, NEW j \in Opener, job[j].pc = "extract",
           NEW status \in Status, NEW text \in SUBSET (Document \X Nat),
           NEW artifacts \in SUBSET Map, NEW png \in Images,
           Extracted(j, status, text, artifacts, png), UNCHANGED <<blob, row>>
    PROVE  ContentInv'
<1> DEFINE new == [job[j] EXCEPT !.pc = "exists", !.status = status, !.text = text,
                                 !.maps = artifacts, !.png = png]
<1>0. job[j] \in Job
  BY DEF ContentInv, ContentTypes
<1>1. new \in Job /\ new.pc = "exists" /\ new.doc = job[j].doc
  BY <1>0 DEF Job, Pc
<1>2. job' = [job EXCEPT ![j] = new]
  BY DEF Extracted
<1>3. Sound(new, blob)
  BY <1>0, <1>1 DEF ContentInv, Sound
<1> HIDE DEF new
<1> QED
  BY <1>1, <1>2, <1>3, OneChanges DEF ContentInv, ContentTypes, StoredIsWhole

LEMMA RenderedImages ==
    ASSUME ContentInv, NEW j \in Opener
    PROVE  Rendered(j) \in Images
<1>1. job[j].doc \in Document /\ job[j].png \in Images
  BY DEF ContentInv, ContentTypes, Job
<1>2. PICK S \in SUBSET Nat : job[j].png \in [S -> Document]
  BY <1>1 DEF Images
<1>3. Pages[job[j].doc] \in Nat
  BY <1>1, DocumentAssumption
<1>4. (1..Pages[job[j].doc]) \cup S \in SUBSET Nat
  <2>1. \A i \in 1..Pages[job[j].doc] : i \in Nat
    BY <1>3
  <2> QED
    BY <1>2, <2>1
<1>5. Rendered(j) \in [(1..Pages[job[j].doc]) \cup S -> Document]
  <2> DEFINE n == Pages[job[j].doc]
  <2>1. DOMAIN job[j].png = S /\ \A p \in S : job[j].png[p] \in Document
    BY <1>2
  <2>2. \A p \in (1..n) \cup S : p \in 1..n \/ p \in S
    OBVIOUS
  <2>3. \A p \in (1..n) \cup S : ~(p <= n) => p \in S
    BY <1>3
  <2> HIDE DEF n
  <2>4. Rendered(j) = [p \in (1..n) \cup S |-> IF p <= n THEN job[j].doc ELSE job[j].png[p]]
    BY <2>1 DEF Rendered, n
  <2>5. \A p \in (1..n) \cup S : (IF p <= n THEN job[j].doc ELSE job[j].png[p]) \in Document
    BY <1>1, <2>1, <2>3
  <2>6. Rendered(j) \in [(1..n) \cup S -> Document]
    BY <2>4, <2>5
  <2> QED
    BY <2>6 DEF n
<1> QED
  BY <1>4, <1>5 DEF Images

LEMMA ExtractKeepsContent ==
    ASSUME ContentInv, NEW j \in Opener, ExtractText(j) \/ ExtractOcr(j) \/ ExtractFails(j)
    PROVE  ContentInv'
<1>0. /\ job[j] \in Job /\ job[j].doc \in Document /\ job[j].png \in Images
      /\ Pages[job[j].doc] \in Nat
  BY DocumentAssumption DEF ContentInv, ContentTypes, Job
<1>1. CASE ExtractText(j)
  <2>1. PagesOf(job[j].doc) \in SUBSET (Document \X Nat)
    BY <1>0 DEF PagesOf
  <2>2. TextMaps(job[j].doc) \in SUBSET Map
    BY <1>0 DEF TextMaps, Map
  <2> QED
    BY <1>0, <1>1, <2>1, <2>2, ExtractedKeepsContent DEF ExtractText, At, stored, Status
<1>2. CASE ExtractOcr(j)
  <2> DEFINE png == Rendered(j)
             pages == {[page |-> p, words |-> OcrWords(png, p)] : p \in DOMAIN png}
  <2>1. png \in Images
    BY RenderedImages
  <2>2. PICK S \in SUBSET Nat : png \in [S -> Document]
    BY <2>1 DEF Images
  <2> HIDE DEF png
  <2>3. \A p \in DOMAIN png : p \in Nat /\ OcrWords(png, p) \in SUBSET (Document \X Nat)
    BY <2>2 DEF OcrWords
  <2>4. OcrText(png) \in SUBSET (Document \X Nat)
    BY <2>3 DEF OcrText
  <2>5. pages \in SUBSET Map
    BY <2>3 DEF Map
  <2>6. Extracted(j, "CompleteWithOcr", OcrText(png), pages, png)
    BY <1>2 DEF ExtractOcr, png
  <2>7. job[j].pc = "extract" /\ UNCHANGED <<blob, row>>
    BY <1>2 DEF ExtractOcr, At, stored
  <2> HIDE DEF pages
  <2> QED
    BY <2>1, <2>4, <2>5, <2>6, <2>7, ExtractedKeepsContent DEF Status
<1>3. CASE ExtractFails(j)
  <2>1. PICK png \in {job[j].png} \cup (IF job[j].ocr /\ job[j].doc \notin HasText THEN {Rendered(j)} ELSE {}) :
          Extracted(j, "Failed", {}, {}, png)
    BY <1>3 DEF ExtractFails
  <2>2. png \in Images
    BY <1>0, <2>1, RenderedImages
  <2>3. job[j].pc = "extract" /\ UNCHANGED <<blob, row>>
    BY <1>3 DEF ExtractFails, At, stored
  <2> QED
    BY <2>1, <2>2, <2>3, ExtractedKeepsContent DEF Status
<1> QED
  BY <1>1, <1>2, <1>3

LEMMA RecordKeepsContent ==
    ASSUME ContentInv, NEW j \in Opener,
           LookForRow(j) \/ WriteRecord(j) \/ InsertRow(j) \/ InsertTextMap(j) \/ InsertRun(j)
    PROVE  ContentInv'
<1>0. job[j] \in Job /\ job[j].doc \in Document /\ Sound(job[j], blob)
  BY DEF ContentInv, ContentTypes, Job
<1>1. CASE LookForRow(j)
  <2> DEFINE pc == IF row[job[j].doc] = None THEN "file" ELSE "maps"
  <2>1. Goto(j, pc) /\ job[j].pc = "exists" /\ UNCHANGED <<blob, row>>
    BY <1>1 DEF LookForRow, At, stored
  <2>2. pc \in {"file", "maps"}
    OBVIOUS
  <2> HIDE DEF pc
  <2>3. Sound([job[j] EXCEPT !.pc = pc], blob)
    BY <1>0, <2>1, <2>2 DEF Sound, Job
  <2> QED
    BY <2>1, <2>2, <2>3, GoingKeepsContent DEF Pc
<1>2. CASE WriteRecord(j)
  <2>1. Goto(j, "row") /\ job[j].pc = "file" /\ UNCHANGED <<blob, row>>
    BY <1>2 DEF WriteRecord, At
  <2>2. Sound([job[j] EXCEPT !.pc = "row"], blob)
    BY <1>0, <2>1 DEF Sound, Job
  <2> QED
    BY <2>1, <2>2, GoingKeepsContent DEF Pc
<1>3. CASE InsertRow(j)
  <2>1. job[j].pc = "row" /\ UNCHANGED blob /\ blob[job[j].doc] = "whole"
    BY <1>0, <1>3 DEF InsertRow, At, Sound
  <2>2. CASE row[job[j].doc] = None
    <3> DEFINE new == [job[j] EXCEPT !.pc = "maps"]
    <3>1. new \in Job /\ Sound(new, blob)
      BY <1>0, <2>1 DEF Sound, Job, Pc
    <3>2. job' = [job EXCEPT ![j] = new]
      BY <1>3, <2>2 DEF InsertRow, Goto
    <3>3. row' = [row EXCEPT ![job[j].doc] = [record |-> Record(j), text |-> job[j].text]]
      BY <1>3, <2>2 DEF InsertRow
    <3>4. [record |-> Record(j), text |-> job[j].text] \in Row
      BY <1>0 DEF Record, Row, EvidenceRecord, Job
    <3>5. row' \in Table
      BY <3>3, <3>4 DEF ContentInv, ContentTypes, Table
    <3>6. \A d \in Document : row'[d] # None => blob[d] = "whole"
      BY <2>1, <3>3 DEF ContentInv, ContentTypes, StoredIsWhole, Table
    <3> HIDE DEF new
    <3> QED
      BY <2>1, <3>1, <3>2, <3>5, <3>6, OneChanges DEF ContentInv, ContentTypes
  <2>3. CASE row[job[j].doc] # None
    BY <1>3, <2>1, <2>3, EndingKeepsContent DEF InsertRow
  <2> QED
    BY <2>2, <2>3
<1>4. CASE InsertTextMap(j)
  BY <1>4 DEF InsertTextMap, ContentInv, ContentTypes, StoredIsWhole, Sound
<1>5. CASE InsertRun(j)
  <2> DEFINE new == [Idle EXCEPT !.pc = "ready", !.used = job[j].used, !.png = job[j].png]
  <2>1. job' = [job EXCEPT ![j] = new] /\ UNCHANGED <<blob, row>>
    BY <1>5 DEF InsertRun
  <2>2. new \in Job /\ new.pc = "ready"
    BY <1>0, IdleIsSound DEF Job, Pc
  <2>3. Sound(new, blob)
    BY <2>2 DEF Sound
  <2> HIDE DEF new
  <2> QED
    BY <2>1, <2>2, <2>3, OneChanges DEF ContentInv, ContentTypes, StoredIsWhole
<1> QED
  BY <1>1, <1>2, <1>3, <1>4, <1>5

LEMMA ScanKeepsContent ==
    ASSUME ContentInv, NEW j \in Opener, ScanAll(j)
    PROVE  ContentInv'
<1>0. job[j] \in Job /\ job[j].doc \in Document /\ Sound(job[j], blob)
  BY DEF ContentInv, ContentTypes, Job
<1>1. ASSUME NEW r \in RuleVersion, BeginScan(j, r) PROVE ContentInv'
  <2> DEFINE found == {d \in Document : row[d] # None /\ row[d].text # {}}
             new == [Idle EXCEPT !.pc = "next", !.rules = r, !.todo = found, !.seen = row]
  <2>1. job' = [job EXCEPT ![j] = new] /\ UNCHANGED <<blob, row>>
    BY <1>1 DEF BeginScan, stored
  <2>2. row \in Table /\ found \in SUBSET Document
    BY DEF ContentInv, ContentTypes
  <2>3. /\ new \in Job /\ new.pc = "next" /\ new.todo = found /\ new.seen = row
    BY <2>2, IdleIsSound DEF Job, Pc
  <2>4. \A d \in found : row[d] # None /\ blob[d] = "whole"
    BY DEF ContentInv, StoredIsWhole
  <2>5. Sound(new, blob)
    BY <2>2, <2>3, <2>4 DEF Sound
  <2> HIDE DEF new
  <2> QED
    BY <2>1, <2>3, <2>5, OneChanges DEF ContentInv, ContentTypes, StoredIsWhole
<1>2. CASE AnnotateFile(j)
  <2> DEFINE d == NextRecord(j)
             new == [job[j] EXCEPT !.pc = "update", !.doc = d]
  <2>1. job[j].pc = "next" /\ job[j].todo # {} /\ UNCHANGED <<blob, row>>
    BY <1>2 DEF AnnotateFile, At
  <2>2. d \in job[j].todo
    BY <2>1 DEF NextRecord
  <2>3. d \in Document
    BY <1>0, <2>2 DEF Job
  <2> HIDE DEF d
  <2>4. job' = [job EXCEPT ![j] = new]
    BY <1>2 DEF AnnotateFile, d, ContentInv, ContentTypes, Job
  <2>5. new \in Job /\ new.pc = "update" /\ new.doc = d /\ new.todo = job[j].todo /\ new.seen = job[j].seen
    BY <1>0, <2>3 DEF Job, Pc
  <2>6. Sound(new, blob)
    BY <1>0, <2>1, <2>2, <2>5 DEF Sound
  <2> HIDE DEF new
  <2> QED
    BY <2>1, <2>4, <2>5, <2>6, OneChanges DEF ContentInv, ContentTypes, StoredIsWhole
<1>3. CASE AnnotateRow(j)
  <2> DEFINE d == job[j].doc
             new == [job[j] EXCEPT !.pc = "finding"]
             written == [record |-> Annotated(j, d), text |-> job[j].seen[d].text]
  <2>1. /\ job[j].pc = "update" /\ UNCHANGED blob
        /\ row' = [row EXCEPT ![d] = written]
        /\ job' = [job EXCEPT ![j] = new]
    BY <1>3 DEF AnnotateRow, At, Goto
  <2>2. /\ job[j].seen \in Table /\ job[j].seen[d] # None /\ blob[d] = "whole"
        /\ d \in job[j].todo
    BY <1>0, <2>1 DEF Sound
  <2>3. job[j].seen[d] \in Row
    BY <1>0, <2>2 DEF Table
  <2>4. written \in Row
    BY <1>0, <2>3 DEF Annotated, Row, EvidenceRecord, Job
  <2> HIDE DEF written
  <2>5. row' \in Table
    BY <1>0, <2>1, <2>4 DEF ContentInv, ContentTypes, Table
  <2>6. \A e \in Document : row'[e] # None => blob[e] = "whole"
    BY <1>0, <2>1, <2>2 DEF ContentInv, ContentTypes, StoredIsWhole, Table
  <2>7. new \in Job /\ Sound(new, blob)
    BY <1>0, <2>1 DEF Sound, Job, Pc
  <2> HIDE DEF new
  <2> QED
    BY <2>1, <2>5, <2>6, <2>7, OneChanges DEF ContentInv, ContentTypes
<1>4. CASE InsertFinding(j)
  <2>1. Goto(j, "alert") /\ job[j].pc = "finding" /\ UNCHANGED <<blob, row>>
    BY <1>4 DEF InsertFinding, At
  <2>2. Sound([job[j] EXCEPT !.pc = "alert"], blob)
    BY <1>0, <2>1 DEF Sound, Job
  <2> QED
    BY <2>1, <2>2, GoingKeepsContent DEF Pc
<1>5. CASE InsertAlert(j)
  <2> DEFINE new == [job[j] EXCEPT !.pc = "next", !.todo = @ \ {job[j].doc}]
  <2>1. /\ job[j].pc = "alert" /\ UNCHANGED <<blob, row>>
        /\ job' = [job EXCEPT ![j] = new]
    BY <1>5 DEF InsertAlert, At, ContentInv, ContentTypes, Job
  <2>2. /\ new \in Job /\ new.pc = "next" /\ new.seen = job[j].seen
        /\ new.todo = job[j].todo \ {job[j].doc}
    BY <1>0 DEF Job, Pc
  <2>3. Sound(new, blob)
    BY <1>0, <2>1, <2>2 DEF Sound
  <2> HIDE DEF new
  <2> QED
    BY <2>1, <2>2, <2>3, OneChanges DEF ContentInv, ContentTypes, StoredIsWhole
<1>6. CASE EndScan(j)
  BY <1>6, EndingKeepsContent DEF EndScan, stored
<1> QED
  BY <1>1, <1>2, <1>3, <1>4, <1>5, <1>6 DEF ScanAll

LEMMA BeginKeepsContent ==
    ASSUME ContentInv, NEW j \in Opener, NEW d \in Document, NEW ocr \in BOOLEAN,
           BeginIngest(j, d, ocr)
    PROVE  ContentInv'
<1> DEFINE new == [job[j] EXCEPT !.pc = "persist", !.doc = d, !.ocr = ocr, !.used = job[j].used + 1]
<1>0. job[j] \in Job
  BY DEF ContentInv, ContentTypes
<1>1. job' = [job EXCEPT ![j] = new] /\ UNCHANGED <<blob, row>>
  BY DEF BeginIngest, stored
<1>2. new \in Job /\ new.pc = "persist"
  <2> DEFINE n == job[j].used + 1
  <2>1. n \in Nat
    BY <1>0 DEF Job
  <2> HIDE DEF n
  <2>2. [job[j] EXCEPT !.pc = "persist", !.doc = d, !.ocr = ocr, !.used = n] \in Job
    BY <1>0, <2>1, Zenon DEF Job, Pc
  <2>3. new.pc = "persist"
    BY <1>0 DEF Job
  <2> QED
    BY <2>2, <2>3 DEF n
<1>3. Sound(new, blob)
  BY <1>2 DEF Sound
<1> HIDE DEF new
<1> QED
  BY <1>1, <1>2, <1>3, OneChanges DEF ContentInv, ContentTypes, StoredIsWhole

LEMMA NextKeepsContent ==
    ASSUME ContentInv, Next
    PROVE  ContentInv'
<1> PICK j \in Opener : Open(j) \/ Ingest(j) \/ ScanAll(j) \/ Finish(j) \/ Crash(j)
  BY DEF Next
<1>1. CASE Open(j)
  BY <1>1 DEF Open, stored, ContentInv, ContentTypes, StoredIsWhole, Sound
<1>2. CASE Ingest(j)
  <2>1. CASE BudgetExceeded(j)
    BY <2>1, EndingKeepsContent DEF BudgetExceeded, stored
  <2> QED
    BY <1>2, <2>1, BeginKeepsContent, PersistKeepsContent, ExtractKeepsContent, RecordKeepsContent
    DEF Ingest
<1>3. CASE ScanAll(j)
  BY <1>3, ScanKeepsContent
<1>4. CASE Finish(j) \/ Crash(j)
  BY <1>4, EndingKeepsContent DEF Finish, Crash, stored
<1> QED
  BY <1>1, <1>2, <1>3, <1>4

\* `pnull verify` succeeds for every stored record: its content file is whole,
\* whatever crashed while writing it and however ingests of the same bytes and
\* scans interleaved (lib.rs 383-410, core lib.rs 566-579).
THEOREM StoredVerifies == Spec => []StoredIsWhole
<1>1. Init => ContentInv
  BY ContentInit
<1>2. ContentInv /\ [Next]_vars => ContentInv'
  BY NextKeepsContent DEF vars, stored, ContentInv, ContentTypes, StoredIsWhole, Sound
<1>3. ContentInv => StoredIsWhole
  BY DEF ContentInv
<1> QED
  BY <1>1, <1>2, <1>3, PTL DEF Spec

(***************************************************************************)
(* The texts of what is stored.                                            *)
(***************************************************************************)

\* What a command extracted is its document's, and so is what a scan has read
\* of every document.
OwnText(command) ==
    /\ command.pc \in {"exists", "file", "row", "maps"} =>
         /\ command.text \subseteq PagesOf(command.doc)
         /\ \A m \in command.maps : m.words \subseteq PagesOf(command.doc)
    /\ command.pc \in {"next", "update", "finding", "alert"} =>
         \A d \in Document : command.seen[d] # None =>
             command.seen[d].text \subseteq PagesOf(d)

TextInv ==
    /\ TextIsItsDocuments
    /\ \A j \in Opener : OwnText(job[j])

LEMMA TextInit == Init => TextInv
  BY DEF Init, TextInv, TextIsItsDocuments, OwnText, Idle

\* One command changes.
LEMMA OneTexts ==
    ASSUME ContentInv, TextInv, NEW j \in Opener, NEW command,
           job' = [job EXCEPT ![j] = command], OwnText(command), TextIsItsDocuments'
    PROVE  TextInv'
<1>1. ASSUME NEW p \in Opener PROVE OwnText(job'[p])
  BY <1>1 DEF TextInv, ContentInv, ContentTypes
<1> QED
  BY <1>1 DEF TextInv, OwnText

\* A command ends, or begins something else.
LEMMA BeginningKeepsTexts ==
    ASSUME ContentInv, TextInv, NEW j \in Opener, NEW command,
           job' = [job EXCEPT ![j] = command], UNCHANGED <<row, maps>>,
           command.pc \in {"idle", "ready", "persist", "fill", "extract"}
    PROVE  TextInv'
<1>1. OwnText(command)
  BY DEF OwnText
<1>2. TextIsItsDocuments'
  BY DEF TextInv, TextIsItsDocuments
<1> QED
  BY <1>1, <1>2, OneTexts

LEMMA EndingKeepsTexts ==
    ASSUME ContentInv, TextInv, NEW j \in Opener, Ends(j), UNCHANGED <<row, maps>>
    PROVE  TextInv'
<1>1. Idle.pc = "idle"
  BY DEF Idle
<1> QED
  BY <1>1, BeginningKeepsTexts DEF Ends

\* The command goes on with the same memory.
LEMMA GoingKeepsTexts ==
    ASSUME ContentInv, TextInv, NEW j \in Opener, NEW pc, Goto(j, pc),
           TextIsItsDocuments', OwnText([job[j] EXCEPT !.pc = pc])
    PROVE  TextInv'
  BY OneTexts DEF Goto

LEMMA PersistKeepsTexts ==
    ASSUME ContentInv, TextInv, NEW j \in Opener,
           PersistCreate(j) \/ PersistFill(j) \/ PersistVerify(j)
    PROVE  TextInv'
<1>1. ASSUME NEW pc \in {"fill", "extract"}, Goto(j, pc), UNCHANGED <<row, maps>>
      PROVE  TextInv'
  <2> DEFINE new == [job[j] EXCEPT !.pc = pc]
  <2>1. job' = [job EXCEPT ![j] = new]
    BY <1>1 DEF Goto
  <2>2. new.pc = pc
    BY DEF ContentInv, ContentTypes, Job
  <2> HIDE DEF new
  <2> QED
    BY <1>1, <2>1, <2>2, BeginningKeepsTexts
<1> QED
  BY <1>1, EndingKeepsTexts DEF PersistCreate, PersistFill, PersistVerify, stored

\* Whatever images are left over, page 1 of a rendered document is its own.
LEMMA OcrIsItsDocuments ==
    ASSUME ContentInv, NEW j \in Opener
    PROVE  LET png == Rendered(j) IN
           /\ OcrText(png) \subseteq PagesOf(job[j].doc)
           /\ \A p \in DOMAIN png : OcrWords(png, p) \subseteq PagesOf(job[j].doc)
<1> DEFINE d == job[j].doc
           png == Rendered(j)
<1>1. d \in Document /\ Pages[d] \in Nat /\ 1 <= Pages[d] /\ 1 \in 1..Pages[d]
  <2>1. d \in Document
    BY DEF ContentInv, ContentTypes, Job
  <2> QED
    BY <2>1, DocumentAssumption
<1>2. png[1] = d
  BY <1>1 DEF Rendered
<1>3. <<d, 1>> \in PagesOf(d)
  BY <1>1 DEF PagesOf
<1> HIDE DEF png, d
<1>4. \A p \in DOMAIN png : OcrWords(png, p) \subseteq PagesOf(d)
  BY <1>2, <1>3 DEF OcrWords, RowsKept
<1>5. OcrText(png) \subseteq PagesOf(d)
  BY <1>4 DEF OcrText
<1> QED
  BY <1>4, <1>5 DEF png, d

LEMMA ExtractKeepsTexts ==
    ASSUME ContentInv, TextInv, NEW j \in Opener,
           ExtractText(j) \/ ExtractOcr(j) \/ ExtractFails(j)
    PROVE  TextInv'
<1>1. ASSUME NEW status, NEW text, NEW artifacts, NEW png,
             Extracted(j, status, text, artifacts, png),
             text \subseteq PagesOf(job[j].doc),
             \A m \in artifacts : m.words \subseteq PagesOf(job[j].doc),
             UNCHANGED <<row, maps>>
      PROVE  TextInv'
  <2> DEFINE new == [job[j] EXCEPT !.pc = "exists", !.status = status, !.text = text,
                                   !.maps = artifacts, !.png = png]
  <2>1. job' = [job EXCEPT ![j] = new]
    BY <1>1 DEF Extracted
  <2>2. /\ new.pc = "exists" /\ new.doc = job[j].doc
        /\ new.text = text /\ new.maps = artifacts
    BY DEF ContentInv, ContentTypes, Job
  <2>3. OwnText(new)
    BY <1>1, <2>2 DEF OwnText
  <2>4. TextIsItsDocuments'
    BY <1>1 DEF TextInv, TextIsItsDocuments
  <2> HIDE DEF new
  <2> QED
    BY <2>1, <2>3, <2>4, OneTexts
<1>2. CASE ExtractText(j)
  <2>1. \A m \in TextMaps(job[j].doc) : m.words \subseteq PagesOf(job[j].doc)
    BY DEF TextMaps, PagesOf
  <2> QED
    BY <1>1, <1>2, <2>1 DEF ExtractText, stored
<1>3. CASE ExtractOcr(j)
  <2> DEFINE png == Rendered(j)
             pages == {[page |-> p, words |-> OcrWords(png, p)] : p \in DOMAIN png}
  <2>1. Extracted(j, "CompleteWithOcr", OcrText(png), pages, png)
    BY <1>3 DEF ExtractOcr
  <2>2. \A p \in DOMAIN png : OcrWords(png, p) \subseteq PagesOf(job[j].doc)
    BY OcrIsItsDocuments
  <2>3. OcrText(png) \subseteq PagesOf(job[j].doc)
    BY OcrIsItsDocuments
  <2>4. \A m \in pages : m.words \subseteq PagesOf(job[j].doc)
    BY <2>2
  <2>5. UNCHANGED <<row, maps>>
    BY <1>3 DEF ExtractOcr, stored
  <2> HIDE DEF pages, png
  <2> QED
    BY <1>1, <2>1, <2>3, <2>4, <2>5
<1>4. CASE ExtractFails(j)
  BY <1>1, <1>4 DEF ExtractFails, stored
<1> QED
  BY <1>2, <1>3, <1>4

LEMMA RecordKeepsTexts ==
    ASSUME ContentInv, TextInv, NEW j \in Opener,
           LookForRow(j) \/ WriteRecord(j) \/ InsertRow(j) \/ InsertTextMap(j) \/ InsertRun(j)
    PROVE  TextInv'
<1>0. job[j] \in Job /\ job[j].doc \in Document /\ OwnText(job[j])
  BY DEF ContentInv, ContentTypes, TextInv, Job
\* From looking for the row to the maps the command keeps its text.
<1>1. ASSUME NEW pc \in {"file", "row", "maps"}, job[j].pc \in {"exists", "file", "row"}
      PROVE  OwnText([job[j] EXCEPT !.pc = pc])
  BY <1>0, <1>1 DEF OwnText, Job
<1>2. CASE LookForRow(j)
  <2> DEFINE pc == IF row[job[j].doc] = None THEN "file" ELSE "maps"
  <2>1. Goto(j, pc) /\ job[j].pc = "exists" /\ UNCHANGED <<row, maps>>
    BY <1>2 DEF LookForRow, At, stored
  <2>2. pc \in {"file", "maps"}
    OBVIOUS
  <2>3. TextIsItsDocuments'
    BY <2>1 DEF TextInv, TextIsItsDocuments
  <2> HIDE DEF pc
  <2> QED
    BY <1>1, <2>1, <2>2, <2>3, GoingKeepsTexts
<1>3. CASE WriteRecord(j)
  <2>1. Goto(j, "row") /\ job[j].pc = "file" /\ UNCHANGED <<row, maps>>
    BY <1>3 DEF WriteRecord, At
  <2>2. TextIsItsDocuments'
    BY <2>1 DEF TextInv, TextIsItsDocuments
  <2> QED
    BY <1>1, <2>1, <2>2, GoingKeepsTexts
<1>4. CASE InsertRow(j)
  <2>1. CASE row[job[j].doc] = None
    <3>1. /\ Goto(j, "maps") /\ job[j].pc = "row" /\ UNCHANGED maps
          /\ row' = [row EXCEPT ![job[j].doc] = [record |-> Record(j), text |-> job[j].text]]
      BY <1>4, <2>1 DEF InsertRow, At
    <3>2. job[j].text \subseteq PagesOf(job[j].doc)
      BY <1>0, <3>1 DEF OwnText
    <3>3. TextIsItsDocuments'
      BY <1>0, <3>1, <3>2 DEF TextInv, TextIsItsDocuments, ContentInv, ContentTypes, Table
    <3> QED
      BY <1>1, <3>1, <3>3, GoingKeepsTexts
  <2>2. CASE row[job[j].doc] # None
    BY <1>4, <2>2, EndingKeepsTexts DEF InsertRow
  <2> QED
    BY <2>1, <2>2
<1>5. CASE InsertTextMap(j)
  <2>1. /\ job[j].pc = "maps" /\ UNCHANGED <<row, job>>
        /\ \E m \in job[j].maps : maps' = maps \cup {MapRow(j, m)}
    BY <1>5 DEF InsertTextMap, At, MapsLeft
  <2>2. TextIsItsDocuments'
    BY <1>0, <2>1 DEF TextInv, TextIsItsDocuments, OwnText, MapRow
  <2> QED
    BY <2>1, <2>2 DEF TextInv, OwnText
<1>6. CASE InsertRun(j)
  <2> DEFINE new == [Idle EXCEPT !.pc = "ready", !.used = job[j].used, !.png = job[j].png]
  <2>1. job' = [job EXCEPT ![j] = new] /\ UNCHANGED <<row, maps>>
    BY <1>6 DEF InsertRun
  <2>2. new.pc = "ready"
    BY DEF Idle
  <2> HIDE DEF new
  <2> QED
    BY <2>1, <2>2, BeginningKeepsTexts
<1> QED
  BY <1>2, <1>3, <1>4, <1>5, <1>6

LEMMA ScanKeepsTexts ==
    ASSUME ContentInv, TextInv, NEW j \in Opener, ScanAll(j)
    PROVE  TextInv'
<1>0. job[j] \in Job /\ job[j].doc \in Document /\ OwnText(job[j]) /\ Sound(job[j], blob)
  BY DEF ContentInv, ContentTypes, TextInv, Job
<1>k. ASSUME UNCHANGED <<row, maps>> PROVE TextIsItsDocuments'
  BY <1>k DEF TextInv, TextIsItsDocuments
\* What the scan has read it keeps to its end.
<1>s. ASSUME NEW new, job' = [job EXCEPT ![j] = new], TextIsItsDocuments',
             job[j].pc \in {"next", "update", "finding", "alert"},
             new.pc \in {"next", "update", "finding", "alert"}, new.seen = job[j].seen
      PROVE  TextInv'
  <2>1. OwnText(new)
    BY <1>0, <1>s DEF OwnText
  <2> QED
    BY <1>s, <2>1, OneTexts
<1>1. ASSUME NEW r \in RuleVersion, BeginScan(j, r) PROVE TextInv'
  <2> DEFINE found == {d \in Document : row[d] # None /\ row[d].text # {}}
             new == [Idle EXCEPT !.pc = "next", !.rules = r, !.todo = found, !.seen = row]
  <2>1. job' = [job EXCEPT ![j] = new] /\ UNCHANGED <<row, maps>>
    BY <1>1 DEF BeginScan, stored
  <2>2. new.pc = "next" /\ new.seen = row
    BY DEF Idle
  <2>3. OwnText(new)
    BY <2>2 DEF OwnText, TextInv, TextIsItsDocuments
  <2> HIDE DEF new
  <2> QED
    BY <1>k, <2>1, <2>3, OneTexts
<1>2. CASE AnnotateFile(j)
  <2> DEFINE d == NextRecord(j)
             new == [job[j] EXCEPT !.pc = "update", !.doc = d]
  <2> HIDE DEF d
  <2>1. /\ job' = [job EXCEPT ![j] = new]
        /\ job[j].pc = "next" /\ UNCHANGED <<row, maps>>
    BY <1>2 DEF AnnotateFile, At, d, ContentInv, ContentTypes, Job
  <2>2. new.pc = "update" /\ new.seen = job[j].seen
    BY <1>0 DEF Job
  <2> HIDE DEF new
  <2> QED
    BY <1>k, <1>s, <2>1, <2>2
<1>3. CASE AnnotateRow(j)
  <2> DEFINE d == job[j].doc
             new == [job[j] EXCEPT !.pc = "finding"]
             written == [record |-> Annotated(j, d), text |-> job[j].seen[d].text]
  <2>1. /\ job[j].pc = "update" /\ UNCHANGED maps
        /\ row' = [row EXCEPT ![d] = written]
        /\ job' = [job EXCEPT ![j] = new]
    BY <1>3 DEF AnnotateRow, At, Goto
  <2>2. new.pc = "finding" /\ new.seen = job[j].seen
    BY <1>0 DEF Job
  <2>3. job[j].seen[d] # None
    BY <1>0, <2>1 DEF Sound
  <2>4. written.text \subseteq PagesOf(d)
    BY <1>0, <2>1, <2>3 DEF OwnText
  <2> HIDE DEF new, written, d
  <2>5. TextIsItsDocuments'
    BY <2>1, <2>4 DEF TextInv, TextIsItsDocuments, ContentInv, ContentTypes, Table
  <2> QED
    BY <1>s, <2>1, <2>2, <2>5
<1>4. CASE InsertFinding(j)
  <2> DEFINE new == [job[j] EXCEPT !.pc = "alert"]
  <2>1. /\ job[j].pc = "finding" /\ UNCHANGED <<row, maps>>
        /\ job' = [job EXCEPT ![j] = new]
    BY <1>4 DEF InsertFinding, At, Goto
  <2>2. new.pc = "alert" /\ new.seen = job[j].seen
    BY <1>0 DEF Job
  <2> HIDE DEF new
  <2> QED
    BY <1>k, <1>s, <2>1, <2>2
<1>5. CASE InsertAlert(j)
  <2> DEFINE new == [job[j] EXCEPT !.pc = "next", !.todo = @ \ {job[j].doc}]
  <2>1. /\ job[j].pc = "alert" /\ UNCHANGED <<row, maps>>
        /\ job' = [job EXCEPT ![j] = new]
    BY <1>5 DEF InsertAlert, At, ContentInv, ContentTypes, Job
  <2>2. new.pc = "next" /\ new.seen = job[j].seen
    BY <1>0 DEF Job
  <2> HIDE DEF new
  <2> QED
    BY <1>k, <1>s, <2>1, <2>2
<1>6. CASE EndScan(j)
  BY <1>6, EndingKeepsTexts DEF EndScan, stored
<1> QED
  BY <1>1, <1>2, <1>3, <1>4, <1>5, <1>6 DEF ScanAll

LEMMA NextKeepsTexts ==
    ASSUME ContentInv, TextInv, Next
    PROVE  TextInv'
<1> PICK j \in Opener : Open(j) \/ Ingest(j) \/ ScanAll(j) \/ Finish(j) \/ Crash(j)
  BY DEF Next
<1>1. CASE Open(j)
  BY <1>1 DEF Open, stored, TextInv, TextIsItsDocuments, OwnText
<1>2. CASE Ingest(j)
  <2>1. CASE BudgetExceeded(j)
    BY <2>1, EndingKeepsTexts DEF BudgetExceeded, stored
  <2>2. ASSUME NEW d \in Document, NEW ocr \in BOOLEAN, BeginIngest(j, d, ocr)
        PROVE  TextInv'
    <3> DEFINE new == [job[j] EXCEPT !.pc = "persist", !.doc = d, !.ocr = ocr,
                                     !.used = job[j].used + 1]
    <3>1. job' = [job EXCEPT ![j] = new] /\ UNCHANGED <<row, maps>>
      BY <2>2 DEF BeginIngest, stored
    <3>2. new.pc = "persist"
      BY DEF ContentInv, ContentTypes, Job
    <3> HIDE DEF new
    <3> QED
      BY <3>1, <3>2, BeginningKeepsTexts
  <2> QED
    BY <1>2, <2>1, <2>2, PersistKeepsTexts, ExtractKeepsTexts, RecordKeepsTexts DEF Ingest
<1>3. CASE ScanAll(j)
  BY <1>3, ScanKeepsTexts
<1>4. CASE Finish(j) \/ Crash(j)
  BY <1>4, EndingKeepsTexts DEF Finish, Crash, stored
<1> QED
  BY <1>1, <1>2, <1>3, <1>4

LEMMA ContentIsInvariant == Spec => []ContentInv
<1>1. ContentInv /\ [Next]_vars => ContentInv'
  BY NextKeepsContent DEF vars, stored, ContentInv, ContentTypes, StoredIsWhole, Sound
<1> QED
  BY <1>1, ContentInit, PTL DEF Spec

\* The text and the maps stored for a document are its own, whatever page images
\* of earlier documents the command's directory holds and however scans rewrite
\* rows (ingest lib.rs 848-900, geometry lib.rs 262-264).
THEOREM TextsAreTheirDocuments == Spec => []TextIsItsDocuments
<1>1. ContentInv /\ TextInv /\ [Next]_vars => TextInv'
  <2>1. ASSUME TextInv, UNCHANGED vars PROVE TextInv'
    BY <2>1 DEF vars, stored, TextInv, TextIsItsDocuments, OwnText
  <2> QED
    BY <2>1, NextKeepsTexts
<1>2. TextInv => TextIsItsDocuments
  BY DEF TextInv
<1> QED
  BY <1>1, <1>2, TextInit, ContentIsInvariant, PTL DEF Spec
(***************************************************************************)
(* Record files and rows.                                                  *)
(***************************************************************************)

\* How far the one command at an undisturbed record has come.
Matches(d) == IF row[d] = None THEN file[d] = None ELSE file[d] = row[d].record
Between(j, d) ==
    /\ job[j].pc = "file" => row[d] = None /\ file[d] = None
    /\ job[j].pc = "row" => row[d] = None /\ file[d] = Record(j)
    /\ job[j].pc = "update" => file[d] = Annotated(j, d)

Undisturbed(d) ==
    /\ \A i, j \in Opener : InRecord(i, d) /\ InRecord(j, d) => i = j
    /\ (\A j \in Opener : ~InRecord(j, d)) => Matches(d)
    /\ \A j \in Opener : InRecord(j, d) => Between(j, d)

RecordInv ==
    /\ file \in [Document -> EvidenceRecord \cup {None}]
    /\ \A d \in Document \ disturbed : Undisturbed(d)

LEMMA RecordInit == Init => RecordInv
  BY DEF Init, RecordInv, Undisturbed, Matches, InRecord, Idle, EvidenceRecord

\* A command that is not at d's record and does not come to it.
LEMMA PassingBy ==
    ASSUME ContentInv, NEW j \in Opener, NEW command, job' = [job EXCEPT ![j] = command],
           NEW d \in Document, Undisturbed(d), ~InRecord(j, d),
           command.doc = d => command.pc \notin {"file", "row", "update"},
           file'[d] = file[d], row'[d] = row[d]
    PROVE  Undisturbed(d)'
<1>1. ~InRecord(j, d)'
  BY DEF InRecord, ContentInv, ContentTypes
<1>2. \A q \in Opener : q # j => job'[q] = job[q]
  BY DEF ContentInv, ContentTypes
<1>3. \A q \in Opener : InRecord(q, d)' => job'[q] = job[q] /\ InRecord(q, d)
  BY <1>1, <1>2 DEF InRecord
<1>4. \A q \in Opener : InRecord(q, d) => InRecord(q, d)'
  BY <1>2 DEF InRecord
<1>5. Matches(d)' <=> Matches(d)
  BY DEF Matches
<1>6. ASSUME NEW q \in Opener, InRecord(q, d)' PROVE Between(q, d)'
  BY <1>3, <1>6 DEF Undisturbed, Between, Record, Annotated
<1> QED
  BY <1>3, <1>4, <1>5, <1>6 DEF Undisturbed

\* The one command at d's record, or just gone from it.
LEMMA Alone ==
    ASSUME NEW j \in Opener, NEW d \in Document,
           \A q \in Opener : q # j => ~InRecord(q, d)',
           InRecord(j, d)' => Between(j, d)', ~InRecord(j, d)' => Matches(d)'
    PROVE  Undisturbed(d)'
  BY DEF Undisturbed

\* While d is undisturbed, nobody else is at a record that a command is at.
LEMMA OthersAway ==
    ASSUME ContentInv, NEW j \in Opener, NEW command, job' = [job EXCEPT ![j] = command],
           NEW d \in Document, Undisturbed(d), InRecord(j, d)
    PROVE  \A q \in Opener : q # j => ~InRecord(q, d)'
  BY DEF Undisturbed, InRecord, ContentInv, ContentTypes

\* A command that comes to d's record undisturbed is alone there.
LEMMA ComingAlone ==
    ASSUME ContentInv, NEW j \in Opener, NEW command, job' = [job EXCEPT ![j] = command],
           NEW d \in Document, Undisturbed(d), ~InRecord(j, d), InRecord(j, d)',
           NoteOverlap, d \notin disturbed'
    PROVE  (\A q \in Opener : q # j => ~InRecord(q, d)') /\ Matches(d)
<1>1. ASSUME NEW q \in Opener, q # j PROVE ~InRecord(q, d)'
  BY <1>1 DEF NoteOverlap
<1>2. \A q \in Opener : q # j => job'[q] = job[q]
  BY DEF ContentInv, ContentTypes
<1>3. \A q \in Opener : ~InRecord(q, d)
  BY <1>1, <1>2 DEF InRecord
<1> QED
  BY <1>1, <1>3 DEF Undisturbed

LEMMA CommandTypes ==
    ASSUME ContentInv, NEW j \in Opener
    PROVE  /\ job[j] \in Job /\ job[j].doc \in Document
           /\ Record(j) \in EvidenceRecord
           /\ \A d \in job[j].todo :
                 job[j].pc \in {"next", "update"} => Annotated(j, d) \in EvidenceRecord
<1>1. job[j] \in Job /\ Sound(job[j], blob)
  BY DEF ContentInv, ContentTypes
<1>2. Record(j) \in EvidenceRecord /\ job[j].doc \in Document
  BY <1>1 DEF Record, EvidenceRecord, Job
<1>3. ASSUME NEW d \in job[j].todo, job[j].pc \in {"next", "update"}
      PROVE  Annotated(j, d) \in EvidenceRecord
  <2>1. /\ d \in Document /\ job[j].seen \in Table /\ job[j].seen[d] # None
        /\ job[j].rules \in RuleVersion \cup {0}
    BY <1>1, <1>3 DEF Sound, Job
  <2>2. job[j].seen[d].record \in EvidenceRecord
    BY <2>1 DEF Table, Row
  <2> QED
    BY <2>1, <2>2 DEF Annotated, EvidenceRecord
<1> QED
  BY <1>1, <1>2, <1>3

\* Steps at no record: the files, the rows and the records commands are at stay.
LEMMA ElsewhereKeepsRecords ==
    ASSUME ContentInv, RecordInv, NEW j \in Opener, NEW command,
           job' = [job EXCEPT ![j] = command], UNCHANGED <<file, row>>,
           job[j].pc \notin {"file", "row", "update"},
           command.pc \notin {"file", "row", "update"}, disturbed \subseteq disturbed'
    PROVE  RecordInv'
<1>1. \A d \in Document : ~InRecord(j, d)
  BY DEF InRecord
<1>2. ASSUME NEW d \in Document, d \notin disturbed' PROVE Undisturbed(d)'
  <2>1. Undisturbed(d)
    BY <1>2 DEF RecordInv
  <2> QED
    BY <1>1, <2>1, PassingBy
<1> QED
  BY <1>2 DEF RecordInv

LEMMA IngestKeepsRecords ==
    ASSUME ContentInv, RecordInv, NEW j \in Opener, Ingest(j)
    PROVE  RecordInv'
<1>0. job[j] \in Job /\ job[j].doc \in Document /\ Idle.pc = "idle"
  BY DEF ContentInv, ContentTypes, Job, Idle
<1>1. CASE \/ \E d \in Document, ocr \in BOOLEAN : BeginIngest(j, d, ocr)
           \/ BudgetExceeded(j) \/ PersistCreate(j) \/ PersistFill(j) \/ PersistVerify(j)
           \/ ExtractText(j) \/ ExtractOcr(j) \/ ExtractFails(j) \/ InsertRun(j)
  <2>0. UNCHANGED <<file, row, disturbed>> /\ job[j].pc \notin {"file", "row", "update"}
    BY <1>1 DEF BeginIngest, BudgetExceeded, PersistCreate, PersistFill, PersistVerify,
       ExtractText, ExtractOcr, ExtractFails, InsertRun, At, stored
  <2>1. ASSUME NEW command, job' = [job EXCEPT ![j] = command],
               command.pc \notin {"file", "row", "update"}
        PROVE  RecordInv'
    BY <2>0, <2>1, ElsewhereKeepsRecords
  <2>2. ASSUME NEW d \in Document, NEW ocr \in BOOLEAN, BeginIngest(j, d, ocr)
        PROVE  RecordInv'
    <3> DEFINE new == [job[j] EXCEPT !.pc = "persist", !.doc = d, !.ocr = ocr,
                                     !.used = job[j].used + 1]
    <3>1. job' = [job EXCEPT ![j] = new] /\ new.pc = "persist"
      BY <1>0, <2>2 DEF BeginIngest, Job
    <3> HIDE DEF new
    <3> QED
      BY <2>1, <3>1
  <2>3. ASSUME NEW pc \in {"fill", "extract"}, Goto(j, pc) PROVE RecordInv'
    <3> DEFINE new == [job[j] EXCEPT !.pc = pc]
    <3>1. job' = [job EXCEPT ![j] = new] /\ new.pc = pc
      BY <1>0, <2>3 DEF Goto, Job
    <3> HIDE DEF new
    <3> QED
      BY <2>1, <3>1
  <2>4. Ends(j) => RecordInv'
    BY <1>0, <2>1 DEF Ends
  <2>5. ASSUME NEW status, NEW text, NEW artifacts, NEW png,
               Extracted(j, status, text, artifacts, png)
        PROVE  RecordInv'
    <3> DEFINE new == [job[j] EXCEPT !.pc = "exists", !.status = status, !.text = text,
                                     !.maps = artifacts, !.png = png]
    <3>1. job' = [job EXCEPT ![j] = new] /\ new.pc = "exists"
      BY <1>0, <2>5 DEF Extracted, Job
    <3> HIDE DEF new
    <3> QED
      BY <2>1, <3>1
  <2>6. CASE InsertRun(j)
    <3> DEFINE new == [Idle EXCEPT !.pc = "ready", !.used = job[j].used, !.png = job[j].png]
    <3>1. job' = [job EXCEPT ![j] = new] /\ new.pc = "ready"
      BY <2>6 DEF InsertRun, Idle
    <3> HIDE DEF new
    <3> QED
      BY <2>1, <3>1
  <2>7. CASE BudgetExceeded(j) \/ PersistCreate(j) \/ PersistFill(j) \/ PersistVerify(j)
    BY <2>3, <2>4, <2>7 DEF BudgetExceeded, PersistCreate, PersistFill, PersistVerify
  <2>8. CASE ExtractText(j) \/ ExtractOcr(j) \/ ExtractFails(j)
    BY <2>5, <2>8 DEF ExtractText, ExtractOcr, ExtractFails
  <2> QED
    BY <1>1, <2>2, <2>6, <2>7, <2>8
<1>2. CASE InsertTextMap(j)
  <2>1. UNCHANGED <<file, row, job, disturbed>>
    BY <1>2 DEF InsertTextMap
  <2> QED
    BY <2>1 DEF RecordInv, Undisturbed, InRecord, Matches, Between, Record, Annotated
<1>3. CASE LookForRow(j)
  <2> DEFINE pc == IF row[job[j].doc] = None THEN "file" ELSE "maps"
             new == [job[j] EXCEPT !.pc = pc]
  <2>1. /\ job' = [job EXCEPT ![j] = new] /\ new.pc = pc /\ new.doc = job[j].doc
        /\ job[j].pc = "exists" /\ NoteOverlap /\ UNCHANGED <<file, row>>
    BY <1>0, <1>3 DEF LookForRow, At, Goto, Job, stored
  <2>2. job'[j] = new
    BY <2>1 DEF ContentInv, ContentTypes
  <2>3. (pc = "file" /\ row[job[j].doc] = None) \/ pc = "maps"
    OBVIOUS
  <2> HIDE DEF pc, new
  <2>4. ASSUME NEW d \in Document, d \notin disturbed' PROVE Undisturbed(d)'
    <3>1. Undisturbed(d) /\ ~InRecord(j, d)
      BY <2>1, <2>4 DEF RecordInv, NoteOverlap, InRecord
    <3>2. CASE pc = "file" /\ job[j].doc = d
      <4>1. InRecord(j, d)' /\ row[d] = None
        BY <2>1, <2>2, <2>3, <3>2 DEF InRecord
      <4>2. (\A q \in Opener : q # j => ~InRecord(q, d)') /\ Matches(d)
        BY <2>1, <2>4, <3>1, <4>1, ComingAlone
      <4>3. Between(j, d)'
        BY <2>1, <2>2, <3>2, <4>1, <4>2 DEF Between, Matches
      <4> QED
        BY <4>1, <4>2, <4>3, Alone
    <3>3. CASE ~(pc = "file" /\ job[j].doc = d)
      BY <2>1, <2>3, <3>1, <3>3, PassingBy
    <3> QED
      BY <3>2, <3>3
  <2> QED
    BY <2>1, <2>4 DEF RecordInv
<1>4. CASE WriteRecord(j)
  <2> DEFINE new == [job[j] EXCEPT !.pc = "row"]
  <2>1. /\ job' = [job EXCEPT ![j] = new] /\ new.pc = "row" /\ new.doc = job[j].doc
        /\ new.status = job[j].status
        /\ job[j].pc = "file" /\ NoteOverlap /\ UNCHANGED row
        /\ file' = [file EXCEPT ![job[j].doc] = Record(j)]
    BY <1>0, <1>4 DEF WriteRecord, At, Goto, Job
  <2>2. job'[j] = new
    BY <2>1 DEF ContentInv, ContentTypes
  <2> HIDE DEF new
  <2>3. Record(j)' = Record(j)
    BY <2>1, <2>2 DEF Record
  <2>4. ASSUME NEW d \in Document, d \notin disturbed' PROVE Undisturbed(d)'
    <3>1. Undisturbed(d)
      BY <2>1, <2>4 DEF RecordInv, NoteOverlap
    <3>2. CASE job[j].doc = d
      <4>1. InRecord(j, d) /\ InRecord(j, d)'
        BY <2>1, <2>2, <3>2 DEF InRecord
      <4>2. \A q \in Opener : q # j => ~InRecord(q, d)'
        BY <2>1, <3>1, <4>1, OthersAway
      <4>3. row'[d] = None /\ file'[d] = Record(j)
        BY <2>1, <3>1, <3>2, <4>1 DEF Undisturbed, Between, RecordInv
      <4>4. Between(j, d)'
        BY <2>1, <2>2, <2>3, <4>3 DEF Between
      <4> QED
        BY <4>1, <4>2, <4>4, Alone
    <3>3. CASE job[j].doc # d
      <4>1. ~InRecord(j, d) /\ file'[d] = file[d]
        BY <2>1, <3>3 DEF InRecord, RecordInv
      <4> QED
        BY <2>1, <3>1, <3>3, <4>1, PassingBy
    <3> QED
      BY <3>2, <3>3
  <2>5. file' \in [Document -> EvidenceRecord \cup {None}]
    BY <2>1, CommandTypes DEF RecordInv
  <2> QED
    BY <2>4, <2>5 DEF RecordInv
<1>5. CASE InsertRow(j)
  <2>1. job[j].pc = "row" /\ UNCHANGED <<file, disturbed>>
    BY <1>5 DEF InsertRow, At
  <2>2. PICK new : /\ job' = [job EXCEPT ![j] = new] /\ new.pc \in {"maps", "idle"}
                   /\ row[job[j].doc] # None => row' = row
                   /\ row[job[j].doc] = None =>
                        row' = [row EXCEPT ![job[j].doc] =
                                  [record |-> Record(j), text |-> job[j].text]]
    <3>1. CASE row[job[j].doc] = None
      <4> DEFINE new == [job[j] EXCEPT !.pc = "maps"]
      <4>1. job' = [job EXCEPT ![j] = new] /\ new.pc = "maps"
        BY <1>0, <1>5, <3>1 DEF InsertRow, Goto, Job
      <4> HIDE DEF new
      <4> QED
        BY <1>5, <3>1, <4>1 DEF InsertRow
    <3>2. CASE row[job[j].doc] # None
      BY <1>0, <1>5, <3>2 DEF InsertRow, Ends
    <3> QED
      BY <3>1, <3>2
  <2>3. ASSUME NEW d \in Document, d \notin disturbed' PROVE Undisturbed(d)'
    <3>1. Undisturbed(d)
      BY <2>1, <2>3 DEF RecordInv
    <3>2. CASE job[j].doc = d
      <4>1. InRecord(j, d)
        BY <2>1, <3>2 DEF InRecord
      <4>2. \A q \in Opener : q # j => ~InRecord(q, d)'
        BY <2>2, <3>1, <4>1, OthersAway
      <4>3. row[d] = None /\ file[d] = Record(j)
        BY <2>1, <3>1, <4>1 DEF Undisturbed, Between
      <4>4. row'[d] = [record |-> Record(j), text |-> job[j].text]
        BY <2>2, <3>2, <4>3 DEF ContentInv, ContentTypes, Table
      <4>5. row'[d].record = Record(j) /\ row'[d] # None
        BY <4>4 DEF None
      <4>6. Matches(d)'
        BY <2>1, <4>3, <4>5 DEF Matches
      <4>7. ~InRecord(j, d)'
        BY <2>2 DEF InRecord, ContentInv, ContentTypes
      <4> QED
        BY <4>2, <4>6, <4>7, Alone
    <3>3. CASE job[j].doc # d
      <4>1. ~InRecord(j, d) /\ row'[d] = row[d]
        BY <2>2, <3>3 DEF InRecord, ContentInv, ContentTypes, Table
      <4> QED
        BY <2>1, <2>2, <3>1, <4>1, PassingBy
    <3> QED
      BY <3>2, <3>3
  <2> QED
    BY <2>1, <2>3 DEF RecordInv
<1> QED
  BY <1>1, <1>2, <1>3, <1>4, <1>5 DEF Ingest

LEMMA ScanKeepsRecords ==
    ASSUME ContentInv, RecordInv, NEW j \in Opener, ScanAll(j)
    PROVE  RecordInv'
<1>0. /\ job[j] \in Job /\ job[j].doc \in Document /\ Idle.pc = "idle"
      /\ Sound(job[j], blob)
  BY DEF ContentInv, ContentTypes, Job, Idle
<1>1. ASSUME NEW r \in RuleVersion, BeginScan(j, r) PROVE RecordInv'
  <2> DEFINE found == {d \in Document : row[d] # None /\ row[d].text # {}}
             new == [Idle EXCEPT !.pc = "next", !.rules = r, !.todo = found, !.seen = row]
  <2>1. /\ job' = [job EXCEPT ![j] = new] /\ new.pc = "next" /\ job[j].pc = "idle"
        /\ UNCHANGED <<file, row, disturbed>>
    BY <1>1 DEF BeginScan, stored, Idle, At
  <2> HIDE DEF new
  <2> QED
    BY <2>1, ElsewhereKeepsRecords
<1>2. CASE InsertFinding(j)
  <2> DEFINE new == [job[j] EXCEPT !.pc = "alert"]
  <2>1. /\ job' = [job EXCEPT ![j] = new] /\ new.pc = "alert" /\ job[j].pc = "finding"
        /\ UNCHANGED <<file, row, disturbed>>
    BY <1>0, <1>2 DEF InsertFinding, At, Goto, Job
  <2> HIDE DEF new
  <2> QED
    BY <2>1, ElsewhereKeepsRecords
<1>3. CASE InsertAlert(j)
  <2> DEFINE new == [job[j] EXCEPT !.pc = "next", !.todo = @ \ {job[j].doc}]
  <2>1. /\ job' = [job EXCEPT ![j] = new] /\ new.pc = "next" /\ job[j].pc = "alert"
        /\ UNCHANGED <<file, row, disturbed>>
    BY <1>0, <1>3 DEF InsertAlert, At, Job, ContentInv, ContentTypes
  <2> HIDE DEF new
  <2> QED
    BY <2>1, ElsewhereKeepsRecords
<1>4. CASE EndScan(j)
  <2>1. /\ job' = [job EXCEPT ![j] = Idle] /\ job[j].pc = "next"
        /\ UNCHANGED <<file, row, disturbed>>
    BY <1>4 DEF EndScan, Ends, At, stored
  <2> QED
    BY <1>0, <2>1, ElsewhereKeepsRecords
<1>5. CASE AnnotateFile(j)
  <2> DEFINE n == NextRecord(j)
             new == [job[j] EXCEPT !.pc = "update", !.doc = n]
  <2>0. job[j].pc = "next" /\ n \in job[j].todo /\ n \in Document
    BY <1>0, <1>5 DEF AnnotateFile, At, NextRecord, Job
  <2>1. /\ NoteOverlap /\ UNCHANGED row
        /\ file' = [file EXCEPT ![n] = Annotated(j, n)]
    BY <1>5 DEF AnnotateFile
  <2>a. Annotated(j, n) \in EvidenceRecord
    BY <2>0, CommandTypes
  <2>b. job' = [job EXCEPT ![j] = [job[j] EXCEPT !.pc = "update", !.doc = NextRecord(j)]]
    BY <1>5 DEF AnnotateFile, ContentInv, ContentTypes, Job
  <2> HIDE DEF n
  <2>2. /\ job' = [job EXCEPT ![j] = new] /\ new.pc = "update" /\ new.doc = n
        /\ new.seen = job[j].seen /\ new.rules = job[j].rules
    BY <1>0, <2>b DEF Job, n
  <2> HIDE DEF new
  <2>3. job'[j] = new
    BY <2>2 DEF ContentInv, ContentTypes
  <2>4. \A d \in Document : Annotated(j, d)' = Annotated(j, d)
    BY <2>2, <2>3 DEF Annotated
  <2>5. ASSUME NEW d \in Document, d \notin disturbed' PROVE Undisturbed(d)'
    <3>1. Undisturbed(d) /\ ~InRecord(j, d)
      BY <2>0, <2>1, <2>5 DEF RecordInv, NoteOverlap, InRecord
    <3>2. CASE n = d
      <4>1. InRecord(j, d)'
        BY <2>2, <2>3, <3>2 DEF InRecord
      <4>2. \A q \in Opener : q # j => ~InRecord(q, d)'
        BY <2>1, <2>2, <2>5, <3>1, <4>1, ComingAlone
      <4>3. file'[d] = Annotated(j, d)
        BY <2>1, <3>2 DEF RecordInv
      <4>4. Between(j, d)'
        BY <2>2, <2>3, <2>4, <4>3 DEF Between
      <4> QED
        BY <4>1, <4>2, <4>4, Alone
    <3>3. CASE n # d
      <4>1. file'[d] = file[d]
        BY <2>1, <3>3 DEF RecordInv
      <4> QED
        BY <2>1, <2>2, <3>1, <3>3, <4>1, PassingBy
    <3> QED
      BY <3>2, <3>3
  <2>6. file' \in [Document -> EvidenceRecord \cup {None}]
    BY <2>0, <2>1, <2>a DEF RecordInv
  <2> QED
    BY <2>5, <2>6 DEF RecordInv
<1>6. CASE AnnotateRow(j)
  <2> DEFINE n == job[j].doc
             new == [job[j] EXCEPT !.pc = "finding"]
             written == [record |-> Annotated(j, n), text |-> job[j].seen[n].text]
  <2>1. /\ job[j].pc = "update" /\ UNCHANGED <<file, disturbed>>
        /\ row' = [row EXCEPT ![n] = written]
        /\ job' = [job EXCEPT ![j] = new] /\ new.pc = "finding"
    BY <1>0, <1>6 DEF AnnotateRow, At, Goto, Job
  <2>2. written.record = Annotated(j, n) /\ written # None
    BY DEF None
  <2> HIDE DEF new, written
  <2>3. ASSUME NEW d \in Document, d \notin disturbed' PROVE Undisturbed(d)'
    <3>1. Undisturbed(d)
      BY <2>1, <2>3 DEF RecordInv
    <3>2. CASE n = d
      <4>1. InRecord(j, d)
        BY <2>1, <3>2 DEF InRecord
      <4>2. \A q \in Opener : q # j => ~InRecord(q, d)'
        BY <2>1, <3>1, <4>1, OthersAway
      <4>3. file[d] = Annotated(j, d)
        BY <2>1, <3>1, <4>1 DEF Undisturbed, Between
      <4>4. row'[d] = written
        BY <2>1, <3>2 DEF ContentInv, ContentTypes, Table
      <4>5. Matches(d)'
        BY <2>1, <2>2, <3>2, <4>3, <4>4 DEF Matches
      <4>6. ~InRecord(j, d)'
        BY <2>1 DEF InRecord, ContentInv, ContentTypes
      <4> QED
        BY <4>2, <4>5, <4>6, Alone
    <3>3. CASE n # d
      <4>1. ~InRecord(j, d) /\ row'[d] = row[d]
        BY <2>1, <3>3 DEF InRecord, ContentInv, ContentTypes, Table
      <4> QED
        BY <2>1, <3>1, <4>1, PassingBy
    <3> QED
      BY <3>2, <3>3
  <2> QED
    BY <2>1, <2>3 DEF RecordInv
<1> QED
  BY <1>1, <1>2, <1>3, <1>4, <1>5, <1>6 DEF ScanAll

\* A command that stops between the file and the row disturbs the record.
LEMMA CrashKeepsRecords ==
    ASSUME ContentInv, RecordInv, NEW j \in Opener, Crash(j)
    PROVE  RecordInv'
<1>1. /\ job' = [job EXCEPT ![j] = Idle] /\ Idle.pc = "idle" /\ UNCHANGED <<file, row>>
      /\ disturbed' = disturbed \cup
           {d \in Document : job[j].pc \in {"row", "update"} /\ InRecord(j, d)}
  BY DEF Crash, Ends, stored, Idle
<1>2. ASSUME NEW d \in Document, d \notin disturbed' PROVE Undisturbed(d)'
  <2>1. Undisturbed(d)
    BY <1>1, <1>2 DEF RecordInv
  <2>2. CASE InRecord(j, d)
    <3>1. job[j].pc = "file"
      BY <1>1, <1>2, <2>2 DEF InRecord
    <3>2. Matches(d)'
      BY <1>1, <2>1, <2>2, <3>1 DEF Undisturbed, Between, Matches
    <3>3. \A q \in Opener : q # j => ~InRecord(q, d)'
      BY <1>1, <2>1, <2>2, OthersAway
    <3>4. ~InRecord(j, d)'
      BY <1>1 DEF InRecord, ContentInv, ContentTypes
    <3> QED
      BY <3>2, <3>3, <3>4, Alone
  <2>3. CASE ~InRecord(j, d)
    BY <1>1, <2>1, <2>3, PassingBy
  <2> QED
    BY <2>2, <2>3
<1> QED
  BY <1>1, <1>2 DEF RecordInv

LEMMA NextKeepsRecords ==
    ASSUME ContentInv, RecordInv, Next
    PROVE  RecordInv'
<1> PICK j \in Opener : Open(j) \/ Ingest(j) \/ ScanAll(j) \/ Finish(j) \/ Crash(j)
  BY DEF Next
<1>1. CASE Open(j)
  BY <1>1 DEF Open, stored, RecordInv, Undisturbed, InRecord, Matches, Between, Record,
     Annotated
<1>2. CASE Finish(j)
  <2>1. /\ job' = [job EXCEPT ![j] = Idle] /\ Idle.pc = "idle" /\ job[j].pc = "ready"
        /\ UNCHANGED <<file, row, disturbed>>
    BY <1>2 DEF Finish, Ends, At, stored, Idle
  <2> QED
    BY <2>1, ElsewhereKeepsRecords
<1> QED
  BY <1>1, <1>2, IngestKeepsRecords, ScanKeepsRecords, CrashKeepsRecords

\* The JSON file of a record and its row say the same whenever no command is
\* between writing the two, unless one stopped there or two were there at once:
\* insert_evidence and update_evidence_annotations (core lib.rs 332-378).
THEOREM RecordFilesMatchRows == Spec => []RecordFileMatchesRow
<1>1. ContentInv /\ RecordInv /\ [Next]_vars => RecordInv'
  <2>1. ASSUME RecordInv, UNCHANGED vars PROVE RecordInv'
    BY <2>1 DEF vars, stored, RecordInv, Undisturbed, InRecord, Matches, Between, Record,
       Annotated
  <2> QED
    BY <2>1, NextKeepsRecords
<1>2. RecordInv => RecordFileMatchesRow
  BY DEF RecordInv, Undisturbed, Matches, RecordFileMatchesRow
<1> QED
  BY <1>1, <1>2, RecordInit, ContentIsInvariant, PTL DEF Spec
=============================================================================
