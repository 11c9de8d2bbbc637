----------------------------- MODULE CoraLedger -----------------------------
(***************************************************************************)
(* The local ledger of open-records (CORA) requests of one matter, and the *)
(* import of the records an institution supplies: `pnull cora draft`,      *)
(* `cora submit`, `cora response`, the library's gap_resolved and          *)
(* still_unresolved, and `pnull procurement import`; and, since they write *)
(* the same files, `pnull ingest` and `pnull source review capture`.       *)
(*                                                                         *)
(* A request is one row holding the whole list of events.  A transition    *)
(* reads the row, appends an event in memory and writes the row back,      *)
(* outside any transaction; commands are separate processes on one store.  *)
(***************************************************************************)
EXTENDS Naturals, Sequences

CONSTANTS
    Process,     \* processes running commands
    Gaps,        \* gap sets a request is keyed on (the matter is fixed)
    Origin,      \* source URLs or request ids an import declares
    Bytes,       \* contents of supplied files, named by their digest
    None,
    Date,        \* dates an operator can give for a submission
    Offline,     \* OFFLINE_CREATED_AT, which stamps everything else
    MaxEvents    \* bound: events of a request

ASSUME NoneAssumption == None \notin Gaps /\ None \notin Origin \X Bytes /\ None \notin Bytes
ASSUME BoundAssumption == MaxEvents \in Nat

State == {"drafted", "submitted", "response_received", "gap_resolved",
          "still_unresolved"}
Record == Origin \X Bytes         \* a supplied record's id hashes both
BytesOf(r) == r[2]

Event == [state : State, time : Date \cup {Offline}, evidence : Record \cup {None}]
Request == [state : State, events : Seq(Event)]
NoRequest == [state |-> "drafted", events |-> <<>>]
Drafted == [state |-> "drafted", time |-> Offline, evidence |-> None]

Step == {"idle", "register", "read", "write", "create", "fill", "row",
         "blob"}
Command == [pc : Step, gap : Gaps \cup {None}, event : Event, seen : Request,
            record : Record \cup {None}, blob : Bytes \cup {None}]
Idle == [pc |-> "idle", gap |-> None, event |-> Drafted, seen |-> NoRequest,
         record |-> None, blob |-> None]

VARIABLES
    draft,       \* cora_drafts: the row of this matter, by its gap set
    requests,    \* cora_requests: gap set -> Request
    supplied,    \* supplied_records
    content,     \* evidence/sha256/<digest>: none, partial or whole
    proc         \* process -> Command

\* History: the events acknowledged while no other command was about to write
\* the same request, with their positions; and the contents a command was cut
\* short while writing, or two commands handled at a time.
VARIABLES settled, spoiled

history == <<settled, spoiled>>
vars == <<draft, requests, supplied, content, proc, history>>

Init ==
    /\ draft = None
    /\ requests = [g \in Gaps |-> NoRequest]
    /\ supplied = {}
    /\ content = [b \in Bytes |-> "none"]
    /\ proc = [p \in Process |-> Idle]
    /\ settled = [g \in Gaps |-> {}]
    /\ spoiled = {}

At(p, step) == proc[p].pc = step
Become(p, command) == proc' = [proc EXCEPT ![p] = command]
Goto(p, step) == proc' = [proc EXCEPT ![p].pc = step]
Exists(g) == requests[g].events # <<>>

-----------------------------------------------------------------------------
(* cora draft. *)

\* build_draft and insert_cora_draft: a draft's id hashes the matter and a
\* constant time, so the first row stays.
SaveDraft(p, g) ==
    /\ At(p, "idle")
    /\ draft' = IF draft = None THEN g ELSE draft
    /\ Become(p, [Idle EXCEPT !.pc = "register", !.gap = g])
    /\ UNCHANGED <<requests, supplied, content, history>>

\* A mistake: INSERT OR REPLACE.
InsertRequestReplacing(g) ==
    requests' = [requests EXCEPT ![g] = [state |-> "drafted", events |-> <<Drafted>>]]

InsertRequest(g) ==
    requests' = IF Exists(g) THEN requests
                ELSE [requests EXCEPT ![g] =
                         [state |-> "drafted", events |-> <<Drafted>>]]

Register(p) ==
    LET g == proc[p].gap IN
    /\ At(p, "register")
    /\ InsertRequest(g)
    /\ settled' = [settled EXCEPT ![g] = @ \cup {<<1, Drafted>>}]
    /\ Become(p, Idle)
    /\ UNCHANGED <<draft, supplied, content, spoiled>>

-----------------------------------------------------------------------------
(* Transitions. *)

Of(to, time, e) == [state |-> to, time |-> time, evidence |-> e]

\* A mistake: the state not compared.
ReadUnguarded(p, g, event) ==
    /\ Exists(g)
    /\ Len(requests[g].events) < MaxEvents
    /\ Become(p, [Idle EXCEPT !.pc = "write", !.gap = g, !.event = event,
                              !.seen = requests[g]])

\* The first half of transition: read the request, refuse an unknown one and
\* one already in the state asked for.
Read(p, g, event) ==
    /\ Exists(g)
    /\ requests[g].state # event.state
    /\ Len(requests[g].events) < MaxEvents
    /\ Become(p, [Idle EXCEPT !.pc = "write", !.gap = g, !.event = event,
                              !.seen = requests[g]])

Submit(p, g, date) ==
    /\ At(p, "idle")
    /\ Read(p, g, Of("submitted", date, None))
    /\ UNCHANGED <<draft, requests, supplied, content, history>>

\* gap_resolved and still_unresolved: exported, without a command of their own.
Close(p, g, to) ==
    /\ At(p, "idle")
    /\ to \in {"gap_resolved", "still_unresolved"}
    /\ Read(p, g, Of(to, Offline, None))
    /\ UNCHANGED <<draft, requests, supplied, content, history>>

\* A mistake: a response whose evidence nobody looks up.
HasRecordUnchecked(r) == TRUE

\* supplied_record_json(..).is_some()
HasRecord(r) == r \in supplied

ResponseCheck(p, g, r) ==
    /\ At(p, "idle")
    /\ HasRecord(r)
    /\ Become(p, [Idle EXCEPT !.pc = "read", !.gap = g,
                              !.event = Of("response_received", Offline, r)])
    /\ UNCHANGED <<draft, requests, supplied, content, history>>

ResponseRead(p) ==
    /\ At(p, "read")
    /\ Read(p, proc[p].gap, proc[p].event)
    /\ UNCHANGED <<draft, requests, supplied, content, history>>

\* The row is written back whole, as it was read plus the event.
Contended(p) == \E q \in Process \ {p} : At(q, "write") /\ proc[q].gap = proc[p].gap

Write(p) ==
    LET c == proc[p]
        g == c.gap
    IN
    /\ At(p, "write")
    /\ requests' = [requests EXCEPT ![g] =
                       [state |-> c.event.state, events |-> Append(c.seen.events, c.event)]]
    /\ settled' = IF Contended(p) THEN settled
                  ELSE [settled EXCEPT ![g] =
                           @ \cup {<<Len(c.seen.events) + 1, c.event>>}]
    /\ Become(p, Idle)
    /\ UNCHANGED <<draft, supplied, content, spoiled>>

-----------------------------------------------------------------------------
(* procurement import: the bytes first, then the row. *)

Handles(p, b) ==
    \/ proc[p].pc \in {"create", "fill", "row"} /\ BytesOf(proc[p].record) = b
    \/ At(p, "blob") /\ proc[p].blob = b

NoteRace(p, b) ==
    spoiled' = IF \E q \in Process \ {p} : Handles(q, b) THEN spoiled \cup {b} ELSE spoiled

\* A mistake: the file written whether it exists or not.
KeepsFileNever(b) == FALSE

\* content_path.exists()
KeepsFile(b) == content[b] # "none"

\* The declaration and the digest hold, or the command ends here.
ImportCheck(p, r) ==
    LET b == BytesOf(r) IN
    /\ At(p, "idle")
    /\ Become(p, [Idle EXCEPT !.pc = IF KeepsFile(b) THEN "row" ELSE "create",
                              !.record = r])
    /\ NoteRace(p, b)
    /\ UNCHANGED <<draft, requests, supplied, content, settled>>

\* fs::write opens with truncation, then writes.
ImportCreate(p) ==
    /\ At(p, "create")
    /\ content' = [content EXCEPT ![BytesOf(proc[p].record)] = "partial"]
    /\ Goto(p, "fill")
    /\ UNCHANGED <<draft, requests, supplied, history>>

ImportFill(p) ==
    /\ At(p, "fill")
    /\ content' = [content EXCEPT ![BytesOf(proc[p].record)] = "whole"]
    /\ Goto(p, "row")
    /\ UNCHANGED <<draft, requests, supplied, history>>

\* A mistake: the two parts of the id the other way round.
ImportRowSwapped(p) ==
    LET r == proc[p].record IN
    /\ At(p, "row")
    /\ supplied' = supplied \cup {<<r[2], r[1]>>}
    /\ Become(p, Idle)
    /\ UNCHANGED <<draft, requests, content, history>>

ImportRow(p) ==
    /\ At(p, "row")
    /\ supplied' = supplied \cup {proc[p].record}
    /\ Become(p, Idle)
    /\ UNCHANGED <<draft, requests, content, history>>

-----------------------------------------------------------------------------
(* The other writers of evidence/sha256: an import trusts what they leave.   *)

WriteBlob(p, b) ==
    /\ At(p, "idle")
    /\ content' = [content EXCEPT ![b] = "partial"]
    /\ Become(p, [Idle EXCEPT !.pc = "blob", !.blob = b])
    /\ NoteRace(p, b)
    /\ UNCHANGED <<draft, requests, supplied, settled>>

\* persist_content: create_new.  A file that exists is verified, not written.
IngestCreate(p, b) == content[b] = "none" /\ WriteBlob(p, b)

\* source review capture: fs::write truncates the file that exists.
CaptureCreate(p, b) == WriteBlob(p, b)

BlobFill(p) ==
    /\ At(p, "blob")
    /\ content' = [content EXCEPT ![proc[p].blob] = "whole"]
    /\ Become(p, Idle)
    /\ UNCHANGED <<draft, requests, supplied, history>>

-----------------------------------------------------------------------------
\* The command dies, or one of its statements or its file fails; a ResponseRead
\* that is refused ends the same way.
Stop(p) ==
    /\ proc[p].pc # "idle"
    /\ Become(p, Idle)
    /\ spoiled' = spoiled \cup
          {b \in Bytes : Handles(p, b) /\ (At(p, "fill") \/ At(p, "blob"))}
    /\ UNCHANGED <<draft, requests, supplied, content, settled>>

CoraCommand(p) ==
    \/ \E g \in Gaps :
        \/ SaveDraft(p, g)
        \/ \E date \in Date : Submit(p, g, date)
        \/ \E to \in State : Close(p, g, to)
        \/ \E r \in Record : ResponseCheck(p, g, r)
    \/ Register(p)
    \/ ResponseRead(p)
    \/ Write(p)

ImportCommand(p) ==
    \/ \E r \in Record : ImportCheck(p, r)
    \/ ImportCreate(p)
    \/ ImportFill(p)
    \/ ImportRow(p)

OtherWriter(p) ==
    \/ \E b \in Bytes : IngestCreate(p, b) \/ CaptureCreate(p, b)
    \/ BlobFill(p)

Next == \E p \in Process :
    CoraCommand(p) \/ ImportCommand(p) \/ OtherWriter(p) \/ Stop(p)

Spec == Init /\ [][Next]_vars

-----------------------------------------------------------------------------
(* Properties. *)

Position == Nat \X Event

\* Every variable stays in its type: rows hold only requests, events and
\* records the commands can write.
TypeOK ==
    /\ draft \in Gaps \cup {None}
    /\ requests \in [Gaps -> Request]
    /\ supplied \subseteq Record
    /\ content \in [Bytes -> {"none", "partial", "whole"}]
    /\ proc \in [Process -> Command]
    /\ settled \in [Gaps -> SUBSET Position]
    /\ spoiled \subseteq Bytes

WellFormed(request) ==
    LET events == request.events IN
    events # <<>> =>
        /\ events[1] = Drafted
        /\ request.state = events[Len(events)].state
        /\ \A i \in 1..Len(events) - 1 :
              /\ events[i + 1].state # events[i].state
              /\ events[i + 1].state # "drafted"

\* However commands overlap, a stored request is a history: it begins with its
\* draft and never returns to it, no event repeats the state before it, and the
\* state shown is that of the last event.
RequestsAreHistories == \A g \in Gaps : WellFormed(requests[g])

\* An event acknowledged while no other command was between reading and
\* writing the same request stays in the ledger for good, at its position:
\* later transitions and further drafts of the same gap append after it.
AcknowledgedIsKept ==
    \A g \in Gaps : \A e \in settled[g] :
        /\ e[1] \in 1..Len(requests[g].events)
        /\ requests[g].events[e[1]] = e[2]

\* A response in the ledger names a record that was imported, bytes before row,
\* so its digest can be shown in the case file.
ResponsesCiteImports ==
    \A g \in Gaps : \A i \in 1..Len(requests[g].events) :
        LET e == requests[g].events[i] IN
        e.state = "response_received" =>
            e.evidence \in supplied /\ content[BytesOf(e.evidence)] # "none"

\* The file of a supplied record is whole, unless a writer of the same bytes
\* (an import, an ingest or a capture of a robots.txt) was cut short, or two
\* were at them at a time; a capture tears the file anew while it writes.
SuppliedIsWhole ==
    \A r \in supplied : BytesOf(r) \notin spoiled =>
        \/ content[BytesOf(r)] = "whole"
        \/ \E p \in Process : At(p, "blob") /\ proc[p].blob = BytesOf(r)

=============================================================================
