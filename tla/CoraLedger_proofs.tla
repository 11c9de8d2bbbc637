-------------------------- MODULE CoraLedger_proofs --------------------------
(***************************************************************************)
(* Proofs about CoraLedger, for any processes, gap sets, records and       *)
(* number of events: types, that a stored request is a history, that an    *)
(* event acknowledged without contention is kept, that a response cites an *)
(* import, and that the file of an undisturbed import is whole.            *)
(***************************************************************************)
EXTENDS CoraLedger, TLAPS

\* CoraCommand and ImportCommand, one named step per action, for the proofs.
Steps(p) ==
    \/ \E g \in Gaps : SaveDraft(p, g)
    \/ \E g \in Gaps, date \in Date : Submit(p, g, date)
    \/ \E g \in Gaps, to \in State : Close(p, g, to)
    \/ \E g \in Gaps, r \in Record : ResponseCheck(p, g, r)
    \/ Register(p)
    \/ ResponseRead(p)
    \/ Write(p)
    \/ \E r \in Record : ImportCheck(p, r)
    \/ ImportCreate(p)
    \/ ImportFill(p)
    \/ ImportRow(p)
    \/ \E b \in Bytes : IngestCreate(p, b) \/ CaptureCreate(p, b)
    \/ BlobFill(p)
    \/ Stop(p)

\* What a command that holds a gap or a record carries on with.
Carries ==
    \A p \in Process :
        /\ proc[p].pc \in {"register", "read", "write"} => proc[p].gap \in Gaps
        /\ proc[p].pc \in {"create", "fill", "row"} => proc[p].record \in Record
        /\ proc[p].pc = "blob" => proc[p].blob \in Bytes

TypeInv == TypeOK /\ Carries

LEMMA NextIsSteps == Next <=> \E p \in Process : Steps(p)
  BY DEF Next, CoraCommand, ImportCommand, OtherWriter, Steps

LEMMA Constructors ==
    /\ Drafted \in Event
    /\ NoRequest \in Request
    /\ Idle \in Command
    /\ \A to \in State, time \in Date \cup {Offline}, e \in Record \cup {None} :
          Of(to, time, e) \in Event
<1>1. Drafted \in Event
  BY DEF Drafted, Event, State
<1>2. NoRequest \in Request
  BY DEF NoRequest, Request, State
<1>3. Idle \in Command
  BY <1>1, <1>2 DEF Idle, Command, Step
<1>4. \A to \in State, time \in Date \cup {Offline}, e \in Record \cup {None} :
          Of(to, time, e) \in Event
  BY DEF Of, Event
<1> QED
  BY <1>1, <1>2, <1>3, <1>4

\* What Become, Goto and Read leave in a process.
LEMMA BecomeKeepsType ==
    ASSUME TypeInv, NEW p \in Process, NEW c \in Command, Become(p, c),
           c.pc \in {"register", "read", "write"} => c.gap \in Gaps,
           c.pc \in {"create", "fill", "row"} => c.record \in Record,
           c.pc = "blob" => c.blob \in Bytes
    PROVE  proc' \in [Process -> Command] /\ Carries'
  BY DEF TypeInv, TypeOK, Carries, Become

LEMMA ReadKeepsType ==
    ASSUME TypeInv, NEW p \in Process, NEW g \in Gaps, NEW e \in Event, Read(p, g, e)
    PROVE  proc' \in [Process -> Command] /\ Carries'
<1> DEFINE c == [Idle EXCEPT !.pc = "write", !.gap = g, !.event = e,
                             !.seen = requests[g]]
<1>1. Become(p, c)
  BY DEF Read
<1>2. requests[g] \in Request
  BY DEF TypeInv, TypeOK
<1>3. c \in Command /\ c.pc = "write" /\ c.gap = g
  BY <1>2, Constructors DEF Idle, Command, Step
<1> QED
  BY <1>1, <1>3, BecomeKeepsType

LEMMA GotoKeepsType ==
    ASSUME TypeInv, NEW p \in Process, NEW s \in {"fill", "row"}, Goto(p, s),
           proc[p].record \in Record
    PROVE  proc' \in [Process -> Command] /\ Carries'
  BY DEF TypeInv, TypeOK, Carries, Goto, Command, Step

LEMMA StepKeepsType ==
    ASSUME TypeInv, NEW p \in Process, Steps(p)
    PROVE  TypeInv'
<1> USE DEF TypeInv
<1>i. Idle \in Command /\ Idle.pc = "idle"
  BY Constructors DEF Idle
<1>1. ASSUME NEW g \in Gaps, SaveDraft(p, g)  PROVE TypeInv'
  <2> DEFINE c == [Idle EXCEPT !.pc = "register", !.gap = g]
  <2>1. c \in Command /\ c.pc = "register" /\ c.gap = g
    BY <1>i DEF Idle, Command, Step
  <2>2. proc' \in [Process -> Command] /\ Carries'
    BY <1>1, <2>1, BecomeKeepsType DEF SaveDraft
  <2> QED
    BY <1>1, <2>2 DEF SaveDraft, TypeOK, history
<1>2. ASSUME NEW g \in Gaps, NEW date \in Date, Submit(p, g, date)  PROVE TypeInv'
  <2>1. Of("submitted", date, None) \in Event
    BY Constructors DEF State
  <2>2. proc' \in [Process -> Command] /\ Carries'
    BY <1>2, <2>1, ReadKeepsType DEF Submit
  <2> QED
    BY <1>2, <2>2 DEF Submit, TypeOK, history
<1>3. ASSUME NEW g \in Gaps, NEW to \in State, Close(p, g, to)  PROVE TypeInv'
  <2>1. Of(to, Offline, None) \in Event
    BY Constructors
  <2>2. proc' \in [Process -> Command] /\ Carries'
    BY <1>3, <2>1, ReadKeepsType DEF Close
  <2> QED
    BY <1>3, <2>2 DEF Close, TypeOK, history
<1>4. ASSUME NEW g \in Gaps, NEW r \in Record, ResponseCheck(p, g, r)  PROVE TypeInv'
  <2> DEFINE c == [Idle EXCEPT !.pc = "read", !.gap = g,
                               !.event = Of("response_received", Offline, r)]
  <2>1. Of("response_received", Offline, r) \in Event
    BY Constructors DEF State
  <2>2. c \in Command /\ c.pc = "read" /\ c.gap = g
    BY <1>i, <2>1 DEF Idle, Command, Step
  <2>3. proc' \in [Process -> Command] /\ Carries'
    BY <1>4, <2>2, BecomeKeepsType DEF ResponseCheck
  <2> QED
    BY <1>4, <2>3 DEF ResponseCheck, TypeOK, history
<1>5. CASE Register(p)
  <2>1. proc[p].gap \in Gaps
    BY <1>5 DEF Register, At, Carries
  <2>2. proc' \in [Process -> Command] /\ Carries'
    BY <1>5, <1>i, BecomeKeepsType DEF Register
  <2>3. [state |-> "drafted", events |-> <<Drafted>>] \in Request
    BY Constructors DEF Request, State
  <2>4. requests' \in [Gaps -> Request]
    BY <1>5, <2>1, <2>3 DEF Register, InsertRequest, TypeOK
  <2>5. settled' \in [Gaps -> SUBSET Position]
    BY <1>5, <2>1, Constructors DEF Register, TypeOK, Position
  <2> QED
    BY <1>5, <2>2, <2>4, <2>5 DEF Register, TypeOK
<1>6. CASE ResponseRead(p)
  <2>1. proc[p].gap \in Gaps /\ proc[p].event \in Event
    BY <1>6 DEF ResponseRead, At, Carries, TypeOK, Command
  <2>2. proc' \in [Process -> Command] /\ Carries'
    BY <1>6, <2>1, ReadKeepsType DEF ResponseRead
  <2> QED
    BY <1>6, <2>2 DEF ResponseRead, TypeOK, history
<1>7. CASE Write(p)
  <2>1. /\ proc[p].gap \in Gaps
        /\ proc[p].event \in Event
        /\ proc[p].event.state \in State
        /\ proc[p].seen.events \in Seq(Event)
    BY <1>7 DEF Write, At, Carries, TypeOK, Command, Event, Request
  <2>2. proc' \in [Process -> Command] /\ Carries'
    BY <1>7, <1>i, BecomeKeepsType DEF Write
  <2>3. Append(proc[p].seen.events, proc[p].event) \in Seq(Event)
    BY <2>1
  <2>4. requests' \in [Gaps -> Request]
    BY <1>7, <2>1, <2>3 DEF Write, TypeOK, Request
  <2>5. <<Len(proc[p].seen.events) + 1, proc[p].event>> \in Position
    BY <2>1 DEF Position
  <2>6. settled' \in [Gaps -> SUBSET Position]
    BY <1>7, <2>1, <2>5 DEF Write, TypeOK
  <2> QED
    BY <1>7, <2>2, <2>4, <2>6 DEF Write, TypeOK
<1>8. ASSUME NEW r \in Record, ImportCheck(p, r)  PROVE TypeInv'
  <2> DEFINE c == [Idle EXCEPT !.pc = IF KeepsFile(BytesOf(r)) THEN "row" ELSE "create",
                               !.record = r]
  <2>1. c \in Command /\ c.pc \in {"row", "create"} /\ c.record = r
    BY <1>i DEF Idle, Command, Step
  <2>2. proc' \in [Process -> Command] /\ Carries'
    BY <1>8, <2>1, BecomeKeepsType DEF ImportCheck
  <2>3. BytesOf(r) \in Bytes
    BY DEF BytesOf, Record
  <2> QED
    BY <1>8, <2>2, <2>3 DEF ImportCheck, NoteRace, TypeOK
<1>9. CASE ImportCreate(p)
  <2>1. proc[p].record \in Record /\ BytesOf(proc[p].record) \in Bytes
    BY <1>9 DEF ImportCreate, At, Carries, BytesOf, Record
  <2>2. proc' \in [Process -> Command] /\ Carries'
    BY <1>9, <2>1, GotoKeepsType DEF ImportCreate
  <2> QED
    BY <1>9, <2>1, <2>2 DEF ImportCreate, TypeOK, history
<1>10. CASE ImportFill(p)
  <2>1. proc[p].record \in Record /\ BytesOf(proc[p].record) \in Bytes
    BY <1>10 DEF ImportFill, At, Carries, BytesOf, Record
  <2>2. proc' \in [Process -> Command] /\ Carries'
    BY <1>10, <2>1, GotoKeepsType DEF ImportFill
  <2> QED
    BY <1>10, <2>1, <2>2 DEF ImportFill, TypeOK, history
<1>11. CASE ImportRow(p)
  <2>1. proc[p].record \in Record
    BY <1>11 DEF ImportRow, At, Carries
  <2>2. proc' \in [Process -> Command] /\ Carries'
    BY <1>11, <1>i, BecomeKeepsType DEF ImportRow
  <2> QED
    BY <1>11, <2>1, <2>2 DEF ImportRow, TypeOK, history
<1>12. CASE Stop(p)
  <2>1. proc' \in [Process -> Command] /\ Carries'
    BY <1>12, <1>i, BecomeKeepsType DEF Stop
  <2> QED
    BY <1>12, <2>1 DEF Stop, TypeOK
<1>13. ASSUME NEW b \in Bytes, WriteBlob(p, b)  PROVE TypeInv'
  <2> DEFINE c == [Idle EXCEPT !.pc = "blob", !.blob = b]
  <2>1. c \in Command /\ c.pc = "blob" /\ c.blob = b
    BY <1>i DEF Idle, Command, Step
  <2>2. proc' \in [Process -> Command] /\ Carries'
    BY <1>13, <2>1, BecomeKeepsType DEF WriteBlob
  <2> QED
    BY <1>13, <2>2 DEF WriteBlob, NoteRace, TypeOK
<1>14. CASE BlobFill(p)
  <2>1. proc[p].blob \in Bytes
    BY <1>14 DEF BlobFill, At, Carries
  <2>2. proc' \in [Process -> Command] /\ Carries'
    BY <1>14, <1>i, BecomeKeepsType DEF BlobFill
  <2> QED
    BY <1>14, <2>1, <2>2 DEF BlobFill, TypeOK, history
<1> QED
  BY <1>1, <1>2, <1>3, <1>4, <1>5, <1>6, <1>7, <1>8, <1>9, <1>10, <1>11, <1>12, <1>13, <1>14
  DEF Steps, IngestCreate, CaptureCreate

\* Type correctness of the ledger and the import, for every value of the
\* constants.
THEOREM TypeCorrect == Spec => []TypeOK
<1>1. Init => TypeInv
  BY Constructors DEF Init, TypeInv, TypeOK, Carries, Idle
<1>2. TypeInv /\ [Next]_vars => TypeInv'
  <2>1. ASSUME TypeInv, UNCHANGED vars  PROVE TypeInv'
    BY <2>1 DEF vars, history, TypeInv, TypeOK, Carries
  <2> QED
    BY <2>1, StepKeepsType, NextIsSteps
<1>3. TypeInv => TypeOK
  BY DEF TypeInv
<1> QED
  BY <1>1, <1>2, <1>3, PTL DEF Spec

-----------------------------------------------------------------------------
(* Histories. *)

\* What a command about to write has read and will append: a history, and an
\* event that may follow it.
PendingAppend(c) ==
    /\ WellFormed(c.seen)
    /\ c.seen.events # <<>>
    /\ c.event.state # c.seen.state
    /\ c.event.state # "drafted"

HistoryInv ==
    /\ TypeInv
    /\ RequestsAreHistories
    /\ \A p \in Process :
          /\ At(p, "read") => proc[p].event.state # "drafted"
          /\ At(p, "write") => PendingAppend(proc[p])

\* Appending an event of another state to a history gives a history.
LEMMA AppendKeepsHistory ==
    ASSUME NEW r \in Request, NEW e \in Event, WellFormed(r), r.events # <<>>,
           e.state # r.state, e.state # "drafted"
    PROVE  WellFormed([state |-> e.state, events |-> Append(r.events, e)])
<1> DEFINE old == r.events
           new == Append(old, e)
           n == Len(old)
<1>1. old \in Seq(Event) /\ n \in Nat /\ n > 0
  BY DEF Request
<1>2. Len(new) = n + 1 /\ new[n + 1] = e /\ \A i \in 1..n : new[i] = old[i]
  BY <1>1
<1>3. new # <<>> /\ new[1] = Drafted /\ e.state = new[Len(new)].state
  BY <1>1, <1>2 DEF WellFormed
<1>4. ASSUME NEW i \in 1..Len(new) - 1
      PROVE  new[i + 1].state # new[i].state /\ new[i + 1].state # "drafted"
  <2>1. CASE i = n
    BY <2>1, <1>1, <1>2 DEF WellFormed
  <2>2. CASE i # n
    <3>1. i \in 1..n - 1 /\ i \in 1..n /\ i + 1 \in 1..n
      BY <2>2, <1>1, <1>2
    <3>2. new[i] = old[i] /\ new[i + 1] = old[i + 1]
      BY <3>1, <1>2
    <3> QED
      BY <3>1, <3>2, <1>1 DEF WellFormed
  <2> QED
    BY <2>1, <2>2
<1> QED
  BY <1>3, <1>4 DEF WellFormed

\* A command that has just read a history in another state can append to it.
LEMMA ReadPends ==
    ASSUME HistoryInv, NEW p \in Process, NEW g \in Gaps, NEW e, Read(p, g, e),
           e.state # "drafted"
    PROVE  \A q \in Process :
              /\ At(q, "read")' => proc'[q].event.state # "drafted"
              /\ At(q, "write")' => PendingAppend(proc'[q])
<1>1. proc'[p].seen = requests[g] /\ proc'[p].event = e /\ proc'[p].pc = "write"
  BY DEF Read, Become, Idle, HistoryInv, TypeInv, TypeOK
<1>2. PendingAppend(proc'[p])
  BY <1>1 DEF Read, Exists, PendingAppend, HistoryInv, RequestsAreHistories
<1>3. \A q \in Process \ {p} : proc'[q] = proc[q]
  BY DEF Read, Become, HistoryInv, TypeInv, TypeOK
<1> QED
  BY <1>1, <1>2, <1>3 DEF HistoryInv, At

LEMMA StepKeepsHistory ==
    ASSUME HistoryInv, NEW p \in Process, Steps(p)
    PROVE  HistoryInv'
<1>t. TypeInv /\ TypeInv'
  BY StepKeepsType DEF HistoryInv
<1> DEFINE Pending == \A q \in Process :
              /\ At(q, "read") => proc[q].event.state # "drafted"
              /\ At(q, "write") => PendingAppend(proc[q])
<1>f. proc \in [Process -> Command] /\ requests \in [Gaps -> Request]
  BY <1>t DEF TypeInv, TypeOK
<1>0. ASSUME UNCHANGED requests, Pending'  PROVE HistoryInv'
  BY <1>0, <1>t DEF HistoryInv, RequestsAreHistories
<1>s. ASSUME NEW c, Become(p, c), c.pc \notin {"read", "write"}  PROVE Pending'
  BY <1>s, <1>f DEF Become, HistoryInv, At
<1>1. ASSUME NEW g \in Gaps, SaveDraft(p, g)  PROVE HistoryInv'
  <2>1. Pending'
    BY <1>1, <1>s DEF SaveDraft, Idle
  <2> QED
    BY <1>1, <2>1, <1>0 DEF SaveDraft
<1>2. ASSUME NEW g \in Gaps, NEW date \in Date, Submit(p, g, date)  PROVE HistoryInv'
  <2>1. Pending'
    BY <1>2, ReadPends DEF Submit, Of
  <2> QED
    BY <1>2, <2>1, <1>0 DEF Submit
<1>3. ASSUME NEW g \in Gaps, NEW to \in State, Close(p, g, to)  PROVE HistoryInv'
  <2>1. Of(to, Offline, None).state # "drafted"
    BY <1>3 DEF Close, Of
  <2>2. Pending'
    BY <1>3, <2>1, ReadPends DEF Close
  <2> QED
    BY <1>3, <2>2, <1>0 DEF Close
<1>4. ASSUME NEW g \in Gaps, NEW r \in Record, ResponseCheck(p, g, r)
      PROVE  HistoryInv'
  <2>1. /\ proc'[p].pc = "read"
        /\ proc'[p].event.state = "response_received"
        /\ \A q \in Process \ {p} : proc'[q] = proc[q]
    BY <1>4, <1>f DEF ResponseCheck, Become, Idle, Of
  <2>2. Pending'
    BY <2>1 DEF HistoryInv, At
  <2> QED
    BY <1>4, <2>2, <1>0 DEF ResponseCheck
<1>5. CASE Register(p)
  <2>1. Pending'
    BY <1>5, <1>s DEF Register, Idle
  <2>2. proc[p].gap \in Gaps
    BY <1>5, <1>t DEF Register, At, TypeInv, Carries
  <2>3. WellFormed([state |-> "drafted", events |-> <<Drafted>>])
    BY DEF WellFormed, Drafted
  <2>4. RequestsAreHistories'
    BY <1>5, <1>f, <2>2, <2>3
    DEF Register, InsertRequest, HistoryInv, RequestsAreHistories
  <2> QED
    BY <1>t, <2>1, <2>4 DEF HistoryInv
<1>6. CASE ResponseRead(p)
  <2>1. proc[p].gap \in Gaps /\ proc[p].event.state # "drafted"
    BY <1>6, <1>t DEF ResponseRead, HistoryInv, TypeInv, Carries, At
  <2>2. Pending'
    BY <1>6, <2>1, ReadPends DEF ResponseRead
  <2> QED
    BY <1>6, <2>2, <1>0 DEF ResponseRead
<1>7. CASE Write(p)
  <2>1. Pending'
    BY <1>7, <1>s DEF Write, Idle
  <2>2. /\ proc[p].seen \in Request
        /\ proc[p].event \in Event
        /\ PendingAppend(proc[p])
    BY <1>7, <1>f DEF Write, Command, HistoryInv
  <2>3. WellFormed([state |-> proc[p].event.state,
                    events |-> Append(proc[p].seen.events, proc[p].event)])
    BY <2>2, AppendKeepsHistory DEF PendingAppend
  <2>4. RequestsAreHistories'
    BY <1>7, <1>f, <2>3 DEF Write, HistoryInv, RequestsAreHistories
  <2> QED
    BY <1>t, <2>1, <2>4 DEF HistoryInv
<1>8. ASSUME NEW r \in Record, ImportCheck(p, r)  PROVE HistoryInv'
  <2> DEFINE next == IF KeepsFile(BytesOf(r)) THEN "row" ELSE "create"
             c == [Idle EXCEPT !.pc = next, !.record = r]
  <2>1. c.pc = next /\ next \in {"row", "create"}
    BY DEF Idle
  <2>2. Become(p, c)
    BY <1>8 DEF ImportCheck
  <2>3. Pending'
    BY <2>1, <2>2, <1>s
  <2> QED
    BY <1>8, <2>3, <1>0 DEF ImportCheck
<1>9. CASE ImportCreate(p) \/ ImportFill(p)
  <2>1. /\ proc'[p].pc \in {"fill", "row"}
        /\ \A q \in Process \ {p} : proc'[q] = proc[q]
    BY <1>9, <1>f DEF ImportCreate, ImportFill, Goto, Command
  <2>2. Pending'
    BY <2>1 DEF HistoryInv, At
  <2> QED
    BY <1>9, <2>2, <1>0 DEF ImportCreate, ImportFill
<1>10. CASE ImportRow(p) \/ Stop(p)
  <2>1. Pending'
    BY <1>10, <1>s DEF ImportRow, Stop, Idle
  <2> QED
    BY <1>10, <2>1, <1>0 DEF ImportRow, Stop
<1>11. ASSUME NEW b \in Bytes, WriteBlob(p, b)  PROVE HistoryInv'
  <2>1. Pending'
    BY <1>11, <1>s DEF WriteBlob, Idle
  <2> QED
    BY <1>11, <2>1, <1>0 DEF WriteBlob
<1>12. CASE BlobFill(p)
  <2>1. Pending'
    BY <1>12, <1>s DEF BlobFill, Idle
  <2> QED
    BY <1>12, <2>1, <1>0 DEF BlobFill
<1> QED
  BY <1>1, <1>2, <1>3, <1>4, <1>5, <1>6, <1>7, <1>8, <1>9, <1>10, <1>11, <1>12
  DEF Steps, IngestCreate, CaptureCreate

LEMMA HistoryInductive == Spec => []HistoryInv
<1>1. Init => HistoryInv
  <2> SUFFICES ASSUME Init PROVE HistoryInv
    OBVIOUS
  <2>1. TypeInv
    BY Constructors DEF Init, TypeInv, TypeOK, Carries, Idle
  <2>2. RequestsAreHistories
    BY DEF Init, RequestsAreHistories, WellFormed, NoRequest
  <2> QED
    BY <2>1, <2>2 DEF Init, HistoryInv, At, Idle
<1>2. HistoryInv /\ [Next]_vars => HistoryInv'
  <2>1. ASSUME HistoryInv, UNCHANGED vars  PROVE HistoryInv'
    BY <2>1 DEF vars, history, HistoryInv, TypeInv, TypeOK, Carries,
                RequestsAreHistories, At
  <2> QED
    BY <2>1, StepKeepsHistory, NextIsSteps
<1> QED
  BY <1>1, <1>2, PTL DEF Spec

\* However commands overlap, a stored request is a history: lost updates lose
\* whole events and never leave a list that could not have been appended.
THEOREM LedgerKeepsHistories == Spec => []RequestsAreHistories
<1>1. HistoryInv => RequestsAreHistories
  BY DEF HistoryInv
<1> QED
  BY <1>1, HistoryInductive, PTL

-----------------------------------------------------------------------------
(* Acknowledged events. *)

KeptIn(events, g) ==
    \A e \in settled[g] : e[1] \in 1..Len(events) /\ events[e[1]] = e[2]

\* Whoever is about to write a request has read all of its settled events.
KeptInv ==
    /\ AcknowledgedIsKept
    /\ \A p \in Process : At(p, "write") => KeptIn(proc[p].seen.events, proc[p].gap)

\* Steps that settle nothing and write no request: only the reader changes.
LEMMA QuietStepKeeps ==
    ASSUME HistoryInv, KeptInv, NEW p \in Process, UNCHANGED <<requests, settled>>,
           proc' \in [Process -> Command],
           \A q \in Process \ {p} : proc'[q] = proc[q],
           proc'[p].pc = "write" =>
               /\ proc'[p].gap \in Gaps
               /\ proc'[p].seen = requests[proc'[p].gap]
    PROVE  KeptInv'
<1>1. AcknowledgedIsKept'
  BY DEF KeptInv, AcknowledgedIsKept
<1>2. ASSUME NEW q \in Process, proc'[q].pc = "write"
      PROVE  KeptIn(proc[q].seen.events, proc[q].gap)'
  <2>1. CASE q = p
    BY <1>2, <2>1 DEF KeptInv, AcknowledgedIsKept, KeptIn
  <2>2. CASE q # p
    BY <1>2, <2>2 DEF KeptInv, KeptIn, At
  <2> QED
    BY <2>1, <2>2
<1> QED
  BY <1>1, <1>2 DEF KeptInv, At

\* What a step from idle, or the end of one, leaves of the process.
LEMMA BecomeKeeps ==
    ASSUME HistoryInv, KeptInv, HistoryInv', NEW p \in Process, NEW c, Become(p, c),
           c.pc # "write", UNCHANGED <<requests, settled>>
    PROVE  KeptInv'
<1>1. proc' \in [Process -> Command] /\ proc'[p] = c
  BY DEF HistoryInv, TypeInv, TypeOK, Become
<1>2. \A q \in Process \ {p} : proc'[q] = proc[q]
  BY DEF HistoryInv, TypeInv, TypeOK, Become
<1> QED
  BY <1>1, <1>2, QuietStepKeeps

LEMMA ReadKeeps ==
    ASSUME HistoryInv, KeptInv, HistoryInv', NEW p \in Process, NEW g \in Gaps,
           NEW e, Read(p, g, e), UNCHANGED <<requests, settled>>
    PROVE  KeptInv'
<1>1. proc'[p].gap = g /\ proc'[p].seen = requests[g]
  BY DEF Read, Become, Idle, HistoryInv, TypeInv, TypeOK
<1>2. \A q \in Process \ {p} : proc'[q] = proc[q]
  BY DEF Read, Become, HistoryInv, TypeInv, TypeOK
<1>3. proc' \in [Process -> Command]
  BY DEF HistoryInv, TypeInv, TypeOK
<1> QED
  BY <1>1, <1>2, <1>3, QuietStepKeeps

\* Registering a draft settles its first event, which any request that exists,
\* and whoever has read it, already begins with.
LEMMA RegisterKeeps ==
    ASSUME HistoryInv, KeptInv, NEW p \in Process, Register(p)
    PROVE  KeptInv'
<1> DEFINE g == proc[p].gap
           fresh == [state |-> "drafted", events |-> <<Drafted>>]
<1>1. /\ g \in Gaps
      /\ proc \in [Process -> Command]
      /\ requests \in [Gaps -> Request]
      /\ settled \in [Gaps -> SUBSET Position]
  BY DEF Register, At, HistoryInv, TypeInv, TypeOK, Carries
<1>2. settled' = [settled EXCEPT ![g] = @ \cup {<<1, Drafted>>}]
  BY DEF Register
<1>3. \A h \in Gaps : \A e \in settled'[h] : e \in settled[h] \/ (h = g /\ e = <<1, Drafted>>)
  BY <1>1, <1>2
<1>4. /\ requests'[g] = IF Exists(g) THEN requests[g] ELSE fresh
      /\ \A h \in Gaps \ {g} : requests'[h] = requests[h]
  BY <1>1 DEF Register, InsertRequest
<1>5. \A r \in Request : WellFormed(r) /\ r.events # <<>> =>
          1 \in 1..Len(r.events) /\ r.events[1] = Drafted
  BY DEF WellFormed, Request
<1>6. 1 \in 1..Len(requests'[g].events) /\ requests'[g].events[1] = Drafted
  <2>1. CASE Exists(g)
    BY <2>1, <1>1, <1>4, <1>5 DEF Exists, HistoryInv, RequestsAreHistories
  <2>2. CASE ~Exists(g)
    BY <2>2, <1>4
  <2> QED
    BY <2>1, <2>2
<1>7. AcknowledgedIsKept'
  <2> SUFFICES ASSUME NEW h \in Gaps, NEW e \in settled'[h]
               PROVE  /\ e[1] \in 1..Len(requests'[h].events)
                      /\ requests'[h].events[e[1]] = e[2]
    BY DEF AcknowledgedIsKept
  <2>1. CASE h = g /\ e = <<1, Drafted>>
    BY <2>1, <1>6
  <2>2. CASE e \in settled[h] /\ h # g
    BY <2>2, <1>4 DEF KeptInv, AcknowledgedIsKept
  <2>3. CASE e \in settled[h] /\ h = g
    <3>1. e[1] \in 1..Len(requests[g].events)
      BY <2>3 DEF KeptInv, AcknowledgedIsKept
    <3>2. Exists(g)
      BY <3>1 DEF Exists
    <3> QED
      BY <2>3, <3>2, <1>4 DEF KeptInv, AcknowledgedIsKept
  <2> QED
    BY <2>1, <2>2, <2>3, <1>3
<1>8. ASSUME NEW q \in Process, At(q, "write")'
      PROVE  KeptIn(proc[q].seen.events, proc[q].gap)'
  <2>1. proc'[q] = proc[q] /\ At(q, "write")
    BY <1>8, <1>1 DEF Register, Become, Idle, At
  <2>2. proc[q].seen \in Request /\ PendingAppend(proc[q]) /\ proc[q].gap \in Gaps
    BY <2>1, <1>1 DEF HistoryInv, Command, TypeInv, Carries, At
  <2>3. /\ 1 \in 1..Len(proc[q].seen.events)
        /\ proc[q].seen.events[1] = Drafted
    BY <2>2, <1>5 DEF PendingAppend
  <2>4. KeptIn(proc[q].seen.events, proc[q].gap)
    BY <2>1 DEF KeptInv
  <2> QED
    BY <2>1, <2>2, <2>3, <2>4, <1>3 DEF KeptIn
<1> QED
  BY <1>7, <1>8 DEF KeptInv

\* A write appends to what it read, which has all settled events; if its own
\* event is settled, nobody else is about to write the request.
LEMMA WriteKeeps ==
    ASSUME HistoryInv, KeptInv, NEW p \in Process, Write(p)
    PROVE  KeptInv'
<1> DEFINE g == proc[p].gap
           old == proc[p].seen.events
           event == proc[p].event
           new == Append(old, event)
<1>1. /\ g \in Gaps
      /\ old \in Seq(Event)
      /\ event \in Event
      /\ proc \in [Process -> Command]
      /\ requests \in [Gaps -> Request]
      /\ settled \in [Gaps -> SUBSET Position]
  BY DEF Write, At, HistoryInv, TypeInv, TypeOK, Carries, Command, Request
<1>2. /\ Len(new) = Len(old) + 1
      /\ new[Len(old) + 1] = event
      /\ \A i \in 1..Len(old) : i \in 1..Len(new) /\ new[i] = old[i]
  BY <1>1
<1>3. requests'[g].events = new /\ \A h \in Gaps \ {g} : requests'[h] = requests[h]
  BY <1>1 DEF Write
<1>4. KeptIn(old, g)
  BY DEF KeptInv, Write
<1>5. /\ \A h \in Gaps \ {g} : settled'[h] = settled[h]
      /\ Contended(p) => settled'[g] = settled[g]
      /\ ~Contended(p) => settled'[g] = settled[g] \cup {<<Len(old) + 1, event>>}
  BY <1>1 DEF Write
<1>6. AcknowledgedIsKept'
  <2> SUFFICES ASSUME NEW h \in Gaps, NEW e \in settled'[h]
               PROVE  /\ e[1] \in 1..Len(requests'[h].events)
                      /\ requests'[h].events[e[1]] = e[2]
    BY DEF AcknowledgedIsKept
  <2>1. CASE h # g
    <3>1. requests'[h] = requests[h] /\ settled'[h] = settled[h]
      BY <2>1, <1>3, <1>5
    <3>2. e \in settled[h]
      BY <3>1
    <3>3. /\ e[1] \in 1..Len(requests[h].events)
          /\ requests[h].events[e[1]] = e[2]
      BY <3>2 DEF KeptInv, AcknowledgedIsKept
    <3> QED
      BY <3>1, <3>3
  <2>2. CASE h = g /\ e \in settled[g]
    BY <2>2, <1>2, <1>3, <1>4 DEF KeptIn
  <2>3. CASE h = g /\ e = <<Len(old) + 1, event>>
    <3>1. Len(old) \in Nat /\ Len(old) + 1 \in 1..Len(new)
      BY <1>1, <1>2
    <3>2. requests'[h].events = new /\ e[1] = Len(old) + 1 /\ e[2] = event
      BY <2>3, <1>3
    <3> QED
      BY <3>1, <3>2, <1>2
  <2> QED
    BY <2>1, <2>2, <2>3, <1>5
<1>7. ASSUME NEW q \in Process, At(q, "write")'
      PROVE  KeptIn(proc[q].seen.events, proc[q].gap)'
  <2>1. q # p /\ proc'[q] = proc[q] /\ At(q, "write")
    BY <1>7, <1>1 DEF Write, Become, Idle, At
  <2>2. proc[q].gap \in Gaps /\ KeptIn(proc[q].seen.events, proc[q].gap)
    BY <2>1 DEF KeptInv, HistoryInv, TypeInv, Carries, At
  <2>3. settled'[proc[q].gap] = settled[proc[q].gap]
    BY <2>1, <2>2, <1>5 DEF Contended
  <2> QED
    BY <2>1, <2>2, <2>3 DEF KeptIn
<1> QED
  BY <1>6, <1>7 DEF KeptInv

LEMMA StepKeeps ==
    ASSUME HistoryInv, HistoryInv', KeptInv, NEW p \in Process, Steps(p)
    PROVE  KeptInv'
<1>1. ASSUME NEW g \in Gaps, SaveDraft(p, g)  PROVE KeptInv'
  BY <1>1, BecomeKeeps DEF SaveDraft, Idle, history
<1>2. ASSUME NEW g \in Gaps, NEW date \in Date, Submit(p, g, date)  PROVE KeptInv'
  BY <1>2, ReadKeeps DEF Submit, history
<1>3. ASSUME NEW g \in Gaps, NEW to \in State, Close(p, g, to)  PROVE KeptInv'
  BY <1>3, ReadKeeps DEF Close, history
<1>4. ASSUME NEW g \in Gaps, NEW r \in Record, ResponseCheck(p, g, r)
      PROVE  KeptInv'
  BY <1>4, BecomeKeeps DEF ResponseCheck, Idle, history
<1>5. CASE Register(p)
  BY <1>5, RegisterKeeps
<1>6. CASE ResponseRead(p)
  <2>1. proc[p].gap \in Gaps
    BY <1>6 DEF ResponseRead, At, HistoryInv, TypeInv, Carries
  <2> QED
    BY <1>6, <2>1, ReadKeeps DEF ResponseRead, history
<1>7. CASE Write(p)
  BY <1>7, WriteKeeps
<1>8. ASSUME NEW r \in Record, ImportCheck(p, r)  PROVE KeptInv'
  <2> DEFINE next == IF KeepsFile(BytesOf(r)) THEN "row" ELSE "create"
             c == [Idle EXCEPT !.pc = next, !.record = r]
  <2>1. c.pc = next /\ next \in {"row", "create"}
    BY DEF Idle
  <2>2. Become(p, c) /\ UNCHANGED <<requests, settled>>
    BY <1>8 DEF ImportCheck
  <2> HIDE DEF next, c
  <2> QED
    BY <2>1, <2>2, BecomeKeeps
<1>9. CASE ImportCreate(p) \/ ImportFill(p)
  <2>0. proc \in [Process -> Command] /\ proc' \in [Process -> Command]
    BY DEF HistoryInv, TypeInv, TypeOK
  <2>1. /\ proc'[p].pc # "write"
        /\ \A q \in Process \ {p} : proc'[q] = proc[q]
        /\ UNCHANGED <<requests, settled>>
    BY <1>9, <2>0 DEF ImportCreate, ImportFill, Goto, Command, history
  <2> QED
    BY <2>0, <2>1, QuietStepKeeps
<1>10. CASE ImportRow(p) \/ Stop(p)
  BY <1>10, BecomeKeeps DEF ImportRow, Stop, Idle, history
<1>11. CASE BlobFill(p) \/ \E b \in Bytes : WriteBlob(p, b)
  BY <1>11, BecomeKeeps DEF BlobFill, WriteBlob, Idle, history
<1> QED
  BY <1>1, <1>2, <1>3, <1>4, <1>5, <1>6, <1>7, <1>8, <1>9, <1>10, <1>11
  DEF Steps, IngestCreate, CaptureCreate

\* An event acknowledged while no other command was between reading and writing
\* its request is never lost, whatever runs later.
THEOREM LedgerKeepsAcknowledged == Spec => []AcknowledgedIsKept
<1>1. Init => KeptInv
  BY DEF Init, KeptInv, AcknowledgedIsKept, At, Idle
<1>2. HistoryInv /\ HistoryInv' /\ KeptInv /\ [Next]_vars => KeptInv'
  <2>1. ASSUME KeptInv, UNCHANGED vars  PROVE KeptInv'
    BY <2>1 DEF vars, history, KeptInv, AcknowledgedIsKept, KeptIn, At
  <2> QED
    BY <2>1, StepKeeps, NextIsSteps
<1>3. KeptInv => AcknowledgedIsKept
  BY DEF KeptInv
<1> QED
  BY <1>1, <1>2, <1>3, HistoryInductive, PTL DEF Spec
-----------------------------------------------------------------------------
(* Responses and the records they cite. *)

\* An event of the ledger, or one on its way there, cites an imported record
\* if it is a response.
CitesIn(e, records) == e.state = "response_received" => e.evidence \in records
Cites(e) == CitesIn(e, supplied)

\* The bytes are created before the row is, and neither ever goes.
ImportInv ==
    /\ \A p \in Process :
          /\ proc[p].pc \in {"fill", "row"} => content[BytesOf(proc[p].record)] # "none"
          /\ proc[p].pc \in {"read", "write"} => Cites(proc[p].event)
          /\ At(p, "write") => \A i \in 1..Len(proc[p].seen.events) :
                                  Cites(proc[p].seen.events[i])
    /\ \A g \in Gaps : \A i \in 1..Len(requests[g].events) :
          Cites(requests[g].events[i])
    /\ \A r \in supplied : content[BytesOf(r)] # "none"

\* While nothing spoiled them, the bytes have one writer at most, and are
\* partial only in its hands.
WholeInv ==
    \A b \in Bytes \ spoiled :
        /\ \A p, q \in Process : Handles(p, b) /\ Handles(q, b) => p = q
        /\ \A p \in Process : Handles(p, b) =>
              /\ At(p, "create") => content[b] = "none"
              /\ At(p, "fill") => content[b] = "partial"
              /\ At(p, "row") => content[b] = "whole"
              /\ At(p, "blob") => content[b] = "partial"
        /\ content[b] = "partial" =>
              \E p \in Process : Handles(p, b) /\ (At(p, "fill") \/ At(p, "blob"))
        /\ \A r \in supplied : BytesOf(r) = b =>
              content[b] = "whole" \/ \E p \in Process : Handles(p, b) /\ At(p, "blob")

LEMMA ImportTypes ==
    ASSUME TypeInv
    PROVE  /\ proc \in [Process -> Command]
           /\ requests \in [Gaps -> Request]
           /\ content \in [Bytes -> {"none", "partial", "whole"}]
           /\ supplied \subseteq Record
           /\ \A r \in Record : BytesOf(r) \in Bytes
           /\ \A p \in Process :
                 proc[p].pc \in {"create", "fill", "row"} =>
                    proc[p].record \in Record /\ BytesOf(proc[p].record) \in Bytes
           /\ \A p \in Process : proc[p].pc = "blob" => proc[p].blob \in Bytes
  BY DEF TypeInv, TypeOK, Carries, BytesOf, Record

\* A command's step leaves the memory of the others alone.
LEMMA OthersKeep ==
    ASSUME TypeInv, NEW p \in Process, Steps(p)
    PROVE  \A q \in Process \ {p} : proc'[q] = proc[q]
  BY ImportTypes DEF Steps, SaveDraft, Submit, Close, ResponseCheck, Register,
     ResponseRead, Write, ImportCheck, ImportCreate, ImportFill, ImportRow, Stop,
     IngestCreate, CaptureCreate, WriteBlob, BlobFill, Read, Become, Goto

\* Records and files are only added.
LEMMA ImportsGrow ==
    ASSUME TypeInv, NEW p \in Process, Steps(p)
    PROVE  /\ supplied \subseteq supplied'
           /\ \A b \in Bytes : content[b] # "none" => content'[b] # "none"
<1>1. CASE ImportCreate(p) \/ ImportFill(p) \/ ImportRow(p)
  BY <1>1, ImportTypes DEF ImportCreate, ImportFill, ImportRow, At
<1>3. CASE BlobFill(p) \/ \E b \in Bytes : WriteBlob(p, b)
  BY <1>3, ImportTypes DEF BlobFill, WriteBlob, At
<1>2. CASE ~(ImportCreate(p) \/ ImportFill(p) \/ ImportRow(p) \/ BlobFill(p)
             \/ \E b \in Bytes : WriteBlob(p, b))
  BY <1>2 DEF Steps, SaveDraft, Submit, Close, ResponseCheck, Register,
     ResponseRead, Write, ImportCheck, IngestCreate, CaptureCreate, Stop, history
<1> QED
  BY <1>1, <1>2, <1>3

\* What ImportInv says of one command, and of the ledger.
OwnCites(q) ==
    /\ proc[q].pc \in {"fill", "row"} => content[BytesOf(proc[q].record)] # "none"
    /\ proc[q].pc \in {"read", "write"} => Cites(proc[q].event)
    /\ At(q, "write") => \A i \in 1..Len(proc[q].seen.events) :
                            Cites(proc[q].seen.events[i])
LedgerCites ==
    \A g \in Gaps : \A i \in 1..Len(requests[g].events) : Cites(requests[g].events[i])
RowsHaveFiles == \A r \in supplied : content[BytesOf(r)] # "none"

LEMMA OthersCite ==
    ASSUME TypeInv, NEW p \in Process, Steps(p), NEW q \in Process, q # p, OwnCites(q)
    PROVE  OwnCites(q)'
<1>1. proc'[q] = proc[q]
  BY OthersKeep
<1> QED
  BY <1>1, ImportTypes, ImportsGrow DEF OwnCites, Cites, CitesIn, At

\* A step into another state, or back to idle, by Become.
LEMMA BecomeCites ==
    ASSUME TypeInv, NEW p \in Process, NEW c, Become(p, c),
           c.pc \notin {"fill", "row", "read", "write"}
    PROVE  OwnCites(p)'
  BY ImportTypes DEF Become, OwnCites, At

LEMMA ReadCites ==
    ASSUME TypeInv, LedgerCites, NEW p \in Process, NEW g \in Gaps, NEW e,
           Read(p, g, e), Cites(e), supplied' = supplied
    PROVE  OwnCites(p)'
<1>1. proc'[p].pc = "write" /\ proc'[p].event = e /\ proc'[p].seen = requests[g]
  BY ImportTypes DEF Read, Become, Idle
<1> QED
  BY <1>1 DEF OwnCites, LedgerCites, Cites, CitesIn, At

LEMMA StepKeepsCites ==
    ASSUME TypeInv, ImportInv, NEW p \in Process, Steps(p)
    PROVE  ImportInv'
<1>0. OwnCites(p) /\ LedgerCites /\ RowsHaveFiles
  BY DEF ImportInv, OwnCites, LedgerCites, RowsHaveFiles
<1>q. \A q \in Process \ {p} : OwnCites(q)'
  <2>1. \A q \in Process : OwnCites(q)
    BY DEF ImportInv, OwnCites
  <2> QED
    BY <2>1, OthersCite
<1>a. ASSUME OwnCites(p)', LedgerCites', RowsHaveFiles'  PROVE ImportInv'
  <2>1. \A q \in Process : OwnCites(q)'
    BY <1>q, <1>a
  <2> QED
    BY <1>a, <2>1 DEF ImportInv, OwnCites, LedgerCites, RowsHaveFiles
\* Most steps leave the ledger and the imports as they are.
<1>l. ASSUME requests' = requests  PROVE LedgerCites'
  BY <1>l, <1>0, ImportsGrow DEF LedgerCites, Cites, CitesIn
<1>r. ASSUME supplied' = supplied  PROVE RowsHaveFiles'
  BY <1>r, <1>0, ImportsGrow, ImportTypes DEF RowsHaveFiles
<1>1. ASSUME NEW g \in Gaps, SaveDraft(p, g)  PROVE ImportInv'
  <2>1. OwnCites(p)'
    BY <1>1, BecomeCites DEF SaveDraft, Idle
  <2> QED
    BY <1>1, <2>1, <1>a, <1>l, <1>r DEF SaveDraft
<1>2. ASSUME NEW g \in Gaps, NEW date \in Date, Submit(p, g, date)  PROVE ImportInv'
  <2>1. OwnCites(p)'
    BY <1>2, <1>0, ReadCites DEF Submit, Of, Cites, CitesIn
  <2> QED
    BY <1>2, <2>1, <1>a, <1>l, <1>r DEF Submit
<1>3. ASSUME NEW g \in Gaps, NEW to \in State, Close(p, g, to)  PROVE ImportInv'
  <2>1. Cites(Of(to, Offline, None))
    BY <1>3 DEF Close, Of, Cites, CitesIn
  <2>2. OwnCites(p)'
    BY <1>3, <1>0, <2>1, ReadCites DEF Close
  <2> QED
    BY <1>3, <2>2, <1>a, <1>l, <1>r DEF Close
<1>4. ASSUME NEW g \in Gaps, NEW r \in Record, ResponseCheck(p, g, r)
      PROVE  ImportInv'
  <2>1. /\ proc'[p].pc = "read"
        /\ proc'[p].event = Of("response_received", Offline, r)
        /\ r \in supplied
    BY <1>4, ImportTypes DEF ResponseCheck, HasRecord, Become, Idle
  <2>2. OwnCites(p)'
    BY <1>4, <2>1 DEF OwnCites, Cites, CitesIn, Of, At, ResponseCheck
  <2> QED
    BY <1>4, <2>2, <1>a, <1>l, <1>r DEF ResponseCheck
<1>5. CASE Register(p)
  <2>1. OwnCites(p)'
    BY <1>5, BecomeCites DEF Register, Idle
  <2>2. proc[p].gap \in Gaps
    BY <1>5 DEF Register, At, TypeInv, Carries
  <2>3. LedgerCites'
    <3> SUFFICES ASSUME NEW h \in Gaps, NEW i \in 1..Len(requests'[h].events)
                 PROVE  CitesIn(requests'[h].events[i], supplied')
      BY DEF LedgerCites, Cites
    <3>1. \/ requests'[h] = requests[h]
          \/ requests'[h].events = <<Drafted>>
      BY <1>5, <2>2, ImportTypes DEF Register, InsertRequest
    <3>2. CASE requests'[h] = requests[h]
      BY <3>2, <1>0, ImportsGrow DEF LedgerCites, Cites, CitesIn
    <3>3. CASE requests'[h].events = <<Drafted>>
      <4>1. requests'[h].events[i] = Drafted
        BY <3>3
      <4> QED
        BY <4>1 DEF Drafted, Cites, CitesIn
    <3> QED
      BY <3>1, <3>2, <3>3
  <2> QED
    BY <1>5, <2>1, <2>3, <1>a, <1>r DEF Register
<1>6. CASE ResponseRead(p)
  <2>1. proc[p].gap \in Gaps /\ Cites(proc[p].event)
    BY <1>6, <1>0 DEF ResponseRead, OwnCites, TypeInv, Carries, At
  <2>2. OwnCites(p)'
    BY <1>6, <1>0, <2>1, ReadCites DEF ResponseRead
  <2> QED
    BY <1>6, <2>2, <1>a, <1>l, <1>r DEF ResponseRead
<1>7. CASE Write(p)
  <2> DEFINE old == proc[p].seen.events
             e == proc[p].event
             g == proc[p].gap
  <2>1. OwnCites(p)'
    BY <1>7, BecomeCites DEF Write, Idle
  <2>2. /\ g \in Gaps /\ old \in Seq(Event) /\ Cites(e)
        /\ \A i \in 1..Len(old) : Cites(old[i])
    BY <1>7, <1>0, ImportTypes
    DEF Write, At, TypeInv, Carries, Command, Request, OwnCites
  <2>3. LedgerCites'
    <3> SUFFICES ASSUME NEW h \in Gaps, NEW i \in 1..Len(requests'[h].events)
                 PROVE  CitesIn(requests'[h].events[i], supplied')
      BY DEF LedgerCites, Cites
    <3>1. CASE h # g
      <4>1. requests'[h] = requests[h]
        BY <1>7, <3>1, ImportTypes DEF Write
      <4> QED
        BY <4>1, <1>0, ImportsGrow DEF LedgerCites, Cites, CitesIn
    <3>2. CASE h = g
      <4>1. requests'[h].events = Append(old, e)
        BY <1>7, <2>2, <3>2, ImportTypes DEF Write
      <4>2. /\ i \in 1..Len(old) + 1
            /\ requests'[h].events[i] = IF i = Len(old) + 1 THEN e ELSE old[i]
        BY <2>2, <4>1
      <4>3. i = Len(old) + 1 \/ i \in 1..Len(old)
        BY <2>2, <4>2
      <4> HIDE DEF old, e, g
      <4> QED
        BY <2>2, <4>2, <4>3, ImportsGrow DEF Cites, CitesIn
    <3> QED
      BY <3>1, <3>2
  <2> QED
    BY <1>7, <2>1, <2>3, <1>a, <1>r DEF Write
<1>8. ASSUME NEW r \in Record, ImportCheck(p, r)  PROVE ImportInv'
  <2>1. /\ proc'[p].pc = IF KeepsFile(BytesOf(r)) THEN "row" ELSE "create"
        /\ proc'[p].record = r
    BY <1>8, ImportTypes DEF ImportCheck, Become, Idle
  <2>2. OwnCites(p)'
    BY <1>8, <2>1 DEF OwnCites, KeepsFile, ImportCheck, At
  <2> QED
    BY <1>8, <2>2, <1>a, <1>l, <1>r DEF ImportCheck
<1>9. CASE ImportCreate(p) \/ ImportFill(p)
  <2>1. proc[p].pc \in {"create", "fill"}
    BY <1>9 DEF ImportCreate, ImportFill, At
  <2>2. /\ proc'[p].pc \in {"fill", "row"}
        /\ proc'[p].record = proc[p].record
        /\ content'[BytesOf(proc[p].record)] # "none"
    BY <1>9, <2>1, ImportTypes DEF ImportCreate, ImportFill, Goto, At, Command
  <2>3. OwnCites(p)'
    BY <2>2 DEF OwnCites, At
  <2> QED
    BY <1>9, <2>3, <1>a, <1>l, <1>r DEF ImportCreate, ImportFill
<1>10. CASE ImportRow(p)
  <2>1. OwnCites(p)'
    BY <1>10, BecomeCites DEF ImportRow, Idle
  <2>2. content[BytesOf(proc[p].record)] # "none"
    BY <1>10, <1>0 DEF ImportRow, OwnCites, At
  <2>3. RowsHaveFiles'
    BY <1>10, <1>0, <2>2 DEF ImportRow, RowsHaveFiles
  <2> QED
    BY <1>10, <2>1, <2>3, <1>a, <1>l DEF ImportRow
<1>11. CASE Stop(p)
  <2>1. OwnCites(p)'
    BY <1>11, BecomeCites DEF Stop, Idle
  <2> QED
    BY <1>11, <2>1, <1>a, <1>l, <1>r DEF Stop
<1>12. CASE BlobFill(p) \/ \E b \in Bytes : WriteBlob(p, b)
  <2>1. OwnCites(p)'
    BY <1>12, BecomeCites DEF BlobFill, WriteBlob, Idle
  <2> QED
    BY <1>12, <2>1, <1>a, <1>l, <1>r DEF BlobFill, WriteBlob
<1> QED
  BY <1>1, <1>2, <1>3, <1>4, <1>5, <1>6, <1>7, <1>8, <1>9, <1>10, <1>11, <1>12
  DEF Steps, IngestCreate, CaptureCreate

LEMMA ImportInductive == Spec => [](TypeInv /\ ImportInv)
<1>1. Init => ImportInv
  BY DEF Init, ImportInv, At, Idle, NoRequest
<1>2. TypeInv /\ ImportInv /\ [Next]_vars => ImportInv'
  <2>1. ASSUME ImportInv, UNCHANGED vars  PROVE ImportInv'
    BY <2>1 DEF vars, history, ImportInv, Cites, CitesIn, At
  <2> QED
    BY <2>1, StepKeepsCites, NextIsSteps
<1>3. HistoryInv => TypeInv
  BY DEF HistoryInv
<1> QED
  BY <1>1, <1>2, <1>3, HistoryInductive, PTL DEF Spec

\* A response of the ledger names a record whose import wrote its bytes and
\* then its row, whatever commands overlapped or died in between.
THEOREM LedgerCitesImports == Spec => []ResponsesCiteImports
<1>1. TypeInv /\ ImportInv => ResponsesCiteImports
  <2> SUFFICES ASSUME TypeInv, ImportInv, NEW g \in Gaps,
                      NEW i \in 1..Len(requests[g].events),
                      requests[g].events[i].state = "response_received"
               PROVE  LET e == requests[g].events[i] IN
                      e.evidence \in supplied /\ content[BytesOf(e.evidence)] # "none"
    BY DEF ResponsesCiteImports
  <2> QED
    BY DEF ImportInv, Cites, CitesIn
<1> QED
  BY <1>1, ImportInductive, PTL
-----------------------------------------------------------------------------
(* Whole files. *)

\* WholeInv for one content.
OneWriter(b) ==
    /\ \A p, q \in Process : Handles(p, b) /\ Handles(q, b) => p = q
    /\ \A p \in Process : Handles(p, b) =>
          /\ At(p, "create") => content[b] = "none"
          /\ At(p, "fill") => content[b] = "partial"
          /\ At(p, "row") => content[b] = "whole"
          /\ At(p, "blob") => content[b] = "partial"
    /\ content[b] = "partial" =>
          \E p \in Process : Handles(p, b) /\ (At(p, "fill") \/ At(p, "blob"))
    /\ \A r \in supplied : BytesOf(r) = b =>
          content[b] = "whole" \/ \E p \in Process : Handles(p, b) /\ At(p, "blob")

\* A command that is not importing these bytes, before or after its step.
LEMMA BystanderKeeps ==
    ASSUME TypeInv, NEW p \in Process, Steps(p), NEW b \in Bytes, OneWriter(b),
           ~Handles(p, b), ~Handles(p, b)', content'[b] = content[b],
           \A r \in supplied' \ supplied : BytesOf(r) # b
    PROVE  OneWriter(b)'
<1>1. \A q \in Process \ {p} : proc'[q] = proc[q]
  BY OthersKeep
<1>2. \A q \in Process : /\ Handles(q, b)' <=> Handles(q, b)
                         /\ Handles(q, b) => proc'[q] = proc[q]
  BY <1>1 DEF Handles, At
<1> QED
  BY <1>2 DEF OneWriter, At

\* Who imports what after a step of the import.
LEMMA ImportMoves ==
    ASSUME TypeInv, NEW p \in Process
    PROVE  /\ ImportCreate(p) => proc'[p].pc = "fill" /\ proc'[p].record = proc[p].record
           /\ ImportFill(p) => proc'[p].pc = "row" /\ proc'[p].record = proc[p].record
           /\ ImportRow(p) \/ Stop(p) => proc'[p].pc = "idle"
           /\ \A r \in Record : ImportCheck(p, r) =>
                 /\ proc'[p].record = r
                 /\ proc'[p].pc = IF content[BytesOf(r)] # "none" THEN "row" ELSE "create"
<1>1. ImportCreate(p) => proc'[p].pc = "fill" /\ proc'[p].record = proc[p].record
  BY ImportTypes DEF ImportCreate, Goto, Command
<1>2. ImportFill(p) => proc'[p].pc = "row" /\ proc'[p].record = proc[p].record
  BY ImportTypes DEF ImportFill, Goto, Command
<1>3. ImportRow(p) \/ Stop(p) => proc'[p].pc = "idle"
  BY ImportTypes DEF ImportRow, Stop, Become, Idle
<1>4. ASSUME NEW r \in Record, ImportCheck(p, r)
      PROVE  /\ proc'[p].record = r
             /\ proc'[p].pc = IF content[BytesOf(r)] # "none" THEN "row" ELSE "create"
  BY <1>4, ImportTypes DEF ImportCheck, KeepsFile, Become, Idle
<1> QED
  BY <1>1, <1>2, <1>3, <1>4

LEMMA StepKeepsWhole ==
    ASSUME TypeInv, NEW p \in Process, Steps(p), NEW b \in Bytes, b \notin spoiled',
           b \notin spoiled => OneWriter(b)
    PROVE  OneWriter(b)'
<1>0. OneWriter(b)
  <2>1. spoiled \subseteq spoiled'
    BY DEF Steps, SaveDraft, Submit, Close, ResponseCheck, Register, ResponseRead,
       Write, ImportCheck, ImportCreate, ImportFill, ImportRow, IngestCreate,
       CaptureCreate, WriteBlob, BlobFill, NoteRace, Stop, history
  <2> QED
    BY <2>1
<1>q. \A q \in Process \ {p} : proc'[q] = proc[q]
  BY OthersKeep
<1>1. CASE \/ \E g \in Gaps : SaveDraft(p, g)
           \/ \E g \in Gaps, date \in Date : Submit(p, g, date)
           \/ \E g \in Gaps, to \in State : Close(p, g, to)
           \/ \E g \in Gaps, r \in Record : ResponseCheck(p, g, r)
           \/ Register(p) \/ ResponseRead(p) \/ Write(p)
  <2>1. /\ proc[p].pc \in {"idle", "register", "read", "write"}
        /\ UNCHANGED <<content, supplied>>
    BY <1>1 DEF SaveDraft, Submit, Close, ResponseCheck, Register, ResponseRead,
       Write, At
  <2>2. proc'[p].pc \in {"idle", "register", "read", "write"}
    <3>1. ASSUME NEW c, Become(p, c)  PROVE proc'[p] = c
      BY <3>1, ImportTypes DEF Become
    <3>2. Idle.pc = "idle"
      BY DEF Idle
    <3>3. CASE Register(p) \/ Write(p)
      BY <3>1, <3>2, <3>3 DEF Register, Write
    <3>4. ASSUME NEW g \in Gaps, NEW e, Read(p, g, e)  PROVE proc'[p].pc = "write"
      BY <3>1, <3>4 DEF Read, Idle
    <3>5. CASE ResponseRead(p)
      <4>1. proc[p].gap \in Gaps
        BY <3>5 DEF ResponseRead, At, TypeInv, Carries
      <4> QED
        BY <3>4, <3>5, <4>1 DEF ResponseRead
    <3>6. ASSUME NEW g \in Gaps,
                 SaveDraft(p, g) \/ \E r \in Record : ResponseCheck(p, g, r)
          PROVE  proc'[p].pc \in {"register", "read"}
      BY <3>1, <3>6 DEF SaveDraft, ResponseCheck, Idle
    <3>7. ASSUME NEW g \in Gaps,
                 \/ \E date \in Date : Submit(p, g, date)
                 \/ \E to \in State : Close(p, g, to)
          PROVE  proc'[p].pc = "write"
      BY <3>4, <3>7 DEF Submit, Close
    <3> QED
      BY <1>1, <3>3, <3>4, <3>5, <3>6, <3>7
  <2>3. ~Handles(p, b) /\ ~Handles(p, b)'
    BY <2>1, <2>2 DEF Handles, At
  <2> QED
    BY <1>0, <2>1, <2>3, BystanderKeeps
<1>2. ASSUME NEW r \in Record, ImportCheck(p, r)  PROVE OneWriter(b)'
  <2>1. /\ proc[p].pc = "idle" /\ ~Handles(p, b)
        /\ UNCHANGED <<content, supplied>>
    BY <1>2 DEF ImportCheck, At, Handles
  <2>2. CASE BytesOf(r) # b
    <3>1. ~Handles(p, b)'
      BY <1>2, <2>2, ImportMoves DEF Handles, At
    <3> QED
      BY <1>0, <2>1, <3>1, BystanderKeeps
  <2>3. CASE BytesOf(r) = b
    <3>1. \A q \in Process \ {p} : ~Handles(q, b) /\ ~Handles(q, b)'
      BY <1>2, <1>q, <2>3 DEF ImportCheck, NoteRace, Handles, At
    <3>2. content[b] # "none" => content[b] = "whole"
      BY <1>0, <2>1, <3>1, ImportTypes DEF OneWriter
    <3>3. /\ proc'[p].pc \in {"row", "create"}
          /\ proc'[p].pc = "row" => content'[b] = "whole"
          /\ proc'[p].pc = "create" => content'[b] = "none"
      BY <1>2, <2>1, <2>3, <3>2, ImportMoves
    <3> QED
      BY <1>0, <2>1, <3>1, <3>2, <3>3 DEF OneWriter, At
  <2> QED
    BY <2>2, <2>3
<1>3. CASE ImportCreate(p) \/ ImportFill(p)
  <2> DEFINE mine == BytesOf(proc[p].record)
  <2>1. /\ proc[p].pc \in {"create", "fill"} /\ mine \in Bytes
        /\ \A c \in Bytes : c = mine => Handles(p, c) /\ Handles(p, c)'
        /\ supplied' = supplied /\ content' \in [Bytes -> {"none", "partial", "whole"}]
        /\ \A c \in Bytes \ {mine} : content'[c] = content[c] /\ ~Handles(p, c)
                                     /\ ~Handles(p, c)'
    <3>1. proc[p].pc \in {"create", "fill"} /\ mine \in Bytes
      BY <1>3, ImportTypes DEF ImportCreate, ImportFill, At
    <3>2. proc'[p].pc \in {"fill", "row"} /\ proc'[p].record = proc[p].record
      BY <1>3, ImportMoves
    <3>3. /\ supplied' = supplied /\ content' \in [Bytes -> {"none", "partial", "whole"}]
          /\ \A c \in Bytes \ {mine} : content'[c] = content[c]
      BY <1>3, <3>1, ImportTypes DEF ImportCreate, ImportFill
    <3> QED
      BY <3>1, <3>2, <3>3 DEF Handles, At
  <2>2. CASE mine # b
    BY <1>0, <2>1, <2>2, BystanderKeeps
  <2>3. CASE mine = b
    <3>1. \A q \in Process \ {p} : ~Handles(q, b) /\ ~Handles(q, b)'
      BY <1>0, <1>q, <2>1, <2>3 DEF OneWriter, Handles, At
    <3>2. Handles(p, b) /\ Handles(p, b)'
      BY <2>1, <2>3
    <3>3. content[b] # "whole"
      BY <1>0, <2>1, <3>2 DEF OneWriter, At
    <3>4. \A r \in supplied' : BytesOf(r) # b
      <4>1. \A q \in Process : ~(Handles(q, b) /\ At(q, "blob"))
        BY <2>1, <3>1 DEF At
      <4> QED
        BY <1>0, <2>1, <3>3, <4>1 DEF OneWriter
    <3>5. CASE ImportCreate(p)
      <4>1. content'[b] = "partial" /\ proc'[p].pc = "fill"
        BY <3>5, <2>3, ImportTypes, ImportMoves DEF ImportCreate
      <4> QED
        BY <3>1, <3>2, <3>4, <4>1 DEF OneWriter, At
    <3>6. CASE ImportFill(p)
      <4>1. content'[b] = "whole" /\ proc'[p].pc = "row"
        BY <3>6, <2>3, ImportTypes, ImportMoves DEF ImportFill
      <4> QED
        BY <3>1, <3>2, <3>4, <4>1 DEF OneWriter, At
    <3> QED
      BY <1>3, <3>5, <3>6
  <2> QED
    BY <2>2, <2>3
<1>4. CASE ImportRow(p)
  <2>1. /\ proc[p].pc = "row" /\ proc'[p].pc = "idle" /\ content' = content
        /\ supplied' = supplied \cup {proc[p].record}
    BY <1>4, ImportMoves DEF ImportRow, At
  <2>2. ~Handles(p, b)'
    BY <2>1 DEF Handles, At
  <2>3. CASE BytesOf(proc[p].record) # b
    <3>1. ~Handles(p, b)
      BY <2>1, <2>3 DEF Handles, At
    <3> QED
      BY <1>0, <2>1, <2>2, <2>3, <3>1, BystanderKeeps
  <2>4. CASE BytesOf(proc[p].record) = b
    <3>1. Handles(p, b)
      BY <2>1, <2>4 DEF Handles, At
    <3>2. content'[b] = "whole"
      BY <1>0, <2>1, <3>1 DEF OneWriter, At
    <3>3. \A q \in Process : ~Handles(q, b)'
      BY <1>0, <1>q, <2>2, <3>1 DEF OneWriter, Handles, At
    <3> QED
      BY <3>2, <3>3 DEF OneWriter
  <2> QED
    BY <2>3, <2>4
<1>5. CASE Stop(p)
  <2>1. /\ proc'[p].pc = "idle" /\ UNCHANGED <<content, supplied>>
    BY <1>5, ImportMoves DEF Stop
  <2>2. ~Handles(p, b)'
    BY <2>1 DEF Handles, At
  <2>3. CASE ~Handles(p, b)
    BY <1>0, <2>1, <2>2, <2>3, BystanderKeeps
  <2>4. CASE Handles(p, b)
    <3>1. proc[p].pc # "fill" /\ proc[p].pc # "blob"
      BY <1>5, <2>4 DEF Stop, Handles, At
    <3>2. content[b] # "partial"
      BY <1>0, <2>4, <3>1 DEF OneWriter, At
    <3>3. \A q \in Process : ~Handles(q, b)'
      BY <1>0, <1>q, <2>2, <2>4 DEF OneWriter, Handles, At
    <3> QED
      BY <1>0, <2>1, <3>2, <3>3 DEF OneWriter
  <2> QED
    BY <2>3, <2>4
<1>6. ASSUME NEW c \in Bytes, WriteBlob(p, c)  PROVE OneWriter(b)'
  <2>1. /\ proc[p].pc = "idle" /\ ~Handles(p, b) /\ supplied' = supplied
        /\ content' = [content EXCEPT ![c] = "partial"]
        /\ proc'[p].pc = "blob" /\ proc'[p].blob = c
    BY <1>6, ImportTypes DEF WriteBlob, Handles, At, Become, Idle
  <2>2. CASE c # b
    BY <1>0, <2>1, <2>2, ImportTypes, BystanderKeeps DEF Handles, At
  <2>3. CASE c = b
    <3>1. \A q \in Process \ {p} : ~Handles(q, b) /\ ~Handles(q, b)'
      BY <1>6, <1>q, <2>3 DEF WriteBlob, NoteRace, Handles, At
    <3>2. content'[b] = "partial" /\ Handles(p, b)' /\ At(p, "blob")'
      BY <2>1, <2>3, ImportTypes DEF Handles, At
    <3> QED
      BY <2>1, <3>1, <3>2 DEF OneWriter, At
  <2> QED
    BY <2>2, <2>3
<1>7. CASE BlobFill(p)
  <2> DEFINE c == proc[p].blob
  <2>1. /\ proc[p].pc = "blob" /\ c \in Bytes /\ supplied' = supplied
        /\ content' = [content EXCEPT ![c] = "whole"] /\ proc'[p].pc = "idle"
    BY <1>7, ImportTypes DEF BlobFill, At, Become, Idle
  <2>2. ~Handles(p, b)'
    BY <2>1 DEF Handles, At
  <2>3. CASE c # b
    <3>1. ~Handles(p, b)
      BY <2>1, <2>3 DEF Handles, At
    <3> QED
      BY <1>0, <2>1, <2>2, <2>3, <3>1, ImportTypes, BystanderKeeps
  <2>4. CASE c = b
    <3>1. Handles(p, b)
      BY <2>1, <2>4 DEF Handles, At
    <3>2. content'[b] = "whole"
      BY <2>1, <2>4, ImportTypes
    <3>3. \A q \in Process : ~Handles(q, b)'
      BY <1>0, <1>q, <2>2, <3>1 DEF OneWriter, Handles, At
    <3> QED
      BY <3>2, <3>3 DEF OneWriter
  <2> QED
    BY <2>3, <2>4
<1> QED
  BY <1>1, <1>2, <1>3, <1>4, <1>5, <1>6, <1>7 DEF Steps, IngestCreate, CaptureCreate

\* Unless a writer of the bytes (an import, an ingest, a capture of robots.txt)
\* was cut short or two were at them at a time, every record in the table has
\* its whole file but while a capture writes it again: import_supplied_record
\* writes the bytes before the row and trusts a file that exists.
THEOREM SuppliedFilesAreWhole == Spec => []SuppliedIsWhole
<1>1. Init => WholeInv
  BY DEF Init, WholeInv, Handles, Idle, At
<1>2. TypeInv /\ WholeInv /\ [Next]_vars => WholeInv'
  <2>1. ASSUME WholeInv, UNCHANGED vars  PROVE WholeInv'
    BY <2>1 DEF vars, history, WholeInv, Handles, At
  <2>2. ASSUME TypeInv, WholeInv, NEW p \in Process, Steps(p)  PROVE WholeInv'
    <3>1. \A b \in Bytes : b \notin spoiled' => OneWriter(b)'
      BY <2>2, StepKeepsWhole DEF WholeInv, OneWriter
    <3> QED
      BY <3>1 DEF WholeInv, OneWriter
  <2> QED
    BY <2>1, <2>2, NextIsSteps
<1>3. TypeInv /\ WholeInv => SuppliedIsWhole
  BY ImportTypes DEF WholeInv, SuppliedIsWhole, Handles, At
<1>4. HistoryInv => TypeInv
  BY DEF HistoryInv
<1> QED
  BY <1>1, <1>2, <1>3, <1>4, HistoryInductive, PTL DEF Spec
=============================================================================
