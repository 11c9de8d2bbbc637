--------------------------- MODULE XPosting_proofs ---------------------------
(***************************************************************************)
(* Proofs about the posting protocol, for any number of processes, drafts, *)
(* segments, attempts and reconciliations.  In order: types; what reaches  *)
(* X (SafeInv is inductive, and gives the theorems about sends and about   *)
(* reposts); the refinement of ThreadGrants; and what the store knows of   *)
(* X, each theorem by an invariant of its own, which SafeInv makes         *)
(* inductive.                                                              *)
(***************************************************************************)
EXTENDS XPostingHonest, TLAPS, FiniteSetTheorems

PC == {"idle"} \cup PostPC \cup RecPC

-----------------------------------------------------------------------------
(* Type correctness. *)

\* The records of the model, component by component.
LEMMA ProcType ==
    \A x : x \in Proc <=>
        /\ x = [pc |-> x.pc, target |-> x.target, segment |-> x.segment,
                copy |-> x.copy, decision |-> x.decision, id |-> x.id]
        /\ x.pc \in PC /\ x.target \in Attempt \cup {NoAttempt}
        /\ x.segment \in Segment /\ x.copy \in AttemptRow
        /\ x.decision \in Decision /\ x.id \in Id
BY DEF Proc, PC

LEMMA OneIsSegment == 1 \in Segment /\ Segment \subseteq Nat \ {0}
BY NumSegmentsAssumption DEF Segment

LEMMA IdleType == Idle \in Proc
<1>1. NoIds \in Ids
  BY DEF NoIds, Ids, Id
<1>2. NoRow \in AttemptRow
  BY <1>1 DEF NoRow, AttemptRow
<1>3. NoId \in Id
  BY DEF Id
<1> QED
  BY <1>2, <1>3, OneIsSegment DEF Idle, Proc, Decision

\* Moving a process to another step keeps its type.
LEMMA GotoType ==
    ASSUME proc \in [Process -> Proc], NEW p \in Process, NEW step \in PC,
           Goto(p, step)
    PROVE  proc' \in [Process -> Proc]
BY DEF Goto, Proc, PC

LEMMA ExitType ==
    ASSUME proc \in [Process -> Proc], NEW p \in Process, Exit(p)
    PROVE  proc' \in [Process -> Proc]
BY IdleType DEF Exit

\* A row that a process persists under its own target.
LEMMA PersistType ==
    ASSUME attempts \in [Attempt -> AttemptRow], NEW p \in Process,
           NEW row \in AttemptRow, Persist(p, row)
    PROVE  attempts' \in [Attempt -> AttemptRow]
BY DEF Persist

LEMMA AcceptType ==
    ASSUME sent \in [Attempt -> [Segment -> Nat]], NEW a \in Attempt,
           NEW s \in Segment, Accept(a, s)
    PROVE  sent' \in [Attempt -> [Segment -> Nat]]
BY DEF Accept

\* TypeOK alone is not inductive: a process between two commands has no
\* attempt, and every other one must have one.
TypeInv ==
    /\ TypeOK
    /\ \A p \in Process : ~At(p, "idle") => proc[p].target \in Attempt

LEMMA InitType == Init => TypeInv
<1> SUFFICES ASSUME Init PROVE TypeInv
  OBVIOUS
<1> USE DEF Init
<1>1. NoIds \in Ids /\ NoRow \in AttemptRow
  BY DEF NoIds, Ids, Id, NoRow, AttemptRow
<1>2. proc \in [Process -> Proc]
  BY IdleType
<1>3. attempts \in [Attempt -> AttemptRow]
  BY <1>1
<1>4. reconciliations \in Seq(Reconciliation)
  OBVIOUS
<1>5. sent \in [Attempt -> [Segment -> Nat]] /\ grantOf \in [Attempt -> Nat]
  OBVIOUS
<1>6. started \in 0..MaxAttempts
  BY MaxAttemptsAssumption
<1>7. TypeOK
  BY <1>1, <1>2, <1>3, <1>4, <1>5, <1>6 DEF TypeOK
<1> QED
  BY <1>7 DEF TypeInv, At, Idle

\* A step of a post command: it changes no other process, and until it ends
\* the command keeps its attempt.
LEMMA PostFrame ==
    ASSUME TypeInv, NEW p \in Poster, PostStep(p)
    PROVE  /\ p \in Process /\ proc[p].pc \in PostPC /\ ~At(p, "idle")
           /\ proc[p].target \in Attempt /\ proc[p] \in Proc
           /\ proc[p].segment \in Segment /\ proc[p].copy \in AttemptRow
           /\ \A q \in Process \ {p} : proc'[q] = proc[q]
           /\ \/ proc'[p] = Idle
              \/ proc'[p].pc \in PostPC /\ proc'[p].target = proc[p].target
<1>1. p \in Process /\ proc \in [Process -> Proc]
  BY DEF Process, TypeInv, TypeOK
<1>2. proc[p].pc \in PostPC
  BY DEF PostStep, At, PostPC, Guard, CheckPosted, InsertAttempt,
     Reserve, SubmitOk, SubmitErr, RecordSegment, PersistSegment,
     PersistUncertain, PersistComplete, MarkPosted
<1>3. ~At(p, "idle") /\ proc[p].target \in Attempt
  BY <1>1, <1>2 DEF TypeInv, At, PostPC
<1>4. /\ proc[p] \in Proc /\ proc[p].segment \in Segment
      /\ proc[p].copy \in AttemptRow
  BY <1>1 DEF Proc
<1>5. \/ Exit(p)
      \/ \E step \in PostPC : Goto(p, step)
      \/ \E step \in PostPC, s \in Segment, i \in RemoteId : proc' =
            [proc EXCEPT ![p].pc = step, ![p].copy.remote[s] = i]
      \/ \E step \in PostPC : proc' =
            [proc EXCEPT ![p].pc = step, ![p].segment = @ + 1]
  <2> USE DEF PostPC
  <2>1. CASE Guard(p) BY <2>1 DEF Guard
  <2>2. CASE CheckPosted(p) BY <2>2 DEF CheckPosted
  <2>3. CASE InsertAttempt(p) BY <2>3 DEF InsertAttempt
  <2>4. CASE Reserve(p) BY <2>4 DEF Reserve
  <2>5. CASE SubmitOk(p) BY <2>5 DEF SubmitOk
  <2>6. CASE SubmitErr(p) BY <2>6 DEF SubmitErr
  <2>7. CASE RecordSegment(p)
    <3>1. <<proc[p].target, proc[p].segment>> \in RemoteId
      BY <1>3, <1>4 DEF RemoteId
    <3>2. proc' = [proc EXCEPT ![p].pc = "persist",
                     ![p].copy.remote[proc[p].segment] = <<proc[p].target, proc[p].segment>>]
          \/ Exit(p)
      BY <2>7 DEF RecordSegment
    <3>3. "persist" \in PostPC
      OBVIOUS
    <3> HIDE DEF PostPC
    <3> QED
      BY <3>1, <3>2, <3>3, <1>4
  <2>8. CASE PersistSegment(p)
    <3>1. \/ proc' = [proc EXCEPT ![p].pc = "submit", ![p].segment = @ + 1]
          \/ Goto(p, "complete")
      BY <2>8 DEF PersistSegment
    <3>2. "submit" \in PostPC /\ "complete" \in PostPC
      OBVIOUS
    <3> HIDE DEF PostPC
    <3> QED
      BY <3>1, <3>2
  <2>9. CASE PersistUncertain(p) BY <2>9 DEF PersistUncertain
  <2>10. CASE PersistComplete(p) BY <2>10 DEF PersistComplete
  <2>11. CASE MarkPosted(p) BY <2>11 DEF MarkPosted
  <2> QED
    BY <2>1, <2>2, <2>3, <2>4, <2>5, <2>6, <2>7, <2>8, <2>9, <2>10, <2>11
       DEF PostStep
<1>6. CASE Exit(p)
  BY <1>1, <1>2, <1>3, <1>4, <1>6 DEF Exit
<1>7. ASSUME NEW step \in PostPC, Goto(p, step)
      PROVE  /\ proc'[p].pc = step /\ proc'[p].target = proc[p].target
             /\ \A q \in Process \ {p} : proc'[q] = proc[q]
  BY <1>1, <1>7 DEF Goto, Proc
<1>8. ASSUME NEW step \in PostPC, NEW s \in Segment, NEW i \in RemoteId,
             proc' = [proc EXCEPT ![p].pc = step, ![p].copy.remote[s] = i]
      PROVE  /\ proc'[p].pc = step /\ proc'[p].target = proc[p].target
             /\ \A q \in Process \ {p} : proc'[q] = proc[q]
  BY <1>1, <1>8 DEF Proc
<1>9. ASSUME NEW step \in PostPC,
             proc' = [proc EXCEPT ![p].pc = step, ![p].segment = @ + 1]
      PROVE  /\ proc'[p].pc = step /\ proc'[p].target = proc[p].target
             /\ \A q \in Process \ {p} : proc'[q] = proc[q]
  BY <1>1, <1>9 DEF Proc
<1>10. CASE ~Exit(p)
  <2>1. PICK step \in PostPC :
          /\ proc'[p].pc = step /\ proc'[p].target = proc[p].target
          /\ \A q \in Process \ {p} : proc'[q] = proc[q]
    BY <1>5, <1>7, <1>8, <1>9, <1>10
  <2> QED
    BY <1>1, <1>2, <1>3, <1>4, <2>1
<1> QED
  BY <1>6, <1>10

LEMMA PostStepType ==
    ASSUME TypeInv, NEW p \in Poster, PostStep(p)
    PROVE  TypeInv'
<1>p. \A q \in Process : ~At(q, "idle")' => proc'[q].target \in Attempt
  BY PostFrame DEF TypeInv, At, Idle
<1>q. SUFFICES TypeOK'
  BY <1>p DEF TypeInv
<1>s. /\ p \in Process /\ proc[p].target \in Attempt
      /\ proc[p] \in Proc /\ proc[p].segment \in Segment
      /\ proc[p].copy \in AttemptRow
  BY PostFrame
<1>t. TypeOK
  BY DEF TypeInv
<1> USE <1>s DEF TypeOK
<1>1. CASE Guard(p)
  BY <1>t, <1>1, ExitType, GotoType DEF Guard, PC, PostPC, store, remote, history
<1>2. CASE CheckPosted(p)
  BY <1>t, <1>2, ExitType, GotoType DEF CheckPosted, PC, PostPC, store, remote, history
<1>3. CASE InsertAttempt(p)
  BY <1>t, <1>s, <1>3, PersistType, GotoType DEF InsertAttempt, PC, PostPC, remote, history
<1>4. CASE Reserve(p)
  <2>1. NoIds \in Ids
    BY DEF NoIds, Ids, Id
  <2>2. proc' \in [Process -> Proc]
    BY <1>t, <1>4, ExitType, GotoType DEF Reserve, PC, PostPC
  <2>3. posts' \in [row : {"absent", "IN_PROGRESS", "final"}, ids : Ids]
    BY <1>t, <1>4, <2>1 DEF Reserve
  <2>4. granted' \in Nat /\ grantOf' \in [Attempt -> Nat]
    <3>1. CASE granted' = granted + 1 /\
               grantOf' = [grantOf EXCEPT ![proc[p].target] = granted + 1]
      BY <1>t, <3>1
    <3>2. CASE UNCHANGED <<granted, grantOf>>
      BY <1>t, <3>2
    <3> QED
      BY <1>4, <3>1, <3>2 DEF Reserve
  <2> QED
    BY <1>t, <1>4, <2>2, <2>3, <2>4 DEF Reserve, remote
<1>5. CASE SubmitOk(p)
  BY <1>t, <1>s, <1>5, GotoType, AcceptType
     DEF SubmitOk, PC, PostPC, store, history
<1>6. CASE SubmitErr(p)
  <2>1. <<proc[p].target, proc[p].segment>> \in RemoteId
    BY <1>s DEF RemoteId
  <2>2. sent' \in [Attempt -> [Segment -> Nat]] /\ inflight' \subseteq RemoteId
    BY <1>t, <1>s, <1>6, <2>1, AcceptType DEF SubmitErr
  <2> QED
    BY <1>t, <1>6, <2>2, GotoType DEF SubmitErr, PC, PostPC, store, history
<1>7. CASE RecordSegment(p)
  <2> DEFINE s == proc[p].segment
             i == <<proc[p].target, proc[p].segment>>
  <2>1. i \in RemoteId
    BY <1>s DEF RemoteId
  <2>2. CASE SegmentRowAccepted(s)
    <3>1. post_segments' \in Ids
      BY <1>t, <1>7, <2>1, <2>2 DEF RecordSegment, Ids, Id
    <3>2. [proc[p].copy EXCEPT !.remote[s] = i] \in AttemptRow
      BY <1>s, <2>1 DEF AttemptRow, Ids, Id
    <3>3. proc' = [proc EXCEPT ![p] = [proc[p] EXCEPT !.pc = "persist",
                      !.copy = [proc[p].copy EXCEPT !.remote[s] = i]]]
      BY <1>t, <1>s, <1>7, <2>2 DEF RecordSegment, Proc, AttemptRow
    <3>4. proc' \in [Process -> Proc]
      BY <1>t, <1>s, <3>2, <3>3 DEF Proc, PostPC
    <3> QED
      BY <1>t, <1>7, <2>2, <3>1, <3>4 DEF RecordSegment, remote, history
  <2>3. CASE ~SegmentRowAccepted(s)
    BY <1>t, <1>7, <2>3, ExitType DEF RecordSegment, remote, history
  <2> QED
    BY <2>2, <2>3
<1>8. CASE PersistSegment(p)
  <2>1. proc' \in [Process -> Proc]
    <3>1. CASE proc[p].segment = NumSegments /\ Goto(p, "complete")
      BY <1>t, <3>1, GotoType DEF PC, PostPC
    <3>2. CASE proc[p].segment < NumSegments
      <4>1. proc[p].segment + 1 \in Segment
        BY <1>s, <3>2, NumSegmentsAssumption DEF Segment
      <4>2. proc' = [proc EXCEPT ![p] = [proc[p] EXCEPT
                       !.pc = "submit", !.segment = proc[p].segment + 1]]
        <5>1. proc' = [proc EXCEPT ![p].pc = "submit", ![p].segment = @ + 1]
          BY <1>8, <3>2, NumSegmentsAssumption DEF PersistSegment
        <5> QED
          BY <1>t, <1>s, <5>1 DEF Proc
      <4> QED
        BY <1>t, <1>s, <4>1, <4>2 DEF Proc, PostPC
    <3> QED
      BY <1>8, <3>1, <3>2 DEF PersistSegment
  <2> QED
    BY <1>t, <1>s, <1>8, <2>1, PersistType DEF PersistSegment, remote, history
<1>9. CASE PersistUncertain(p)
  <2>1. [proc[p].copy EXCEPT !.status = "uncertain"] \in AttemptRow
    BY <1>s DEF AttemptRow, Status
  <2> QED
    BY <1>t, <1>9, <2>1, PersistType, ExitType
       DEF PersistUncertain, remote, history
<1>10. CASE PersistComplete(p)
  <2>1. [proc[p].copy EXCEPT !.status = "complete"] \in AttemptRow
    BY <1>s DEF AttemptRow, Status
  <2> QED
    BY <1>t, <1>10, <2>1, PersistType, GotoType
       DEF PersistComplete, PC, PostPC, remote, history
<1>11. CASE MarkPosted(p)
  <2>1. Marked(p) \in [row : {"absent", "IN_PROGRESS", "final"}, ids : Ids]
    BY <1>t, <1>s DEF Marked, AttemptRow
  <2> QED
    BY <1>t, <1>11, <2>1, ExitType DEF MarkPosted, remote, history
<1> QED
  BY <1>1, <1>2, <1>3, <1>4, <1>5, <1>6, <1>7, <1>8, <1>9, <1>10, <1>11 DEF PostStep

\* The same for a step of a reconciliation.
LEMMA RecFrame ==
    ASSUME TypeInv, NEW r \in Operator, RecStep(r)
    PROVE  /\ r \in Process /\ proc[r].pc \in RecPC /\ ~At(r, "idle")
           /\ proc[r].target \in Attempt /\ proc[r] \in Proc
           /\ proc[r].copy \in AttemptRow
           /\ \A q \in Process \ {r} : proc'[q] = proc[q]
           /\ \/ proc'[r] = Idle
              \/ proc'[r].pc \in RecPC /\ proc'[r].target = proc[r].target
<1>1. r \in Process /\ proc \in [Process -> Proc]
  BY DEF Process, TypeInv, TypeOK
<1>2. proc[r].pc \in RecPC
  BY DEF RecStep, At, RecPC, RecInsert, RecRecord, RecCheck, RecMark,
     RecClear, RecPersist
<1>3. ~At(r, "idle") /\ proc[r].target \in Attempt
  BY <1>1, <1>2 DEF TypeInv, At, RecPC
<1>4. proc[r] \in Proc /\ proc[r].copy \in AttemptRow
  BY <1>1 DEF Proc
<1>5. \/ Exit(r)
      \/ \E step \in RecPC : Goto(r, step)
      \/ \E step \in RecPC : \E st : proc' =
            [proc EXCEPT ![r].pc = step, ![r].copy.status = st]
      \/ \E step \in RecPC : \E s, i : proc' =
            [proc EXCEPT ![r].pc = step, ![r].copy.remote[s] = i]
  <2> USE DEF RecPC
  <2>1. CASE RecInsert(r) BY <2>1 DEF RecInsert
  <2>2. CASE RecRecord(r) BY <2>2 DEF RecRecord
  <2>3. CASE RecCheck(r) BY <2>3 DEF RecCheck
  <2>4. CASE RecMark(r) BY <2>4 DEF RecMark
  <2>5. CASE RecClear(r) BY <2>5 DEF RecClear
  <2>6. CASE RecPersist(r) BY <2>6 DEF RecPersist
  <2> QED
    BY <2>1, <2>2, <2>3, <2>4, <2>5, <2>6 DEF RecStep
<1>6. CASE Exit(r)
  BY <1>1, <1>2, <1>3, <1>4, <1>6 DEF Exit
<1>7. ASSUME NEW step \in RecPC, Goto(r, step)
      PROVE  /\ proc'[r].pc = step /\ proc'[r].target = proc[r].target
             /\ \A q \in Process \ {r} : proc'[q] = proc[q]
  BY <1>1, <1>7 DEF Goto, Proc
<1>8. ASSUME NEW step \in RecPC, NEW st,
             proc' = [proc EXCEPT ![r].pc = step, ![r].copy.status = st]
      PROVE  /\ proc'[r].pc = step /\ proc'[r].target = proc[r].target
             /\ \A q \in Process \ {r} : proc'[q] = proc[q]
  BY <1>1, <1>8 DEF Proc
<1>9. ASSUME NEW step \in RecPC, NEW s, NEW i,
             proc' = [proc EXCEPT ![r].pc = step, ![r].copy.remote[s] = i]
      PROVE  /\ proc'[r].pc = step /\ proc'[r].target = proc[r].target
             /\ \A q \in Process \ {r} : proc'[q] = proc[q]
  BY <1>1, <1>9 DEF Proc
<1>10. CASE ~Exit(r)
  <2>1. PICK step \in RecPC :
          /\ proc'[r].pc = step /\ proc'[r].target = proc[r].target
          /\ \A q \in Process \ {r} : proc'[q] = proc[q]
    BY <1>5, <1>7, <1>8, <1>9, <1>10
  <2> QED
    BY <1>1, <1>2, <1>3, <1>4, <2>1
<1> QED
  BY <1>6, <1>10

\* Changing one field of a process's copy keeps its type.
LEMMA CopyStatusType ==
    ASSUME proc \in [Process -> Proc], NEW p \in Process,
           NEW step \in PC, NEW st \in Status,
           proc' = [proc EXCEPT ![p].pc = step, ![p].copy.status = st]
    PROVE  proc' \in [Process -> Proc]
<1>1. proc[p].copy \in AttemptRow /\ proc[p] \in Proc
  BY DEF Proc
<1>2. [proc[p].copy EXCEPT !.status = st] \in AttemptRow
  BY <1>1 DEF AttemptRow
<1>3. proc' = [proc EXCEPT ![p] = [proc[p] EXCEPT !.pc = step,
                  !.copy = [proc[p].copy EXCEPT !.status = st]]]
  BY <1>1 DEF Proc, AttemptRow
<1> QED
  BY <1>1, <1>2, <1>3 DEF Proc, PC

LEMMA CopyRemoteType ==
    ASSUME proc \in [Process -> Proc], NEW p \in Process,
           NEW step \in PC, NEW s, NEW i \in Id,
           proc' = [proc EXCEPT ![p].pc = step, ![p].copy.remote[s] = i]
    PROVE  proc' \in [Process -> Proc]
<1>1. proc[p].copy \in AttemptRow /\ proc[p] \in Proc
  BY DEF Proc
<1>2. [proc[p].copy EXCEPT !.remote[s] = i] \in AttemptRow
  BY <1>1 DEF AttemptRow, Ids
<1>3. proc' = [proc EXCEPT ![p] = [proc[p] EXCEPT !.pc = step,
                  !.copy = [proc[p].copy EXCEPT !.remote[s] = i]]]
  BY <1>1 DEF Proc, AttemptRow
<1> QED
  BY <1>1, <1>2, <1>3 DEF Proc, PC

LEMMA RecStepType ==
    ASSUME TypeInv, NEW r \in Operator, RecStep(r)
    PROVE  TypeInv'
<1>p. \A q \in Process : ~At(q, "idle")' => proc'[q].target \in Attempt
  BY RecFrame DEF TypeInv, At, Idle
<1>q. SUFFICES TypeOK'
  BY <1>p DEF TypeInv
<1>s. /\ r \in Process /\ proc[r].target \in Attempt
      /\ proc[r] \in Proc /\ proc[r].copy \in AttemptRow
  BY RecFrame
<1>t. TypeOK
  BY DEF TypeInv
<1>c. \A step \in RecPC : step \in PC
  BY DEF PC
<1> USE <1>s DEF TypeOK
<1>1. CASE RecInsert(r)
  <2>1. proc' \in [Process -> Proc]
    BY <1>t, <1>1, ExitType, GotoType, CopyStatusType
       DEF RecInsert, PC, RecPC, Status
  <2>2. reconciliations' \in Seq(Reconciliation)
    <3>1. [attempt |-> proc[r].target, id |-> proc[r].id] \in Reconciliation
      BY DEF Reconciliation, Proc
    <3> QED
      BY <1>t, <1>1, <3>1 DEF RecInsert
  <2> QED
    BY <1>t, <1>1, <2>1, <2>2 DEF RecInsert, remote, history
<1>2. CASE RecRecord(r)
  <2>1. proc[r].id \in Id
    BY DEF Proc
  <2>2. proc' \in [Process -> Proc]
    <3> DEFINE s == FirstMissing(proc[r].copy)
    <3>1. \/ Exit(r)
          \/ proc' = [proc EXCEPT ![r].pc = "recCheck",
                                  ![r].copy.remote[s] = proc[r].id]
      BY <1>2 DEF RecRecord
    <3>2. "recCheck" \in PC
      BY DEF PC, RecPC
    <3> HIDE DEF s
    <3> QED
      BY <1>t, <2>1, <3>1, <3>2, ExitType, CopyRemoteType
  <2>3. post_segments' \in Ids
    BY <1>t, <1>2, <2>1 DEF RecRecord, Ids
  <2> QED
    BY <1>t, <1>2, <2>2, <2>3 DEF RecRecord, remote, history
<1>3. CASE RecCheck(r)
  <2>1. proc' \in [Process -> Proc]
    BY <1>t, <1>3, CopyStatusType DEF RecCheck, PC, RecPC, Status
  <2> QED
    BY <1>t, <1>3, <2>1 DEF RecCheck, store, remote, history
<1>4. CASE RecMark(r)
  <2>1. Marked(r) \in [row : {"absent", "IN_PROGRESS", "final"}, ids : Ids]
    BY <1>t DEF Marked, AttemptRow
  <2> QED
    BY <1>t, <1>4, <2>1, GotoType DEF RecMark, PC, RecPC, remote, history
<1>5. CASE RecClear(r)
  <2>1. NoIds \in Ids
    BY DEF NoIds, Ids, Id
  <2>2. proc' \in [Process -> Proc]
    <3> DEFINE st == IF proc[r].decision = "partial" THEN "partial"
                     ELSE "reconciled"
    <3>1. st \in Status /\ "recPersist" \in PC
      BY DEF Status, PC, RecPC
    <3>2. proc' = [proc EXCEPT ![r].pc = "recPersist", ![r].copy.status = st]
      BY <1>5 DEF RecClear
    <3> HIDE DEF st
    <3> QED
      BY <1>t, <3>1, <3>2, CopyStatusType
  <2>3. /\ posts' \in [row : {"absent", "IN_PROGRESS", "final"}, ids : Ids]
        /\ withdrawn' \in Nat
    BY <1>t, <1>5, <2>1 DEF RecClear
  <2> QED
    BY <1>t, <1>5, <2>1, <2>2, <2>3 DEF RecClear, remote
<1>6. CASE RecPersist(r)
  BY <1>t, <1>6, PersistType, ExitType DEF RecPersist, remote, history
<1> QED
  BY <1>1, <1>2, <1>3, <1>4, <1>5, <1>6 DEF RecStep

\* Type correctness is inductive.
LEMMA TypeStep == TypeInv /\ [Next]_vars => TypeInv'
<1> SUFFICES ASSUME TypeInv, [Next]_vars PROVE TypeInv'
  OBVIOUS
<1>t. TypeOK
  BY DEF TypeInv
<1>1. ASSUME NEW d \in Draft, Approve(d) PROVE TypeInv'
  BY <1>t, <1>1 DEF Approve, TypeInv, TypeOK, At, remote, history
<1>2. ASSUME NEW p \in Poster, NEW d \in Draft, PostBegin(p, d) PROVE TypeInv'
  <2> p \in Process
    BY DEF Process
  <2>1. started + 1 \in Attempt /\ started' \in 0..MaxAttempts
    BY <1>t, <1>2, MaxAttemptsAssumption DEF PostBegin, TypeOK, Attempt
  <2> DEFINE new == [Idle EXCEPT !.pc = "guard", !.target = started + 1,
            !.copy = [NoRow EXCEPT !.status = "in_progress", !.draft = d]]
  <2>2. [NoRow EXCEPT !.status = "in_progress", !.draft = d] \in AttemptRow
    BY DEF NoRow, NoIds, Ids, Id, AttemptRow, Status
  <2>3. new \in Proc /\ new.target = started + 1
    BY <2>1, <2>2, IdleType DEF Proc, PostPC, Idle
  <2>4. proc' = [proc EXCEPT ![p] = new]
    BY <1>2 DEF PostBegin
  <2>5. TypeOK'
    BY <1>t, <1>2, <2>1, <2>3, <2>4 DEF PostBegin, TypeOK, store, remote, Busy
  <2>6. \A q \in Process : ~At(q, "idle")' => proc'[q].target \in Attempt
    BY <1>t, <2>1, <2>3, <2>4 DEF TypeInv, TypeOK, At
  <2> QED
    BY <2>5, <2>6 DEF TypeInv
<1>3. ASSUME NEW p \in Poster, PostStep(p) PROVE TypeInv'
  BY <1>3, PostStepType
<1>4. ASSUME NEW i \in inflight, LateAccept(i) PROVE TypeInv'
  <2>1. i[1] \in Attempt /\ i[2] \in Segment
    BY <1>t DEF TypeOK, RemoteId
  <2>2. sent' \in [Attempt -> [Segment -> Nat]]
    BY <1>t, <1>4, <2>1, AcceptType DEF LateAccept, TypeOK
  <2> QED
    BY <1>t, <1>4, <2>2 DEF LateAccept, TypeInv, TypeOK, At, store, history
<1>5. ASSUME NEW r \in Operator, NEW a \in Attempt, NEW d \in Decision,
             NEW id \in LiveIds \cup {Mistyped, NoId}, RecBegin(r, a, d, id)
      PROVE  TypeInv'
  <2> r \in Process
    BY DEF Process
  <2> DEFINE new == [Idle EXCEPT !.pc = "recInsert", !.target = a,
            !.copy = attempts[a], !.decision = d, !.id = id]
  <2>1. attempts[a] \in AttemptRow /\ id \in Id
    BY <1>t DEF TypeOK, LiveIds, Id
  <2>2. new \in Proc /\ new.target = a
    BY <2>1, IdleType DEF Proc, RecPC, Idle
  <2>3. proc' = [proc EXCEPT ![r] = new]
    BY <1>5 DEF RecBegin
  <2>4. TypeOK'
    BY <1>t, <1>5, <2>2, <2>3 DEF RecBegin, TypeOK, store, remote, Busy
  <2>5. \A q \in Process : ~At(q, "idle")' => proc'[q].target \in Attempt
    BY <1>t, <2>2, <2>3 DEF TypeInv, TypeOK, At
  <2> QED
    BY <2>4, <2>5 DEF TypeInv
<1>6. ASSUME NEW r \in Operator, RecStep(r) PROVE TypeInv'
  BY <1>6, RecStepType
<1>7. ASSUME NEW p \in Process, Crash(p) PROVE TypeInv'
  BY <1>t, <1>7, IdleType
     DEF Crash, Exit, TypeInv, TypeOK, At, Idle, store, remote, history
<1>8. ASSUME UNCHANGED vars PROVE TypeInv'
  BY <1>t, <1>8 DEF vars, TypeInv, TypeOK, At, store, remote, history
<1> QED
  BY <1>1, <1>2, <1>3, <1>4, <1>5, <1>6, <1>7, <1>8 DEF Next

(* Every variable of the protocol keeps its type, whatever the number of     *)
(* processes, segments, attempts and reconciliations.                        *)
THEOREM TypeCorrect == Spec => []TypeOK
<1>1. Spec => []TypeInv
  BY InitType, TypeStep, PTL DEF Spec
<1>2. TypeInv => TypeOK
  BY DEF TypeInv
<1> QED
  BY <1>1, <1>2, PTL

-----------------------------------------------------------------------------
(* What reaches X.                                                         *)

PreWindow == {"guard", "check", "insert", "reserve"}
PosterAt(p, steps) == p \in Poster /\ proc[p].pc \in steps

\* Post commands and reconciliations keep to their own steps.
RoleInv ==
    /\ \A p \in Poster : proc[p].pc \in {"idle"} \cup PostPC
    /\ \A r \in Operator : proc[r].pc \in {"idle"} \cup RecPC

\* Every running post command has an attempt of its own.
TargetInv ==
    \A p \in Poster : ~At(p, "idle") =>
        /\ proc[p].target <= started
        /\ \A q \in Poster : q # p /\ ~At(q, "idle") =>
              proc[q].target # proc[p].target

\* Reservations are counted, numbered one by one, and given to one attempt.
GrantInv ==
    /\ granted = withdrawn + (IF posts.row = "absent" THEN 0 ELSE 1)
    /\ \A a \in Attempt : grantOf[a] <= granted
    /\ \A a \in Attempt : a > started => grantOf[a] = 0
    /\ \A a, b \in Attempt : a # b /\ grantOf[a] # 0 => grantOf[a] # grantOf[b]
    /\ \A g \in 1..granted : \E a \in Attempt : grantOf[a] = g
    /\ \A p \in Poster : proc[p].pc \in PreWindow => grantOf[proc[p].target] = 0
    /\ \A p \in Poster : proc[p].pc \in Window => grantOf[proc[p].target] # 0

\* Segments from s on have neither been accepted nor may they still be.
Unsent(a, s) == \A t \in Segment :
    t >= s => sent[a][t] = 0 /\ <<a, t>> \notin inflight

\* How far a sending command has got.
ProgressInv ==
    \A p \in Poster :
        /\ proc[p].pc \in PreWindow => proc[p].segment = 1
        /\ proc[p].pc = "submit" =>
              /\ Unsent(proc[p].target, proc[p].segment)
              /\ \A t \in Segment : t < proc[p].segment =>
                    sent[proc[p].target][t] = 1
        /\ proc[p].pc \in {"record", "persist"} =>
              /\ Unsent(proc[p].target, proc[p].segment + 1)
              /\ \A t \in Segment : t <= proc[p].segment =>
                    sent[proc[p].target][t] = 1

SendInv ==
    /\ \A a \in Attempt : grantOf[a] = 0 => Unsent(a, 1)
    /\ ProgressInv
    /\ SentOnceInOrder

SafeInv == TypeInv /\ RoleInv /\ TargetInv /\ GrantInv /\ SendInv

-----------------------------------------------------------------------------
(* What the steps do to a process. *)

LEMMA GotoFields ==
    ASSUME TypeInv, NEW p \in Process, NEW step, Goto(p, step)
    PROVE  /\ proc'[p].pc = step /\ proc'[p].target = proc[p].target
           /\ proc'[p].segment = proc[p].segment
           /\ proc'[p].copy = proc[p].copy
           /\ proc'[p].decision = proc[p].decision
           /\ proc'[p].id = proc[p].id
           /\ \A q \in Process \ {p} : proc'[q] = proc[q]
BY DEF Goto, TypeInv, TypeOK, Proc

LEMMA ExitFields ==
    ASSUME TypeInv, NEW p \in Process, Exit(p)
    PROVE  /\ proc'[p] = Idle /\ proc'[p].pc = "idle"
           /\ \A q \in Process \ {p} : proc'[q] = proc[q]
BY DEF Exit, TypeInv, TypeOK, Idle

\* Most steps concern neither X nor the reservation: the process ends, or
\* moves on with its attempt and its segment.
Quiet(p) ==
    /\ UNCHANGED <<sent, inflight, granted, grantOf, withdrawn, started>>
    /\ posts'.row = "absent" <=> posts.row = "absent"
    /\ \A q \in Process \ {p} : proc'[q] = proc[q]
    /\ \/ proc'[p].pc = "idle"
       \/ /\ proc'[p].target = proc[p].target
          /\ proc'[p].segment = proc[p].segment
          /\ \/ p \in Operator /\ proc'[p].pc \in RecPC
             \/ /\ p \in Poster
                /\ \/ {proc[p].pc, proc'[p].pc} \subseteq PreWindow
                   \/ /\ proc[p].pc \in Window
                      /\ proc'[p].pc \in {"uncertain", "complete", "mark"}
                   \/ proc[p].pc = "record" /\ proc'[p].pc = "persist"

LEMMA QuietStep ==
    ASSUME SafeInv, TypeInv', NEW p \in Process, Quiet(p)
    PROVE  SafeInv'
<1>0. /\ TypeOK /\ TypeOK'
      /\ \A q \in Poster : q \in Process
      /\ \A q \in Operator : q \in Process /\ q \notin Poster
  BY ProcessAssumption DEF SafeInv, TypeInv, Process
<1>1. RoleInv'
  BY <1>0 DEF SafeInv, RoleInv, Quiet, PostPC, PreWindow, Window
<1>2. TargetInv'
  BY <1>0 DEF SafeInv, TargetInv, Quiet, At, PreWindow, Window
<1>3. GrantInv'
  BY <1>0 DEF SafeInv, GrantInv, Quiet, PreWindow, Window, RecPC
<1>4. SentOnceInOrder'
  BY DEF SafeInv, SendInv, SentOnceInOrder, Quiet
<1>5. ProgressInv'
  BY <1>0 DEF SafeInv, SendInv, ProgressInv, Unsent, Quiet, PreWindow, Window, RecPC
<1>6. SendInv'
  BY <1>4, <1>5 DEF SafeInv, SendInv, Quiet, Unsent
<1> QED
  BY <1>1, <1>2, <1>3, <1>6 DEF SafeInv

-----------------------------------------------------------------------------
(* Which steps are quiet. *)

LEMMA QuietPost ==
    ASSUME SafeInv, NEW p \in Poster,
           \/ Guard(p) \/ CheckPosted(p) \/ InsertAttempt(p)
           \/ RecordSegment(p) \/ PersistUncertain(p)
           \/ PersistComplete(p) \/ MarkPosted(p)
           \/ Reserve(p) /\ posts.row # "absent"
           \/ PersistSegment(p) /\ proc[p].segment = NumSegments
    PROVE  Quiet(p)
<1> p \in Process /\ TypeInv /\ TypeOK
  BY DEF Process, SafeInv, TypeInv
<1> USE DEF Quiet, PreWindow, Window, At, remote, history
<1>1. CASE Guard(p)
  BY <1>1, GotoFields, ExitFields DEF Guard, store
<1>2. CASE CheckPosted(p)
  BY <1>2, GotoFields, ExitFields DEF CheckPosted, store
<1>3. CASE InsertAttempt(p)
  BY <1>3, GotoFields DEF InsertAttempt
<1>4. CASE RecordSegment(p)
  <2> DEFINE s == proc[p].segment
             i == <<proc[p].target, proc[p].segment>>
  <2>1. \/ Exit(p)
        \/ proc' = [proc EXCEPT ![p].pc = "persist", ![p].copy.remote[s] = i]
    BY <1>4 DEF RecordSegment
  <2>2. proc' = [proc EXCEPT ![p].pc = "persist", ![p].copy.remote[s] = i] =>
          /\ proc'[p].pc = "persist" /\ proc'[p].target = proc[p].target
          /\ proc'[p].segment = proc[p].segment
          /\ \A q \in Process \ {p} : proc'[q] = proc[q]
    BY DEF TypeOK, Proc
  <2> QED
    BY <1>4, <2>1, <2>2, ExitFields DEF RecordSegment
<1>5. CASE PersistUncertain(p)
  BY <1>5, ExitFields DEF PersistUncertain
<1>6. CASE PersistComplete(p)
  BY <1>6, GotoFields DEF PersistComplete
<1>7. CASE MarkPosted(p)
  BY <1>7, ExitFields DEF MarkPosted, Marked
<1>8. CASE Reserve(p) /\ posts.row # "absent"
  BY <1>8, ExitFields DEF Reserve
<1>9. CASE PersistSegment(p) /\ proc[p].segment = NumSegments
  <2>1. Goto(p, "complete")
    BY <1>9, NumSegmentsAssumption DEF PersistSegment
  <2> QED
    BY <1>9, <2>1, GotoFields DEF PersistSegment
<1> QED
  BY <1>1, <1>2, <1>3, <1>4, <1>5, <1>6, <1>7, <1>8, <1>9

LEMMA QuietRec ==
    ASSUME SafeInv, NEW r \in Operator, RecStep(r),
           ~(RecClear(r) /\ posts.row = "IN_PROGRESS")
    PROVE  Quiet(r)
<1> r \in Process /\ TypeInv /\ TypeOK
  BY DEF Process, SafeInv, TypeInv
<1>1. /\ \A q \in Process \ {r} : proc'[q] = proc[q]
      /\ \/ proc'[r].pc = "idle"
         \/ proc'[r].pc \in RecPC /\ proc'[r].target = proc[r].target
  BY RecFrame DEF Idle
<1>2. proc'[r].pc = "idle" \/ proc'[r].segment = proc[r].segment
  <2>1. proc[r] \in Proc
    BY DEF TypeOK
  <2> QED
    BY <2>1, GotoFields, ExitFields DEF RecStep, RecInsert, RecRecord,
       RecCheck, RecMark, RecClear, RecPersist, Goto, TypeOK, Proc
<1>3. /\ UNCHANGED <<sent, inflight, granted, grantOf, withdrawn, started>>
      /\ posts'.row = "absent" <=> posts.row = "absent"
  BY DEF RecStep, RecInsert, RecRecord, RecCheck, RecMark, RecClear,
     RecPersist, Marked, store, remote, history
<1> QED
  BY <1>1, <1>2, <1>3 DEF Quiet

-----------------------------------------------------------------------------
(* The steps that are not. *)

LEMMA BeginStep ==
    ASSUME SafeInv, TypeInv', NEW p \in Poster, NEW d \in Draft, PostBegin(p, d)
    PROVE  SafeInv'
<1> DEFINE new == [Idle EXCEPT !.pc = "guard", !.target = started + 1,
            !.copy = [NoRow EXCEPT !.status = "in_progress", !.draft = d]]
<1>0. /\ TypeOK /\ TypeOK' /\ p \in Process /\ At(p, "idle")
      /\ started \in Nat /\ started + 1 \in Attempt
      /\ \A q \in Poster : q \in Process /\ q \notin Operator
  BY ProcessAssumption, MaxAttemptsAssumption
     DEF SafeInv, TypeInv, TypeOK, Process, PostBegin, Attempt
<1>1. /\ proc'[p].pc = "guard" /\ proc'[p].target = started + 1
      /\ proc'[p].segment = 1
      /\ \A q \in Process \ {p} : proc'[q] = proc[q]
  BY <1>0 DEF PostBegin, TypeOK, Idle
<1>2. /\ UNCHANGED <<sent, inflight, granted, grantOf, withdrawn, posts>>
      /\ started' = started + 1
  BY DEF PostBegin, store, remote
<1>3. RoleInv'
  BY <1>0, <1>1 DEF SafeInv, RoleInv, PostPC, Process
<1>4. TargetInv'
  <2>1. \A q \in Poster : ~At(q, "idle") =>
          /\ proc[q].target \in Nat /\ proc[q].target <= started
          /\ proc[q].target # started + 1
    BY <1>0 DEF SafeInv, TargetInv, TypeInv, Attempt
  <2>2. \A q \in Poster : q # p => proc'[q] = proc[q]
    BY <1>0, <1>1
  <2> QED
    BY <1>0, <1>1, <1>2, <2>1, <2>2 DEF SafeInv, TargetInv, At
<1>5. GrantInv'
  <2>1. \A a \in Attempt : a > started' => grantOf'[a] = 0
    BY <1>0, <1>2 DEF SafeInv, GrantInv, Attempt
  <2>2. grantOf[started + 1] = 0
    BY <1>0 DEF SafeInv, GrantInv
  <2>3. \A q \in Poster : proc'[q].pc \in PreWindow => grantOf'[proc'[q].target] = 0
    BY <1>0, <1>1, <1>2, <2>2 DEF SafeInv, GrantInv
  <2>4. \A q \in Poster : proc'[q].pc \in Window => grantOf'[proc'[q].target] # 0
    BY <1>0, <1>1, <1>2 DEF SafeInv, GrantInv, Window
  <2> QED
    BY <1>2, <2>1, <2>3, <2>4 DEF SafeInv, GrantInv
<1>6. ProgressInv'
  BY <1>0, <1>1, <1>2 DEF SafeInv, SendInv, ProgressInv, Unsent, PreWindow
<1>7. SendInv'
  BY <1>2, <1>6 DEF SafeInv, SendInv, Unsent, SentOnceInOrder
<1> QED
  BY <1>3, <1>4, <1>5, <1>7 DEF SafeInv

LEMMA ReserveStep ==
    ASSUME SafeInv, TypeInv', NEW p \in Poster, Reserve(p), posts.row = "absent"
    PROVE  SafeInv'
<1> DEFINE a == proc[p].target
<1>0. /\ TypeOK /\ TypeOK' /\ TypeInv /\ p \in Process
      /\ At(p, "reserve") /\ a \in Attempt
      /\ \A q \in Poster : q \in Process /\ q \notin Operator
  BY ProcessAssumption DEF SafeInv, TypeInv, Process, Reserve, At
<1>1. /\ proc'[p].pc = "submit" /\ proc'[p].target = a
      /\ proc'[p].segment = proc[p].segment
      /\ \A q \in Process \ {p} : proc'[q] = proc[q]
  BY <1>0, GotoFields DEF Reserve
<1>2. /\ UNCHANGED <<sent, inflight, withdrawn, started>>
      /\ posts'.row = "IN_PROGRESS" /\ granted' = granted + 1
      /\ grantOf' = [grantOf EXCEPT ![a] = granted + 1]
  BY DEF Reserve, remote
<1>3. RoleInv'
  BY <1>0, <1>1 DEF SafeInv, RoleInv, PostPC, Process
<1>4. TargetInv'
  BY <1>0, <1>1, <1>2 DEF SafeInv, TargetInv, At
<1>5. grantOf[a] = 0 /\ a <= started /\ granted \in Nat
  BY <1>0 DEF SafeInv, GrantInv, TargetInv, PreWindow, At, TypeOK
<1>6. GrantInv'
  <2> grantOf \in [Attempt -> Nat] /\ started \in Nat /\ withdrawn \in Nat
    BY <1>0 DEF TypeOK
  <2>1. granted' = withdrawn' + (IF posts'.row = "absent" THEN 0 ELSE 1)
    BY <1>2, <1>5 DEF SafeInv, GrantInv
  <2>2. \A b \in Attempt : grantOf'[b] <= granted'
    BY <1>2, <1>5 DEF SafeInv, GrantInv
  <2>3. \A b \in Attempt : b > started' => grantOf'[b] = 0
    BY <1>0, <1>2, <1>5 DEF SafeInv, GrantInv, Attempt
  <2>4. \A b, c \in Attempt : b # c /\ grantOf'[b] # 0 => grantOf'[b] # grantOf'[c]
    BY <1>0, <1>2, <1>5 DEF SafeInv, GrantInv
  <2>5. \A g \in 1..granted' : \E b \in Attempt : grantOf'[b] = g
    <3> SUFFICES ASSUME NEW g \in 1..granted' PROVE \E b \in Attempt : grantOf'[b] = g
      OBVIOUS
    <3>1. CASE g = granted + 1
      BY <1>0, <1>2, <3>1
    <3>2. CASE g # granted + 1
      <4>1. g \in 1..granted
        BY <1>2, <1>5, <3>2
      <4>2. PICK b \in Attempt : grantOf[b] = g
        BY <4>1 DEF SafeInv, GrantInv
      <4> QED
        BY <1>2, <1>5, <4>1, <4>2
    <3> QED
      BY <3>1, <3>2
  <2>6. \A q \in Poster : proc'[q].pc \in PreWindow => grantOf'[proc'[q].target] = 0
    <3> SUFFICES ASSUME NEW q \in Poster, proc'[q].pc \in PreWindow
                 PROVE  grantOf'[proc'[q].target] = 0
      OBVIOUS
    <3>1. q # p /\ proc'[q] = proc[q]
      BY <1>0, <1>1 DEF PreWindow
    <3>2. proc[q].target # a
      BY <1>0, <3>1 DEF SafeInv, TargetInv, At, PreWindow
    <3> QED
      BY <1>2, <3>1, <3>2 DEF SafeInv, GrantInv
  <2>7. \A q \in Poster : proc'[q].pc \in Window => grantOf'[proc'[q].target] # 0
    BY <1>0, <1>1, <1>2, <1>5 DEF SafeInv, GrantInv
  <2> QED
    BY <2>1, <2>2, <2>3, <2>4, <2>5, <2>6, <2>7 DEF GrantInv
<1>7. ProgressInv'
  <2>1. /\ Unsent(a, 1) /\ proc[p].segment = 1
        /\ \A t \in Segment : ~(t < 1)
    BY <1>0, <1>5, OneIsSegment
       DEF SafeInv, SendInv, ProgressInv, PreWindow, At
  <2> QED
    BY <1>0, <1>1, <1>2, <2>1 DEF SafeInv, SendInv, ProgressInv, Unsent
<1>8. SendInv'
  <2>1. \A b \in Attempt : grantOf'[b] = 0 => grantOf[b] = 0
    BY <1>0, <1>2, <1>5 DEF TypeOK
  <2> QED
    BY <1>2, <1>7, <2>1 DEF SafeInv, SendInv, Unsent, SentOnceInOrder
<1> QED
  BY <1>3, <1>4, <1>6, <1>8 DEF SafeInv

\* A post is accepted that nothing after it in its thread preceded, and that
\* nothing before it in its thread is missing for.
LEMMA AcceptOrder ==
    ASSUME SafeInv, NEW a \in Attempt, NEW s \in Segment, Accept(a, s),
           sent[a][s] = 0, inflight' \subseteq inflight,
           <<a, s>> \notin inflight',
           \A t \in Segment : t < s => sent[a][t] = 1,
           \A t \in Segment : t > s => sent[a][t] = 0 /\ <<a, t>> \notin inflight
    PROVE  /\ SentOnceInOrder'
           /\ sent'[a] = [sent[a] EXCEPT ![s] = 1]
           /\ \A b \in Attempt \ {a} : sent'[b] = sent[b]
<1>1. sent \in [Attempt -> [Segment -> Nat]]
  BY DEF SafeInv, TypeInv, TypeOK
<1>2. /\ sent'[a] = [sent[a] EXCEPT ![s] = 1]
      /\ \A b \in Attempt \ {a} : sent'[b] = sent[b]
  BY <1>1 DEF Accept
<1>3. ASSUME NEW b \in Attempt, NEW t \in Segment
      PROVE  /\ sent'[b][t] <= 1
             /\ <<b, t>> \in inflight' => sent'[b][t] = 0
             /\ sent'[b][t] = 1 \/ <<b, t>> \in inflight' =>
                   \A u \in 1..(t - 1) : sent'[b][u] = 1
  <2>1. CASE b # a
    BY <1>2, <1>3, <2>1 DEF SafeInv, SendInv, SentOnceInOrder
  <2>2. CASE b = a
    <3>0. /\ \A u \in 1..(t - 1) : u \in Segment /\ u < t
          /\ s \in Nat /\ t \in Nat
      BY <1>3, NumSegmentsAssumption DEF Segment
    <3>1. CASE t = s
      BY <1>1, <1>2, <2>2, <3>0, <3>1
    <3>2. CASE t < s
      BY <1>1, <1>2, <2>2, <3>0, <3>2 DEF SafeInv, SendInv, SentOnceInOrder
    <3>3. CASE t > s
      BY <1>1, <1>2, <2>2, <3>0, <3>3
    <3> QED
      BY <3>0, <3>1, <3>2, <3>3
  <2> QED
    BY <2>1, <2>2
<1> QED
  BY <1>2, <1>3 DEF SentOnceInOrder

\* Steps that leave the store, its history and the set of running commands
\* alone keep the parts of the invariant that are about them.
LEMMA SendFrame ==
    ASSUME SafeInv, NEW p \in Poster,
           UNCHANGED <<posts, granted, grantOf, withdrawn, started>>,
           \A q \in Process \ {p} : proc'[q] = proc[q],
           proc[p].pc \in Window, proc'[p].pc \in Window,
           proc'[p].target = proc[p].target
    PROVE  RoleInv' /\ TargetInv' /\ GrantInv'
<1>0. /\ \A q \in Poster : q \in Process
      /\ \A q \in Operator : q \in Process /\ q # p
  BY ProcessAssumption DEF Process
<1>1. RoleInv'
  BY <1>0 DEF SafeInv, RoleInv, PostPC, Window
<1>2. TargetInv'
  BY <1>0 DEF SafeInv, TargetInv, At, Window
<1>3. GrantInv'
  BY <1>0 DEF SafeInv, GrantInv, PreWindow, Window
<1> QED
  BY <1>1, <1>2, <1>3

LEMMA SubmitStep ==
    ASSUME SafeInv, TypeInv', NEW p \in Poster, SubmitOk(p) \/ SubmitErr(p)
    PROVE  SafeInv'
<1> DEFINE a == proc[p].target
           s == proc[p].segment
<1>0. /\ TypeInv /\ TypeOK /\ TypeOK' /\ p \in Process /\ At(p, "submit")
      /\ a \in Attempt /\ s \in Segment
      /\ \A q \in Poster : q \in Process
  BY PostFrame DEF SafeInv, TypeInv, Process, PostStep, SubmitOk, SubmitErr
<1>1. PICK step \in {"record", "uncertain"} :
        /\ proc'[p].pc = step /\ proc'[p].target = a
        /\ proc'[p].segment = s
        /\ \A q \in Process \ {p} : proc'[q] = proc[q]
        /\ step = "record" => SubmitOk(p)
  BY <1>0, GotoFields DEF SubmitOk, SubmitErr
<1>2. UNCHANGED <<posts, granted, grantOf, withdrawn, started>>
  BY DEF SubmitOk, SubmitErr, store, history
<1>3. RoleInv' /\ TargetInv' /\ GrantInv'
  BY <1>0, <1>1, <1>2, SendFrame DEF Window, At
<1>4. /\ Unsent(a, s) /\ \A t \in Segment : t < s => sent[a][t] = 1
      /\ grantOf[a] # 0
  BY <1>0 DEF SafeInv, SendInv, ProgressInv, At, GrantInv, Window
<1>5. s \in Nat /\ \A t \in Segment : t \in Nat
  BY <1>0, OneIsSegment
<1>6. sent[a][s] = 0 /\ <<a, s>> \notin inflight
      /\ \A t \in Segment : t > s => sent[a][t] = 0 /\ <<a, t>> \notin inflight
  BY <1>0, <1>4, <1>5 DEF Unsent
\* The three outcomes of a request.
<1>7. \/ Accept(a, s) /\ inflight' = inflight
      \/ proc'[p].pc = "uncertain" /\ UNCHANGED <<sent, inflight>>
      \/ /\ proc'[p].pc = "uncertain" /\ sent' = sent
         /\ inflight' = inflight \cup {<<a, s>>}
  BY <1>0, <1>1, GotoFields DEF SubmitOk, SubmitErr
\* No other running command works on this attempt.
<1>8. \A q \in Poster \ {p} : ~At(q, "idle") => proc[q].target # a
  BY <1>0 DEF SafeInv, TargetInv, At
<1>9. /\ SentOnceInOrder'
      /\ \A b \in Attempt \ {a} : sent'[b] = sent[b]
      /\ \A b \in Attempt \ {a}, t \in Segment :
            <<b, t>> \in inflight' <=> <<b, t>> \in inflight
      /\ proc'[p].pc = "record" =>
            sent'[a] = [sent[a] EXCEPT ![s] = 1] /\ inflight' = inflight
  <2>1. CASE Accept(a, s) /\ inflight' = inflight
    BY <1>0, <1>4, <1>6, <2>1, AcceptOrder
  <2>2. CASE proc'[p].pc = "uncertain" /\ UNCHANGED <<sent, inflight>>
    BY <2>2 DEF SafeInv, SendInv, SentOnceInOrder
  <2>3. CASE /\ proc'[p].pc = "uncertain" /\ sent' = sent
             /\ inflight' = inflight \cup {<<a, s>>}
    <3>1. \A t \in 1..(s - 1) : t \in Segment /\ t < s
      BY <1>0, NumSegmentsAssumption DEF Segment
    <3>2. \A t \in 1..(s - 1) : sent[a][t] = 1
      BY <1>4, <3>1
    <3>3. \A b \in Attempt, t \in Segment :
             <<b, t>> \in inflight' => <<b, t>> \in inflight \/ (b = a /\ t = s)
      BY <2>3
    <3>4. SentOnceInOrder'
      BY <1>6, <2>3, <3>2, <3>3 DEF SafeInv, SendInv, SentOnceInOrder
    <3> QED
      BY <2>3, <3>4
  <2> QED
    BY <1>7, <2>1, <2>2, <2>3
<1>10. ProgressInv'
  <2> SUFFICES ASSUME NEW q \in Poster
      PROVE  /\ proc'[q].pc \in PreWindow => proc'[q].segment = 1
             /\ proc'[q].pc = "submit" =>
                   /\ Unsent(proc[q].target, proc[q].segment)'
                   /\ \A t \in Segment : t < proc'[q].segment =>
                         sent'[proc'[q].target][t] = 1
             /\ proc'[q].pc \in {"record", "persist"} =>
                   /\ Unsent(proc[q].target, proc[q].segment + 1)'
                   /\ \A t \in Segment : t <= proc'[q].segment =>
                         sent'[proc'[q].target][t] = 1
    BY DEF ProgressInv
  <2>1. CASE q = p
    <3>1. CASE proc'[p].pc = "uncertain"
      BY <2>1, <3>1 DEF PreWindow
    <3>2. CASE proc'[p].pc = "record"
      <4>0. /\ sent'[a] = [sent[a] EXCEPT ![s] = 1] /\ inflight' = inflight
            /\ sent[a] \in [Segment -> Nat]
        BY <1>0, <1>9, <3>2 DEF TypeOK
      <4>1. \A t \in Segment : t <= s => sent'[a][t] = 1
        BY <1>0, <1>4, <1>5, <4>0
      <4>2. \A t \in Segment : t >= s + 1 =>
               sent'[a][t] = 0 /\ <<a, t>> \notin inflight'
        BY <1>0, <1>5, <1>6, <4>0
      <4> QED
        BY <1>1, <2>1, <3>2, <4>1, <4>2 DEF Unsent, PreWindow
    <3> QED
      BY <1>1, <3>1, <3>2
  <2>2. CASE q # p
    <3>1. proc'[q] = proc[q]
      BY <1>0, <1>1, <2>2
    <3>2. CASE At(q, "idle")
      BY <3>1, <3>2 DEF At, PreWindow
    <3>3. CASE ~At(q, "idle")
      <4>1. proc[q].target \in Attempt \ {a}
        BY <1>0, <1>8, <2>2, <3>3 DEF TypeInv
      <4> QED
        BY <1>9, <3>1, <4>1 DEF SafeInv, SendInv, ProgressInv, Unsent
    <3> QED
      BY <3>2, <3>3
  <2> QED
    BY <2>1, <2>2
<1>11. \A b \in Attempt : grantOf'[b] = 0 => Unsent(b, 1)'
  BY <1>2, <1>4, <1>9 DEF SafeInv, SendInv, Unsent
<1> QED
  BY <1>3, <1>9, <1>10, <1>11 DEF SafeInv, SendInv

LEMMA LateAcceptStep ==
    ASSUME SafeInv, TypeInv', NEW i \in inflight, LateAccept(i)
    PROVE  SafeInv'
<1> DEFINE a == i[1]
           s == i[2]
<1>0. /\ TypeInv /\ TypeOK /\ TypeOK' /\ a \in Attempt /\ s \in Segment
      /\ i = <<a, s>> /\ \A q \in Poster : q \in Process
  <2>1. TypeInv /\ TypeOK /\ TypeOK' /\ \A q \in Poster : q \in Process
    BY DEF SafeInv, TypeInv, Process
  <2>2. i \in Attempt \X Segment
    BY <2>1 DEF TypeOK, RemoteId
  <2> QED
    BY <2>1, <2>2
<1>1. /\ UNCHANGED <<posts, granted, grantOf, withdrawn, started, proc>>
      /\ Accept(a, s) /\ inflight' = inflight \ {i}
  BY DEF LateAccept, store, history
<1>2. RoleInv' /\ TargetInv' /\ GrantInv'
  BY <1>1 DEF SafeInv, RoleInv, TargetInv, GrantInv, At
<1>3. \A t \in Segment : s \in Nat /\ t \in Nat /\ (t < s => t \in 1..(s - 1))
  BY <1>0, NumSegmentsAssumption DEF Segment
<1>4. sent[a][s] = 0 /\ \A t \in Segment : t < s => sent[a][t] = 1
  BY <1>0, <1>3 DEF SafeInv, SendInv, SentOnceInOrder
<1>5. \A t \in Segment : t > s => sent[a][t] = 0 /\ <<a, t>> \notin inflight
  <2> SUFFICES ASSUME NEW t \in Segment, t > s,
                      sent[a][t] # 0 \/ <<a, t>> \in inflight
               PROVE  FALSE
    OBVIOUS
  <2>1. s \in 1..(t - 1)
    BY <1>0, <1>3, NumSegmentsAssumption DEF Segment
  <2>2. sent[a][t] = 1 \/ <<a, t>> \in inflight
    <3>1. sent[a][t] \in Nat /\ sent[a][t] <= 1
      BY <1>0 DEF SafeInv, SendInv, SentOnceInOrder, TypeOK
    <3> QED
      BY <3>1
  <2>3. sent[a][s] = 1
    BY <1>0, <2>1, <2>2 DEF SafeInv, SendInv, SentOnceInOrder
  <2> QED
    BY <1>4, <2>3
<1>6. /\ SentOnceInOrder'
      /\ sent'[a] = [sent[a] EXCEPT ![s] = 1]
      /\ \A b \in Attempt \ {a} : sent'[b] = sent[b]
  BY <1>0, <1>1, <1>4, <1>5, AcceptOrder
<1>7. grantOf[a] # 0
  <2>1. s >= 1
    BY <1>0, OneIsSegment
  <2> QED
    BY <1>0, <2>1 DEF SafeInv, SendInv, Unsent
\* A command that is still sending has nothing on its way.
<1>8. \A q \in Poster : proc[q].pc \in {"submit", "record", "persist"} =>
          proc[q].target \in Attempt \ {a}
  <2> SUFFICES ASSUME NEW q \in Poster, proc[q].target = a,
                      proc[q].pc \in {"submit", "record", "persist"}
               PROVE  FALSE
    BY <1>0 DEF TypeInv, At
  <2>1. proc[q].segment \in Nat
    BY <1>0, OneIsSegment DEF TypeOK, Proc
  <2>2. proc[q].pc = "submit" => FALSE
    BY <1>0, <1>3, <1>4, <2>1 DEF SafeInv, SendInv, ProgressInv, Unsent
  <2>3. proc[q].pc \in {"record", "persist"} => FALSE
    BY <1>0, <1>3, <1>4, <2>1 DEF SafeInv, SendInv, ProgressInv, Unsent
  <2> QED
    BY <2>2, <2>3
<1>9. ProgressInv'
  <2>1. \A b \in Attempt \ {a}, t \in Segment :
           <<b, t>> \in inflight' <=> <<b, t>> \in inflight
    BY <1>0, <1>1
  <2> QED
    BY <1>0, <1>1, <1>6, <1>8, <2>1 DEF SafeInv, SendInv, ProgressInv, Unsent
<1>10. \A b \in Attempt : grantOf'[b] = 0 => Unsent(b, 1)'
  BY <1>0, <1>1, <1>6, <1>7 DEF SafeInv, SendInv, Unsent
<1> QED
  BY <1>2, <1>6, <1>9, <1>10 DEF SafeInv, SendInv

LEMMA NextSegmentStep ==
    ASSUME SafeInv, TypeInv', NEW p \in Poster, PersistSegment(p),
           proc[p].segment # NumSegments
    PROVE  SafeInv'
<1> DEFINE s == proc[p].segment
<1>0. /\ TypeInv /\ TypeOK /\ TypeOK' /\ p \in Process /\ At(p, "persist")
      /\ s \in Segment /\ \A q \in Poster : q \in Process
  BY PostFrame DEF SafeInv, TypeInv, Process, PostStep, PersistSegment
<1>1. /\ proc'[p].pc = "submit" /\ proc'[p].target = proc[p].target
      /\ proc'[p].segment = s + 1
      /\ \A q \in Process \ {p} : proc'[q] = proc[q]
  BY <1>0 DEF PersistSegment, TypeOK, Proc
<1>2. UNCHANGED <<posts, granted, grantOf, withdrawn, started, sent, inflight>>
  BY DEF PersistSegment, remote, history
<1>3. RoleInv' /\ TargetInv' /\ GrantInv'
  BY <1>0, <1>1, <1>2, SendFrame DEF Window, At
<1>4. \A t \in Segment : s \in Nat /\ t \in Nat
  BY <1>0, OneIsSegment
<1>5. ProgressInv'
  BY <1>0, <1>1, <1>2, <1>4
     DEF SafeInv, SendInv, ProgressInv, Unsent, PreWindow, At
<1>6. SendInv'
  BY <1>2, <1>5 DEF SafeInv, SendInv, Unsent, SentOnceInOrder
<1> QED
  BY <1>3, <1>6 DEF SafeInv

LEMMA WithdrawStep ==
    ASSUME SafeInv, TypeInv', NEW r \in Operator, RecClear(r),
           posts.row = "IN_PROGRESS"
    PROVE  SafeInv'
<1>0. /\ TypeInv /\ TypeOK /\ r \in Process
      /\ \A q \in Poster : q \in Process /\ q # r
      /\ \A q \in Operator : q \in Process /\ q \notin Poster
  BY ProcessAssumption DEF SafeInv, TypeInv, Process
<1>1. /\ \A q \in Process \ {r} : proc'[q] = proc[q]
      /\ proc'[r].pc \in {"idle"} \cup RecPC
  BY RecFrame DEF SafeInv, RecStep, Idle
<1>2. /\ UNCHANGED <<sent, inflight, granted, grantOf, started>>
      /\ posts'.row = "absent" /\ withdrawn' = withdrawn + 1
  BY DEF RecClear, remote
<1>3. RoleInv'
  BY <1>0, <1>1 DEF SafeInv, RoleInv
<1>4. TargetInv'
  BY <1>0, <1>1, <1>2 DEF SafeInv, TargetInv, At
<1>5. GrantInv'
  <2>1. granted' = withdrawn' + (IF posts'.row = "absent" THEN 0 ELSE 1)
    BY <1>0, <1>2 DEF SafeInv, GrantInv, TypeOK
  <2> QED
    BY <1>0, <1>1, <1>2, <2>1 DEF SafeInv, GrantInv
<1>6. ProgressInv'
  BY <1>0, <1>1, <1>2 DEF SafeInv, SendInv, ProgressInv, Unsent
<1>7. SendInv'
  BY <1>2, <1>6 DEF SafeInv, SendInv, Unsent, SentOnceInOrder
<1> QED
  BY <1>3, <1>4, <1>5, <1>7 DEF SafeInv

-----------------------------------------------------------------------------
(* The invariant. *)

LEMMA SafeInit == Init => SafeInv
<1> SUFFICES ASSUME Init PROVE SafeInv
  OBVIOUS
<1>0. TypeInv /\ \A q \in Poster \cup Operator : proc[q].pc = "idle"
  BY InitType DEF Init, Idle, Process
<1>1. RoleInv /\ TargetInv
  BY <1>0 DEF RoleInv, TargetInv, At
<1>2. GrantInv
  BY <1>0 DEF Init, GrantInv, PreWindow, Window
<1>3. SendInv
  BY <1>0 DEF Init, SendInv, Unsent, ProgressInv, SentOnceInOrder, PreWindow,
     RemoteId
<1> QED
  BY <1>0, <1>1, <1>2, <1>3 DEF SafeInv

LEMMA SafeStep == SafeInv /\ [Next]_vars => SafeInv'
<1> SUFFICES ASSUME SafeInv, [Next]_vars PROVE SafeInv'
  OBVIOUS
<1>0. /\ TypeInv /\ TypeInv' /\ TypeOK
      /\ \A q \in Poster \cup Operator : q \in Process
  BY TypeStep DEF SafeInv, TypeInv, Process
<1>1. ASSUME NEW d \in Draft, Approve(d) PROVE SafeInv'
  <2>1. UNCHANGED <<proc, posts, sent, inflight, granted, grantOf, withdrawn,
                    started>>
    BY <1>1 DEF Approve, remote, history
  <2> QED
    BY <1>0, <2>1 DEF SafeInv, RoleInv, TargetInv, GrantInv, SendInv, Unsent,
       ProgressInv, SentOnceInOrder, At
<1>2. ASSUME NEW p \in Poster, NEW d \in Draft, PostBegin(p, d) PROVE SafeInv'
  BY <1>0, <1>2, BeginStep
<1>3. ASSUME NEW p \in Poster, PostStep(p) PROVE SafeInv'
  <2>1. CASE Reserve(p) /\ posts.row = "absent"
    BY <1>0, <2>1, ReserveStep
  <2>2. CASE SubmitOk(p) \/ SubmitErr(p)
    BY <1>0, <2>2, SubmitStep
  <2>3. CASE PersistSegment(p) /\ proc[p].segment # NumSegments
    BY <1>0, <2>3, NextSegmentStep
  <2>4. CASE Quiet(p)
    BY <1>0, <2>4, QuietStep
  <2> QED
    BY <1>3, <2>1, <2>2, <2>3, <2>4, QuietPost DEF PostStep
<1>4. ASSUME NEW i \in inflight, LateAccept(i) PROVE SafeInv'
  BY <1>0, <1>4, LateAcceptStep
<1>5. ASSUME NEW r \in Operator, NEW a \in Attempt, NEW d \in Decision,
             NEW id \in LiveIds \cup {Mistyped, NoId}, RecBegin(r, a, d, id)
      PROVE  SafeInv'
  <2>1. /\ proc'[r].pc = "recInsert"
        /\ \A q \in Process \ {r} : proc'[q] = proc[q]
    BY <1>0, <1>5 DEF RecBegin, TypeOK, Idle
  <2>2. UNCHANGED <<posts, sent, inflight, granted, grantOf, withdrawn, started>>
    BY <1>5 DEF RecBegin, store, remote
  <2>3. r \in Process /\ r \notin Poster /\ "recInsert" \in RecPC
    BY <1>0, ProcessAssumption DEF RecPC
  <2>4. RoleInv' /\ TargetInv' /\ GrantInv' /\ ProgressInv'
    BY <1>0, <2>1, <2>2, <2>3 DEF SafeInv, RoleInv, TargetInv, GrantInv,
       SendInv, ProgressInv, Unsent, At
  <2> QED
    BY <1>0, <2>2, <2>4 DEF SafeInv, SendInv, Unsent, SentOnceInOrder
<1>6. ASSUME NEW r \in Operator, RecStep(r) PROVE SafeInv'
  <2>1. CASE RecClear(r) /\ posts.row = "IN_PROGRESS"
    BY <1>0, <2>1, WithdrawStep
  <2>2. CASE ~(RecClear(r) /\ posts.row = "IN_PROGRESS")
    BY <1>0, <1>6, <2>2, QuietRec, QuietStep
  <2> QED
    BY <2>1, <2>2
<1>7. ASSUME NEW p \in Process, Crash(p) PROVE SafeInv'
  <2>1. Quiet(p)
    BY <1>0, <1>7, ExitFields DEF Crash, Quiet, store, remote, history
  <2> QED
    BY <1>0, <2>1, QuietStep
<1>8. ASSUME UNCHANGED vars PROVE SafeInv'
  BY <1>0, <1>8 DEF vars, store, remote, history, SafeInv, RoleInv, TargetInv,
     GrantInv, SendInv, Unsent, ProgressInv, SentOnceInOrder, At
<1> QED
  BY <1>1, <1>2, <1>3, <1>4, <1>5, <1>6, <1>7, <1>8 DEF Next

LEMMA SafeInvariant == Spec => []SafeInv
BY SafeInit, SafeStep, PTL DEF Spec

(* No attempt ever sends a segment twice or out of order, through any crash, *)
(* timeout and late acceptance (post_with_attempt).                          *)
THEOREM SendsAreOrdered == Spec => []SentOnceInOrder
<1>1. SafeInv => SentOnceInOrder
  BY DEF SafeInv, SendInv
<1> QED
  BY <1>1, SafeInvariant, PTL

(* A second thread on X for the same alert is always preceded by the         *)
(* withdrawal of every earlier reservation by an operator.                   *)
THEOREM RepostsAreWithdrawn == Spec => []RepostNeedsWithdrawal
<1>1. SafeInv => RepostNeedsWithdrawal
  <2> SUFFICES ASSUME SafeInv, NEW a \in Attempt, NEW b \in Attempt, a # b,
                      OnX(a) # {}, OnX(b) # {}
               PROVE  grantOf[a] # grantOf[b] /\ grantOf[a] <= withdrawn + 1
    BY DEF RepostNeedsWithdrawal
  <2>1. TypeOK /\ \A t \in Segment : t >= 1
    BY OneIsSegment DEF SafeInv, TypeInv
  <2>2. grantOf[a] # 0 /\ grantOf[b] # 0
    <3>1. PICK s \in Segment, t \in Segment : sent[a][s] > 0 /\ sent[b][t] > 0
      BY DEF OnX
    <3>2. sent[a][s] # 0 /\ sent[b][t] # 0
      BY <3>1
    <3> QED
      BY <2>1, <3>2 DEF SafeInv, SendInv, Unsent
  <2>3. granted <= withdrawn + 1
    BY <2>1 DEF SafeInv, GrantInv, TypeOK
  <2> QED
    BY <2>1, <2>2, <2>3 DEF SafeInv, GrantInv, TypeOK
<1> QED
  BY <1>1, SafeInvariant, PTL

-----------------------------------------------------------------------------
(* The protocol implements ThreadGrants.                                   *)

\* A reservation number never exceeds the number of attempts: numbers given
\* out are given to different attempts.
LEMMA GrantsBounded == SafeInv => granted \in Nat /\ granted <= MaxAttempts
<1> SUFFICES ASSUME SafeInv, granted > MaxAttempts PROVE FALSE
  BY MaxAttemptsAssumption DEF SafeInv, TypeInv, TypeOK
<1>0. granted \in Nat /\ MaxAttempts \in Nat
  BY MaxAttemptsAssumption DEF SafeInv, TypeInv, TypeOK
<1> DEFINE owner == [g \in 1..granted |-> CHOOSE a \in Attempt : grantOf[a] = g]
<1>1. \A g \in 1..granted : owner[g] \in Attempt /\ grantOf[owner[g]] = g
  BY DEF SafeInv, GrantInv
<1>2. owner \in [1..granted -> Attempt]
  BY <1>1
<1>3. /\ IsFiniteSet(1..granted) /\ Cardinality(1..granted) = granted
      /\ IsFiniteSet(Attempt) /\ Cardinality(Attempt) = MaxAttempts
  <2>1. 1..granted = {} \/ granted >= 1
    BY <1>0
  <2> QED
    BY <1>0, FS_Interval DEF Attempt
<1> HIDE DEF owner
<1>4. \E g, h \in 1..granted : g # h /\ owner[g] = owner[h]
  BY <1>0, <1>2, <1>3, FS_PigeonHole
<1> QED
  BY <1>1, <1>4

\* An accepted post is a Send of the grant its attempt holds.
LEMMA AcceptIsSend ==
    ASSUME SafeInv, NEW a \in Attempt, NEW s \in Segment, Accept(a, s),
           UNCHANGED <<posts, granted, grantOf>>,
           grantOf[a] # 0, sent[a][s] = 0,
           \A t \in Segment : t < s => sent[a][t] = 1
    PROVE  Thread!Next
<1> DEFINE g == grantOf[a]
<1>0. /\ grantOf \in [Attempt -> Nat] /\ sent \in [Attempt -> [Segment -> Nat]]
      /\ \A b \in Attempt : grantOf[b] = g => b = a
  BY DEF SafeInv, TypeInv, TypeOK, GrantInv
<1>1. g \in Attempt /\ g <= granted
  BY <1>0, GrantsBounded, MaxAttemptsAssumption DEF SafeInv, GrantInv, Attempt
<1>2. s \notin Delivered[g]
  BY <1>0, <1>1 DEF Delivered
<1>3. \A t \in 1..(s - 1) : t \in Delivered[g]
  <2> SUFFICES ASSUME NEW t \in 1..(s - 1) PROVE t \in Delivered[g]
    OBVIOUS
  <2>1. t \in Segment /\ t < s
    BY NumSegmentsAssumption DEF Segment
  <2>2. sent[a][t] > 0
    BY <2>1
  <2> QED
    BY <1>1, <2>1, <2>2 DEF Delivered
<1>4. Delivered' = [Delivered EXCEPT ![g] = @ \cup {s}]
  <2> DEFINE D(h) == {t \in Segment : \E b \in Attempt : grantOf[b] = h /\ sent[b][t] > 0}
             E(h) == {t \in Segment : \E b \in Attempt : grantOf[b] = h /\ sent'[b][t] > 0}
  <2>1. /\ Delivered = [h \in Attempt |-> D(h)]
        /\ Delivered' = [h \in Attempt |-> E(h)]
    BY DEF Delivered
  <2>2. \A b \in Attempt, t \in Segment :
           sent'[b][t] = IF b = a /\ t = s THEN sent[b][t] + 1 ELSE sent[b][t]
    BY <1>0 DEF Accept
  <2>3. ASSUME NEW h \in Attempt, h # g PROVE E(h) = D(h)
    <3>1. \A b \in Attempt, t \in Segment : grantOf[b] = h => sent'[b][t] = sent[b][t]
      BY <2>2, <2>3
    <3> QED
      BY <3>1
  <2>4. E(g) = D(g) \cup {s}
    <3>1. \A t \in Segment : t \in D(g) <=> sent[a][t] > 0
      BY <1>0
    <3>2. \A t \in Segment : t \in E(g) <=> sent'[a][t] > 0
      BY <1>0
    <3>3. \A t \in Segment : sent'[a][t] > 0 <=> sent[a][t] > 0 \/ t = s
      BY <1>0, <2>2
    <3> QED
      BY <3>1, <3>2, <3>3
  <2> HIDE DEF D, E
  <2> QED
    BY <1>1, <2>1, <2>3, <2>4
<1>5. Thread!Send(g, s)
  BY <1>1, <1>2, <1>3, <1>4 DEF Thread!Send
<1> QED
  BY <1>1, <1>5 DEF Thread!Next, Thread!Grants, Thread!Segment, Attempt, Segment

\* Steps that leave the grants and the posts alone, and the row as it is.
LEMMA Stutter ==
    ASSUME UNCHANGED <<sent, granted, grantOf>>, posts'.row = posts.row
    PROVE  UNCHANGED Thread!vars
BY DEF Thread!vars, Delivered

LEMMA ReserveIsGrant ==
    ASSUME SafeInv, NEW p \in Poster, Reserve(p), posts.row = "absent"
    PROVE  Thread!Grant
<1> DEFINE a == proc[p].target
<1>0. /\ grantOf \in [Attempt -> Nat] /\ sent \in [Attempt -> [Segment -> Nat]]
      /\ granted \in Nat /\ At(p, "reserve") /\ a \in Attempt
  BY DEF SafeInv, TypeInv, TypeOK, Reserve, At, Process
<1>1. /\ posts'.row = "IN_PROGRESS" /\ granted' = granted + 1
      /\ grantOf' = [grantOf EXCEPT ![a] = granted + 1] /\ sent' = sent
  BY DEF Reserve, remote
<1>2. grantOf[a] = 0 /\ \A s \in Segment : sent[a][s] = 0
  <2>1. grantOf[a] = 0
    BY <1>0 DEF SafeInv, GrantInv, PreWindow, At
  <2>2. \A s \in Segment : s >= 1
    BY OneIsSegment
  <2> QED
    BY <1>0, <2>1, <2>2 DEF SafeInv, SendInv, Unsent
<1>3. \A b \in Attempt : grantOf[b] # granted + 1
  BY <1>0 DEF SafeInv, GrantInv
<1>4. ASSUME NEW h \in Attempt, NEW t \in Segment
      PROVE  (\E b \in Attempt : grantOf[b] = h /\ sent[b][t] > 0)
               <=> (\E b \in Attempt : grantOf'[b] = h /\ sent'[b][t] > 0)
  <2>1. \A b \in Attempt : sent[b][t] > 0 => b # a
    BY <1>2
  <2>2. \A b \in Attempt : b # a => grantOf'[b] = grantOf[b]
    BY <1>0, <1>1
  <2> QED
    BY <1>1, <2>1, <2>2
<1>5. Delivered' = Delivered
  BY <1>4 DEF Delivered
<1> QED
  BY <1>1, <1>5 DEF Thread!Grant

LEMMA GrantsStep == SafeInv /\ [Next]_vars => [Thread!Next]_(Thread!vars)
<1> SUFFICES ASSUME SafeInv, [Next]_vars
             PROVE  Thread!Next \/ UNCHANGED Thread!vars
  OBVIOUS
<1>0. /\ TypeInv /\ TypeOK /\ posts.row \in {"absent", "IN_PROGRESS", "final"}
      /\ \A q \in Poster \cup Operator : q \in Process
  BY DEF SafeInv, TypeInv, TypeOK, Process
<1>1. ASSUME NEW d \in Draft, Approve(d) PROVE UNCHANGED Thread!vars
  BY <1>1, Stutter DEF Approve, remote, history
<1>2. ASSUME NEW p \in Poster, NEW d \in Draft, PostBegin(p, d)
      PROVE  UNCHANGED Thread!vars
  BY <1>2, Stutter DEF PostBegin, store, remote
\* mark_posted, reached from either command.
<1>m. ASSUME NEW p \in Process, posts' = Marked(p), UNCHANGED <<remote, history>>
      PROVE  Thread!Next \/ UNCHANGED Thread!vars
  <2>1. Delivered' = Delivered /\ granted' = granted
    BY <1>m DEF Delivered, remote, history
  <2>2. posts.row = "IN_PROGRESS" => posts'.row = "final"
    BY <1>m DEF Marked
  <2>3. posts.row # "IN_PROGRESS" => posts'.row = posts.row
    BY <1>0, <1>m DEF Marked
  <2> QED
    BY <2>1, <2>2, <2>3 DEF Thread!Next, Thread!Finish, Thread!vars
<1>3. ASSUME NEW p \in Poster, PostStep(p)
      PROVE  Thread!Next \/ UNCHANGED Thread!vars
  <2>1. CASE Reserve(p) /\ posts.row = "absent"
    BY <2>1, ReserveIsGrant DEF Thread!Next
  <2>2. CASE SubmitOk(p) \/ SubmitErr(p)
    <3> DEFINE a == proc[p].target
               s == proc[p].segment
    <3>1. /\ a \in Attempt /\ s \in Segment /\ At(p, "submit")
      BY <1>0, <2>2, PostFrame DEF PostStep, SubmitOk, SubmitErr
    <3>2. /\ Unsent(a, s) /\ \A t \in Segment : t < s => sent[a][t] = 1
          /\ grantOf[a] # 0
      BY <3>1 DEF SafeInv, SendInv, ProgressInv, At, GrantInv, Window
    <3>5. sent[a][s] = 0
      <4>1. s \in Segment /\ s \in Nat
        BY <3>1, OneIsSegment
      <4>2. \A t \in Segment : t >= s => sent[a][t] = 0
        BY <3>2 DEF Unsent
      <4> HIDE DEF s, a
      <4> QED
        BY <4>1, <4>2
    <3>3. UNCHANGED <<posts, granted, grantOf>>
      BY <2>2 DEF SubmitOk, SubmitErr, store, history
    <3>4. Accept(a, s) \/ UNCHANGED sent
      BY <2>2 DEF SubmitOk, SubmitErr
    <3> QED
      BY <3>1, <3>2, <3>3, <3>4, <3>5, AcceptIsSend, Stutter
  <2>3. CASE MarkPosted(p)
    BY <1>0, <1>m, <2>3 DEF MarkPosted
  <2>4. CASE \/ Guard(p) \/ CheckPosted(p) \/ InsertAttempt(p)
             \/ RecordSegment(p) \/ PersistSegment(p) \/ PersistUncertain(p)
             \/ PersistComplete(p) \/ (Reserve(p) /\ posts.row # "absent")
    BY <2>4, Stutter DEF Guard, CheckPosted, InsertAttempt, RecordSegment,
       PersistSegment, PersistUncertain, PersistComplete, Reserve, store,
       remote, history
  <2> QED
    BY <1>3, <2>1, <2>2, <2>3, <2>4 DEF PostStep
<1>4. ASSUME NEW i \in inflight, LateAccept(i) PROVE Thread!Next
  <2>1. i[1] \in Attempt /\ i[2] \in Segment /\ i = <<i[1], i[2]>>
    <3>1. i \in Attempt \X Segment
      BY <1>0 DEF TypeOK, RemoteId
    <3> QED
      BY <3>1
  <2>2. /\ sent[i[1]][i[2]] = 0
        /\ \A t \in Segment : t < i[2] => sent[i[1]][t] = 1
    <3>1. \A t \in Segment : t < i[2] => t \in 1..(i[2] - 1)
      BY <2>1, NumSegmentsAssumption DEF Segment
    <3> QED
      BY <2>1, <3>1 DEF SafeInv, SendInv, SentOnceInOrder
  <2>3. grantOf[i[1]] # 0
    <3>1. i[2] >= 1
      BY <2>1, OneIsSegment
    <3> QED
      BY <2>1, <3>1 DEF SafeInv, SendInv, Unsent
  <2> QED
    BY <1>4, <2>1, <2>2, <2>3, AcceptIsSend DEF LateAccept, store, history
<1>5. ASSUME NEW r \in Operator, NEW a \in Attempt, NEW d \in Decision,
             NEW id \in LiveIds \cup {Mistyped, NoId}, RecBegin(r, a, d, id)
      PROVE  UNCHANGED Thread!vars
  BY <1>5, Stutter DEF RecBegin, store, remote
<1>6. ASSUME NEW r \in Operator, RecStep(r)
      PROVE  Thread!Next \/ UNCHANGED Thread!vars
  <2>1. CASE RecMark(r)
    BY <1>0, <1>m, <2>1 DEF RecMark
  <2>2. CASE RecClear(r)
    <3>1. Delivered' = Delivered /\ granted' = granted
      BY <2>2 DEF RecClear, Delivered, remote
    <3>2. \/ posts.row = "IN_PROGRESS" /\ posts'.row = "absent"
          \/ posts'.row = posts.row
      BY <2>2 DEF RecClear
    <3> QED
      BY <3>1, <3>2 DEF Thread!Next, Thread!Withdraw, Thread!vars
  <2>3. CASE RecInsert(r) \/ RecRecord(r) \/ RecCheck(r) \/ RecPersist(r)
    BY <2>3, Stutter DEF RecInsert, RecRecord, RecCheck, RecPersist, store,
       remote, history
  <2> QED
    BY <1>6, <2>1, <2>2, <2>3 DEF RecStep
<1>7. ASSUME NEW p \in Process, Crash(p) PROVE UNCHANGED Thread!vars
  BY <1>7, Stutter DEF Crash, store, remote, history
<1>8. ASSUME UNCHANGED vars PROVE UNCHANGED Thread!vars
  BY <1>8, Stutter DEF vars, store, remote, history
<1> QED
  BY <1>1, <1>2, <1>3, <1>4, <1>5, <1>6, <1>7, <1>8 DEF Next

LEMMA GrantsInit == Init => Thread!Init
<1> SUFFICES ASSUME Init PROVE Thread!Init
  OBVIOUS
<1>1. \A h \in Attempt : \A b \in Attempt : grantOf[b] # h
  BY DEF Init, Attempt
<1>2. Delivered = [g \in Attempt |-> {}]
  BY <1>1 DEF Delivered
<1> QED
  BY <1>2 DEF Init, Thread!Init, Thread!Grants, Attempt

(* Whatever crashes, timeouts, late answers and interleavings happen, the    *)
(* commands of pnull x keep the promise of ThreadGrants: one grant at a      *)
(* time, a withdrawal before the next one, none after the thread is final,   *)
(* and under each grant a prefix of the thread, each segment once.           *)
THEOREM PostingImplementsGrants == Spec => ImplementsThreadGrants
<1>1. Spec => Thread!Spec
  BY GrantsInit, GrantsStep, SafeInvariant, PTL DEF Spec, Thread!Spec
<1> QED
  BY <1>1 DEF ImplementsThreadGrants

-----------------------------------------------------------------------------
(* What the store knows of X.                                              *)

(* The invariants. *)

\* An id that names an existing post or was typed by an operator, or no id.
IsAccounted(i) == i # NoId => i \in LiveIds \cup ConfirmedIds

\* Every id the store or a command's memory holds is accounted for, but for
\* the one an operator has typed and the command has not recorded yet.
AccountInv ==
    /\ \A s \in Segment : IsAccounted(post_segments[s]) /\ IsAccounted(posts.ids[s])
    /\ \A a \in Attempt, s \in Segment : IsAccounted(attempts[a].remote[s])
    /\ \A p \in Process : At(p, "recInsert") \/ IsAccounted(proc[p].id)
    /\ \A p \in Process, s \in Segment : IsAccounted(proc[p].copy.remote[s])

\* A row, stored or in memory, is one of the approved draft.
OfApproved(r) == approval # NoDraft /\ r.status # "none" /\ r.draft = approval

\* An attempt has its row before it asks for the reservation.
DraftInv ==
    /\ \A p \in Process : ~At(p, "idle") => OfApproved(proc[p].copy)
    /\ \A a \in Attempt : attempts[a].status # "none" => OfApproved(attempts[a])
    /\ \A p \in Poster : proc[p].pc \in {"reserve"} \cup Window =>
          attempts[proc[p].target].status # "none"
    /\ \A a \in Attempt : grantOf[a] # 0 => attempts[a].status # "none"

\* While the reservation stands, the command that holds it has recorded every
\* segment before the one it is at.
Holds(p) == posts.row = "IN_PROGRESS" /\ grantOf[proc[p].target] = granted
RowsInv ==
    /\ \A p \in Poster :
          /\ proc[p].pc \in {"submit", "record"} /\ Holds(p) =>
                \A s \in Segment : s < proc[p].segment => post_segments[s] # NoId
          /\ proc[p].pc = "persist" /\ Holds(p) =>
                \A s \in Segment : s <= proc[p].segment => post_segments[s] # NoId
    /\ CrashLosesAtMostOneSegment

\* The copy of a sending command names its own posts, all of them at the end;
\* and without an overlap nobody posts while an operator is about to mark.
OwnIds(p, n) == \A s \in Segment : s <= n => proc[p].copy.remote[s] = <<proc[p].target, s>>
ThreadInv ==
    /\ \A p \in Poster :
          /\ proc[p].pc \in {"submit", "record"} => OwnIds(p, proc[p].segment - 1)
          /\ proc[p].pc = "persist" => OwnIds(p, proc[p].segment)
          /\ proc[p].pc \in {"complete", "mark"} =>
                OwnIds(p, NumSegments) /\ OnX(proc[p].target) = Segment
    /\ ~overlapped =>
          /\ ~(Busy(Poster) /\ Busy(Operator))
          /\ \A r \in Operator : At(r, "recMark") => posts.row = "absent"
    /\ FinalThreadIsWhole

-----------------------------------------------------------------------------
(* What a step does to the memory of its process. *)

LEMMA IdleFields ==
    /\ Idle.pc = "idle" /\ Idle.id = NoId
    /\ \A s \in Segment : Idle.copy.remote[s] = NoId
BY DEF Idle, NoRow, NoIds

\* The other ways in which a step changes the memory of its process.
SetStatus(p, step, st) == proc' = [proc EXCEPT ![p].pc = step, ![p].copy.status = st]
SetRemote(p, step, k, i) == proc' = [proc EXCEPT ![p].pc = step, ![p].copy.remote[k] = i]
Advance(p) == proc' = [proc EXCEPT ![p].pc = "submit", ![p].segment = @ + 1]

LEMMA StatusFields ==
    ASSUME TypeInv, NEW p \in Process, NEW step, NEW st, SetStatus(p, step, st)
    PROVE  /\ proc'[p].pc = step /\ proc'[p].target = proc[p].target
           /\ proc'[p].segment = proc[p].segment /\ proc'[p].id = proc[p].id
           /\ proc'[p].copy.status = st
           /\ proc'[p].copy.draft = proc[p].copy.draft
           /\ proc'[p].copy.remote = proc[p].copy.remote
           /\ \A q \in Process \ {p} : proc'[q] = proc[q]
BY DEF SetStatus, TypeInv, TypeOK, Proc, AttemptRow

LEMMA RemoteFields ==
    ASSUME TypeInv, NEW p \in Process, NEW step, NEW k, NEW i,
           SetRemote(p, step, k, i)
    PROVE  /\ proc'[p].pc = step /\ proc'[p].target = proc[p].target
           /\ proc'[p].segment = proc[p].segment /\ proc'[p].id = proc[p].id
           /\ proc'[p].copy.status = proc[p].copy.status
           /\ proc'[p].copy.draft = proc[p].copy.draft
           /\ \A s \in Segment : proc'[p].copy.remote[s] =
                 IF s = k THEN i ELSE proc[p].copy.remote[s]
           /\ \A q \in Process \ {p} : proc'[q] = proc[q]
<1>1. /\ proc \in [Process -> Proc] /\ proc[p] \in Proc
      /\ proc[p].copy \in AttemptRow
      /\ proc[p].copy.remote \in [Segment -> Id]
  BY DEF TypeInv, TypeOK, Proc, AttemptRow, Ids
<1> QED
  BY <1>1 DEF SetRemote, Proc, AttemptRow

LEMMA NextFields ==
    ASSUME TypeInv, NEW p \in Process, Advance(p)
    PROVE  /\ proc'[p].pc = "submit" /\ proc'[p].target = proc[p].target
           /\ proc'[p].segment = proc[p].segment + 1
           /\ proc'[p].id = proc[p].id /\ proc'[p].copy = proc[p].copy
           /\ \A q \in Process \ {p} : proc'[q] = proc[q]
BY DEF Advance, TypeInv, TypeOK, Proc

\* A post command keeps its copy, but for the segment it has recorded.
LEMMA PostFields ==
    ASSUME TypeInv, NEW p \in Poster, PostStep(p)
    PROVE  \/ proc'[p] = Idle
           \/ /\ proc'[p].target = proc[p].target /\ proc'[p].id = proc[p].id
              /\ proc'[p].copy.status = proc[p].copy.status
              /\ proc'[p].copy.draft = proc[p].copy.draft
              /\ \/ proc'[p].copy.remote = proc[p].copy.remote
                 \/ /\ RecordSegment(p)
                    /\ \A s \in Segment : proc'[p].copy.remote[s] =
                          IF s = proc[p].segment THEN <<proc[p].target, s>>
                          ELSE proc[p].copy.remote[s]
<1>0. p \in Process
  BY PostFrame
<1>1. CASE Exit(p)
  BY <1>0, <1>1, ExitFields
<1>2. CASE \E step \in PostPC : Goto(p, step)
  BY <1>0, <1>2, GotoFields
<1>3. CASE RecordSegment(p)
  <2> DEFINE k == proc[p].segment
             i == <<proc[p].target, proc[p].segment>>
  <2>1. Exit(p) \/ SetRemote(p, "persist", k, i)
    BY <1>3 DEF RecordSegment, SetRemote
  <2> HIDE DEF k, i
  <2>2. CASE SetRemote(p, "persist", k, i)
    <3>1. /\ proc'[p].target = proc[p].target /\ proc'[p].id = proc[p].id
          /\ proc'[p].copy.status = proc[p].copy.status
          /\ proc'[p].copy.draft = proc[p].copy.draft
          /\ \A s \in Segment : proc'[p].copy.remote[s] =
                IF s = k THEN i ELSE proc[p].copy.remote[s]
      BY <1>0, <2>2, RemoteFields
    <3> QED
      BY <1>3, <3>1 DEF k, i
  <2> QED
    BY <1>1, <2>1, <2>2
<1>4. CASE PersistSegment(p)
  <2>1. Advance(p) \/ Goto(p, "complete")
    BY <1>4 DEF PersistSegment, Advance
  <2> QED
    BY <1>0, <2>1, NextFields, GotoFields
<1> QED
  BY <1>1, <1>2, <1>3, <1>4 DEF PostStep, Guard, CheckPosted, InsertAttempt,
     Reserve, SubmitOk, SubmitErr, PersistUncertain, PersistComplete, MarkPosted,
     PostPC

\* A reconciliation keeps its copy, but for a status and the id it confirms.
LEMMA RecFields ==
    ASSUME TypeInv, NEW r \in Operator, RecStep(r)
    PROVE  \/ proc'[r] = Idle
           \/ /\ proc'[r].target = proc[r].target /\ proc'[r].id = proc[r].id
              /\ \/ proc'[r].copy.status = proc[r].copy.status
                 \/ proc'[r].copy.status # "none"
              /\ proc'[r].copy.draft = proc[r].copy.draft
              /\ \A s \in Segment : \/ proc'[r].copy.remote[s] = proc[r].copy.remote[s]
                                    \/ /\ proc'[r].copy.remote[s] = proc[r].id
                                       /\ ~At(r, "recInsert")
<1>0. r \in Process
  BY RecFrame
<1>1. CASE RecInsert(r)
  <2>1. \/ Exit(r) \/ \E step \in RecPC : Goto(r, step)
        \/ SetStatus(r, "recPersist", "abandoned")
    BY <1>1 DEF RecInsert, RecPC, SetStatus
  <2>2. CASE Exit(r)
    BY <1>0, <2>2, ExitFields
  <2>3. CASE \E step \in RecPC : Goto(r, step)
    BY <1>0, <2>3, GotoFields
  <2>4. CASE SetStatus(r, "recPersist", "abandoned")
    BY <1>0, <2>4, StatusFields
  <2> QED
    BY <2>1, <2>2, <2>3, <2>4
<1>2. CASE RecRecord(r)
  <2> DEFINE k == FirstMissing(proc[r].copy)
             i == proc[r].id
  <2>1. Exit(r) \/ SetRemote(r, "recCheck", k, i)
    BY <1>2 DEF RecRecord, SetRemote
  <2> HIDE DEF k
  <2>2. CASE Exit(r)
    BY <1>0, <2>2, ExitFields
  <2>3. CASE SetRemote(r, "recCheck", k, i)
    <3>1. ~At(r, "recInsert")
      BY <1>2 DEF RecRecord, At
    <3> QED
      BY <1>0, <2>3, <3>1, RemoteFields
  <2> QED
    BY <2>1, <2>2, <2>3
<1>3. CASE RecCheck(r)
  <2>1. PICK step \in {"recMark", "recPersist"} :
          SetStatus(r, step, "reconciled")
    BY <1>3 DEF RecCheck, SetStatus
  <2> QED
    BY <1>0, <2>1, StatusFields
<1>4. CASE RecMark(r)
  BY <1>0, <1>4, GotoFields DEF RecMark
<1>5. CASE RecClear(r)
  <2> DEFINE st == IF proc[r].decision = "partial" THEN "partial" ELSE "reconciled"
  <2>1. SetStatus(r, "recPersist", st)
        /\ st # "none"
    BY <1>5 DEF RecClear, SetStatus
  <2> HIDE DEF st
  <2> QED
    BY <1>0, <2>1, StatusFields
<1>6. CASE RecPersist(r)
  BY <1>0, <1>6, ExitFields DEF RecPersist
<1> QED
  BY <1>1, <1>2, <1>3, <1>4, <1>5, <1>6 DEF RecStep

-----------------------------------------------------------------------------
(* Recorded ids. *)

\* Nothing that X accepted goes away.
LEMMA SentGrows ==
    ASSUME TypeInv, [Next]_vars
    PROVE  /\ \A a \in Attempt, s \in Segment : sent[a][s] > 0 => sent'[a][s] > 0
           /\ LiveIds \subseteq LiveIds'
<1>0. /\ sent \in [Attempt -> [Segment -> Nat]] /\ inflight \subseteq RemoteId
      /\ \A p \in Poster : PostStep(p) =>
            proc[p].target \in Attempt /\ proc[p].segment \in Segment
  BY PostFrame DEF TypeInv, TypeOK
<1>1. \/ sent' = sent
      \/ \E a \in Attempt, s \in Segment : Accept(a, s)
  <2>1. ASSUME NEW p \in Poster, PostStep(p)
        PROVE  sent' = sent \/ Accept(proc[p].target, proc[p].segment)
    BY <2>1 DEF PostStep, Guard, CheckPosted, InsertAttempt, Reserve, SubmitOk,
       SubmitErr, RecordSegment, PersistSegment, PersistUncertain,
       PersistComplete, MarkPosted, remote
  <2>2. ASSUME NEW i \in inflight, LateAccept(i)
        PROVE  i[1] \in Attempt /\ i[2] \in Segment /\ Accept(i[1], i[2])
    BY <1>0, <2>2 DEF LateAccept, RemoteId
  <2>3. ASSUME NEW r \in Operator, RecStep(r) PROVE sent' = sent
    BY <2>3 DEF RecStep, RecInsert, RecRecord, RecCheck, RecMark, RecClear,
       RecPersist, remote
  <2> QED
    BY <1>0, <2>1, <2>2, <2>3
       DEF Next, Approve, PostBegin, RecBegin, Crash, remote, vars
<1>2. \A a \in Attempt, s \in Segment : sent'[a][s] = sent[a][s] \/ sent'[a][s] = sent[a][s] + 1
  BY <1>0, <1>1 DEF Accept
<1>3. \A a \in Attempt, s \in Segment : sent[a][s] > 0 => sent'[a][s] > 0
  BY <1>0, <1>2
<1>4. ASSUME NEW i \in LiveIds PROVE i \in LiveIds'
  <2>1. i \in RemoteId /\ i[1] \in Attempt /\ i[2] \in Segment
    BY DEF LiveIds, RemoteId
  <2> QED
    BY <1>3, <2>1 DEF LiveIds
<1> QED
  BY <1>3, <1>4

\* Nor does a reconciliation, and each is recorded before it is acted on.
LEMMA ConfirmedGrows ==
    ASSUME TypeInv, [Next]_vars
    PROVE  /\ ConfirmedIds \subseteq ConfirmedIds'
           /\ \A r \in Operator : RecInsert(r) => proc[r].id \in ConfirmedIds'
<1>0. reconciliations \in Seq(Reconciliation) /\ \A r \in Operator : r \in Process
  BY DEF TypeInv, TypeOK, Process
<1>1. ASSUME NEW row,
             reconciliations' = Append(reconciliations, row)
      PROVE  ConfirmedIds' = ConfirmedIds \cup {row.id}
  <2>1. /\ Len(reconciliations) \in Nat
        /\ DOMAIN reconciliations = 1..Len(reconciliations)
        /\ DOMAIN reconciliations' = 1..(Len(reconciliations) + 1)
        /\ \A k \in 1..Len(reconciliations) : reconciliations'[k] = reconciliations[k]
        /\ reconciliations'[Len(reconciliations) + 1] = row
    BY <1>0, <1>1
  <2> QED
    BY <2>1 DEF ConfirmedIds
<1>2. ASSUME NEW r \in Operator, RecInsert(r)
      PROVE  ConfirmedIds' = ConfirmedIds \cup {proc[r].id}
  BY <1>1, <1>2 DEF RecInsert
<1>3. UNCHANGED reconciliations => ConfirmedIds' = ConfirmedIds
  BY DEF ConfirmedIds
<1>4. \/ UNCHANGED reconciliations
      \/ \E r \in Operator : RecInsert(r)
  BY DEF Next, Approve, PostBegin, LateAccept, RecBegin, Crash, PostStep, Guard,
     CheckPosted, InsertAttempt, Reserve, SubmitOk, SubmitErr, RecordSegment,
     PersistSegment, PersistUncertain, PersistComplete, MarkPosted, RecStep,
     RecRecord, RecCheck, RecMark, RecClear, RecPersist, store, vars
<1> QED
  BY <1>2, <1>3, <1>4

\* The memory of a command stays accounted for through its own steps.
LEMMA MemoryIsAccounted ==
    ASSUME SafeInv, AccountInv, NEW p \in Process,
           (p \in Poster /\ PostStep(p)) \/ (p \in Operator /\ RecStep(p))
    PROVE  /\ \/ IsAccounted(proc'[p].id)
              \/ /\ p \in Operator /\ RecInsert(p)
                 /\ proc'[p].id = proc[p].id
           /\ \A s \in Segment : IsAccounted(proc'[p].copy.remote[s])
<1>0. TypeInv
  BY DEF SafeInv
<1>1. /\ At(p, "recInsert") \/ IsAccounted(proc[p].id)
      /\ \A s \in Segment : IsAccounted(proc[p].copy.remote[s])
  BY DEF AccountInv
<1>2. CASE proc'[p] = Idle
  <2>1. IsAccounted(NoId)
    BY DEF IsAccounted
  <2> QED
    BY <1>2, <2>1, IdleFields
<1>3. CASE p \in Operator /\ RecStep(p) /\ proc'[p] # Idle
  <2>1. At(p, "recInsert") => RecInsert(p)
    BY <1>3 DEF RecStep, RecRecord, RecCheck, RecMark, RecClear, RecPersist, At
  <2>2. /\ proc'[p].id = proc[p].id
        /\ \A s \in Segment : \/ proc'[p].copy.remote[s] = proc[p].copy.remote[s]
                              \/ /\ proc'[p].copy.remote[s] = proc[p].id
                                 /\ ~At(p, "recInsert")
    BY <1>0, <1>3, RecFields
  <2>3. \A s \in Segment : IsAccounted(proc'[p].copy.remote[s])
    BY <1>1, <2>2
  <2> QED
    BY <1>1, <1>3, <2>1, <2>2, <2>3
<1>4. CASE p \in Poster /\ PostStep(p) /\ proc'[p] # Idle
  <2>1. ASSUME RecordSegment(p)
        PROVE  IsAccounted(<<proc[p].target, proc[p].segment>>)
    <3>1. /\ proc[p].target \in Attempt /\ proc[p].segment \in Segment
          /\ proc[p].pc = "record"
      BY <1>0, <1>4, <2>1, PostFrame DEF RecordSegment, At
    <3>2. \A s \in Segment : s \in Nat /\ s <= s
      BY OneIsSegment
    <3>3. sent[proc[p].target][proc[p].segment] = 1
      BY <1>4, <3>1, <3>2 DEF SafeInv, SendInv, ProgressInv
    <3> QED
      BY <3>1, <3>3 DEF IsAccounted, LiveIds, RemoteId
  <2>2. IsAccounted(proc[p].id)
    BY <1>0, <1>1, <1>4, PostFrame DEF At, PostPC
  <2>3. /\ proc'[p].id = proc[p].id
        /\ \/ proc'[p].copy.remote = proc[p].copy.remote
           \/ /\ RecordSegment(p)
              /\ \A s \in Segment : proc'[p].copy.remote[s] =
                    IF s = proc[p].segment THEN <<proc[p].target, s>>
                    ELSE proc[p].copy.remote[s]
    BY <1>0, <1>4, PostFields
  <2>4. \A s \in Segment : IsAccounted(proc'[p].copy.remote[s])
    BY <1>1, <2>1, <2>3
  <2> QED
    BY <2>2, <2>3, <2>4
<1> QED
  BY <1>2, <1>3, <1>4

LEMMA AccountInit == Init => AccountInv
BY DEF Init, AccountInv, IsAccounted, NoIds, NoRow, Idle

LEMMA AccountStep == SafeInv /\ AccountInv /\ [Next]_vars => AccountInv'
<1> SUFFICES ASSUME SafeInv, AccountInv, [Next]_vars PROVE AccountInv'
  OBVIOUS
<1>0. /\ TypeInv /\ TypeOK /\ \A p \in Poster \cup Operator : p \in Process
      /\ \A s \in Segment : NoIds[s] = NoId
  BY DEF SafeInv, TypeInv, Process, NoIds
<1>1. LiveIds \subseteq LiveIds' /\ ConfirmedIds \subseteq ConfirmedIds'
  BY <1>0, SentGrows, ConfirmedGrows
\* So it is enough that what is stored or remembered now was accounted for
\* before, or is an id that has just been recorded.
<1>2. SUFFICES
        /\ \A s \in Segment : IsAccounted(post_segments'[s]) /\ IsAccounted(posts'.ids[s])
        /\ \A a \in Attempt, s \in Segment : IsAccounted(attempts'[a].remote[s])
        /\ \A p \in Process : \/ proc'[p].pc = "recInsert"
                               \/ IsAccounted(proc'[p].id)
                               \/ proc'[p].id \in ConfirmedIds'
        /\ \A p \in Process, s \in Segment : IsAccounted(proc'[p].copy.remote[s])
  BY <1>1, <1>2 DEF AccountInv, IsAccounted, At
<1> DEFINE StoreAccounted == /\ \A s \in Segment : IsAccounted(post_segments'[s]) /\ IsAccounted(posts'.ids[s])
                        /\ \A a \in Attempt, s \in Segment : IsAccounted(attempts'[a].remote[s])
           IdAccounted(p) == \/ proc'[p].pc = "recInsert"
                             \/ IsAccounted(proc'[p].id)
                             \/ proc'[p].id \in ConfirmedIds'
           MemoryAccounted == /\ \A p \in Process : IdAccounted(p)
                              /\ \A p \in Process, s \in Segment : IsAccounted(proc'[p].copy.remote[s])
\* Rows written from the memory of a command.
<1>3. ASSUME NEW p \in Process, NEW row, Persist(p, row), proc[p].target \in Attempt,
             \A s \in Segment : IsAccounted(row.remote[s])
      PROVE  \A a \in Attempt, s \in Segment : IsAccounted(attempts'[a].remote[s])
  BY <1>0, <1>3 DEF Persist, AccountInv, TypeOK
<1>4. ASSUME NEW p \in Process, posts' = Marked(p)
      PROVE  \A s \in Segment : IsAccounted(posts'.ids[s])
  BY <1>4 DEF Marked, AccountInv
\* The memory of the process that takes the step, and of the others.
<1>5. ASSUME NEW p \in Process,
             \A q \in Process \ {p} : proc'[q] = proc[q],
             IdAccounted(p), \A s \in Segment : IsAccounted(proc'[p].copy.remote[s])
      PROVE  MemoryAccounted
  BY <1>5 DEF AccountInv, At
<1>6. UNCHANGED <<post_segments, posts, attempts>> => StoreAccounted
  BY DEF AccountInv
<1>7. ASSUME UNCHANGED proc PROVE MemoryAccounted
  BY <1>7 DEF AccountInv, At
<1>8. ASSUME NEW p \in Poster, PostStep(p) PROVE StoreAccounted /\ MemoryAccounted
  <2>0. /\ p \in Process /\ proc[p].target \in Attempt /\ proc[p] \in Proc
        /\ proc[p].segment \in Segment /\ proc[p].copy \in AttemptRow
        /\ \A q \in Process \ {p} : proc'[q] = proc[q]
        /\ \A s \in Segment : IsAccounted(proc[p].copy.remote[s])
    BY <1>0, <1>8, PostFrame DEF AccountInv
  <2>1. MemoryAccounted
    <3>1. p \notin Operator
      BY <1>8, ProcessAssumption
    <3>2. /\ IsAccounted(proc'[p].id)
          /\ \A s \in Segment : IsAccounted(proc'[p].copy.remote[s])
      BY <1>8, <2>0, <3>1, MemoryIsAccounted
    <3> QED
      BY <1>5, <2>0, <3>2
  <2>2. ASSUME RecordSegment(p) PROVE StoreAccounted
    <3> DEFINE k == proc[p].segment
               i == <<proc[p].target, proc[p].segment>>
    <3>1. /\ UNCHANGED <<posts, attempts>>
          /\ post_segments' = post_segments \/ post_segments' = [post_segments EXCEPT ![k] = i]
      BY <2>2 DEF RecordSegment
    <3>2. proc[p].pc = "record" /\ k \in Nat /\ k <= k
      BY <2>0, <2>2, OneIsSegment DEF RecordSegment, At
    <3>3. sent[proc[p].target][k] = 1
      BY <1>8, <2>0, <3>2 DEF SafeInv, SendInv, ProgressInv
    <3>4. IsAccounted(i)
      BY <2>0, <3>3 DEF IsAccounted, LiveIds, RemoteId
    <3> HIDE DEF i
    <3> QED
      BY <1>0, <2>0, <3>1, <3>4 DEF AccountInv, TypeOK, Ids
  <2>3. ASSUME Reserve(p) PROVE StoreAccounted
    BY <1>0, <2>3 DEF Reserve, AccountInv, IsAccounted
  <2>4. ASSUME MarkPosted(p) PROVE StoreAccounted
    BY <1>4, <2>0, <2>4 DEF MarkPosted, AccountInv
  <2>5. ASSUME NEW row, Persist(p, row), row.remote = proc[p].copy.remote,
               UNCHANGED <<posts, post_segments>>
        PROVE  StoreAccounted
    BY <1>3, <2>0, <2>5 DEF AccountInv
  <2>6. CASE InsertAttempt(p) \/ PersistSegment(p)
    BY <2>1, <2>5, <2>6 DEF InsertAttempt, PersistSegment
  <2>7. CASE PersistUncertain(p) \/ PersistComplete(p)
    <3>1. /\ \E st \in Status : Persist(p, [proc[p].copy EXCEPT !.status = st])
          /\ UNCHANGED <<posts, post_segments>>
      BY <2>7 DEF PersistUncertain, PersistComplete, Status
    <3>2. \A st \in Status : [proc[p].copy EXCEPT !.status = st].remote = proc[p].copy.remote
      BY <2>0 DEF AttemptRow
    <3> QED
      BY <2>1, <2>5, <3>1, <3>2
  <2>8. CASE Guard(p) \/ CheckPosted(p) \/ SubmitOk(p) \/ SubmitErr(p)
    BY <1>6, <2>1, <2>8 DEF Guard, CheckPosted, SubmitOk, SubmitErr, store
  <2> QED
    BY <1>8, <2>1, <2>2, <2>3, <2>4, <2>6, <2>7, <2>8 DEF PostStep
<1>9. ASSUME NEW r \in Operator, RecStep(r) PROVE StoreAccounted /\ MemoryAccounted
  <2>0. /\ r \in Process /\ proc[r].target \in Attempt /\ proc[r] \in Proc
        /\ \A q \in Process \ {r} : proc'[q] = proc[q]
        /\ \A s \in Segment : IsAccounted(proc[r].copy.remote[s])
        /\ At(r, "recInsert") \/ IsAccounted(proc[r].id)
    BY <1>0, <1>9, RecFrame DEF AccountInv
  <2>1. MemoryAccounted
    <3>1. IdAccounted(r) /\ \A s \in Segment : IsAccounted(proc'[r].copy.remote[s])
      BY <1>0, <1>9, <2>0, MemoryIsAccounted, ConfirmedGrows
    <3> QED
      BY <1>5, <2>0, <3>1
  <2>2. ASSUME RecRecord(r) PROVE StoreAccounted
    <3> DEFINE k == FirstMissing(proc[r].copy)
    <3>1. /\ UNCHANGED <<posts, attempts>>
          /\ \/ post_segments' = post_segments
             \/ post_segments' = [post_segments EXCEPT ![k] = proc[r].id]
      BY <2>2 DEF RecRecord
    <3>2. IsAccounted(proc[r].id)
      BY <2>0, <2>2 DEF RecRecord, At
    <3> HIDE DEF k
    <3> QED
      BY <1>0, <2>0, <3>1, <3>2 DEF AccountInv, TypeOK, Ids
  <2>3. ASSUME RecClear(r) PROVE StoreAccounted
    BY <1>0, <2>3 DEF RecClear, AccountInv, IsAccounted
  <2>4. ASSUME RecMark(r) PROVE StoreAccounted
    BY <1>4, <2>0, <2>4 DEF RecMark, AccountInv
  <2>5. ASSUME RecPersist(r) PROVE StoreAccounted
    BY <1>3, <2>0, <2>5 DEF RecPersist, AccountInv
  <2>6. CASE RecInsert(r) \/ RecCheck(r)
    BY <1>6, <2>1, <2>6 DEF RecInsert, RecCheck, store
  <2> QED
    BY <1>9, <2>1, <2>2, <2>3, <2>4, <2>5, <2>6 DEF RecStep
<1>10. ASSUME NEW p \in Poster, NEW d \in Draft, PostBegin(p, d)
       PROVE  StoreAccounted /\ MemoryAccounted
  <2>1. /\ proc'[p].id = NoId /\ proc'[p].copy.remote = NoIds
        /\ \A q \in Process \ {p} : proc'[q] = proc[q]
        /\ UNCHANGED <<post_segments, posts, attempts>>
    BY <1>0, <1>10 DEF PostBegin, Idle, NoRow, TypeOK, store
  <2> QED
    BY <1>0, <1>5, <1>6, <2>1 DEF IsAccounted
<1>11. ASSUME NEW r \in Operator, NEW a \in Attempt, NEW d \in Decision,
              NEW id \in LiveIds \cup {Mistyped, NoId}, RecBegin(r, a, d, id)
       PROVE  StoreAccounted /\ MemoryAccounted
  <2>1. /\ proc'[r].pc = "recInsert" /\ proc'[r].copy = attempts[a]
        /\ \A q \in Process \ {r} : proc'[q] = proc[q]
        /\ UNCHANGED <<post_segments, posts, attempts>>
    BY <1>0, <1>11 DEF RecBegin, Idle, TypeOK, store
  <2>2. \A s \in Segment : IsAccounted(attempts[a].remote[s])
    BY DEF AccountInv, IsAccounted
  <2> QED
    BY <1>0, <1>5, <1>6, <2>1, <2>2
<1>12. ASSUME NEW p \in Process, Crash(p) PROVE StoreAccounted /\ MemoryAccounted
  <2>1. /\ proc'[p] = Idle /\ \A q \in Process \ {p} : proc'[q] = proc[q]
        /\ UNCHANGED <<post_segments, posts, attempts>>
    BY <1>0, <1>12, ExitFields DEF Crash, store
  <2> QED
    BY <1>5, <1>6, <2>1, IdleFields DEF IsAccounted
<1>13. CASE \/ \E d \in Draft : Approve(d)
            \/ \E i \in inflight : LateAccept(i)
            \/ UNCHANGED vars
  BY <1>6, <1>7, <1>13 DEF Approve, LateAccept, vars, store
<1> QED
  BY <1>8, <1>9, <1>10, <1>11, <1>12, <1>13 DEF Next

(* Every remote id in the store names a post that exists on X or is on       *)
(* record as typed by an operator, whatever was lost, overwritten or cut     *)
(* short (record_post_segment, persist_attempt, mark_posted, reconcile).     *)
THEOREM RecordsAreAccountedFor == Spec => []RecordedIsAccountedFor
<1>1. Spec => []AccountInv
  BY AccountInit, AccountStep, SafeInvariant, PTL DEF Spec
<1>2. AccountInv => RecordedIsAccountedFor
  BY DEF AccountInv, IsAccounted, RecordedIsAccountedFor
<1> QED
  BY <1>1, <1>2, PTL

-----------------------------------------------------------------------------
(* Approved text. *)

LEMMA DraftInit == Init => DraftInv
BY DEF Init, DraftInv, NoRow, Idle, At, Window, Process

\* A row once stored stays stored, and is one of the approved draft.
StoreKept ==
    /\ approval' = approval
    /\ \A a \in Attempt : attempts[a].status # "none" => attempts'[a].status # "none"
    /\ \A a \in Attempt : attempts'[a].status # "none" => OfApproved(attempts'[a])
MemoryKept ==
    \A p \in Process : proc'[p].pc # "idle" => OfApproved(proc'[p].copy)

LEMMA PersistKept ==
    ASSUME TypeInv, DraftInv, NEW p \in Process, ~At(p, "idle"), NEW row,
           Persist(p, row), row.status # "none", row.draft = proc[p].copy.draft,
           approval' = approval
    PROVE  StoreKept /\ attempts'[proc[p].target].status # "none"
<1>1. OfApproved(row)
  BY DEF DraftInv, OfApproved
<1>2. /\ proc[p].target \in Attempt /\ attempts \in [Attempt -> AttemptRow]
  BY DEF TypeInv, TypeOK
<1> QED
  BY <1>1, <1>2 DEF Persist, StoreKept, DraftInv

LEMMA StepKept ==
    ASSUME TypeInv, DraftInv, NEW p \in Process,
           (p \in Poster /\ PostStep(p)) \/ (p \in Operator /\ RecStep(p))
    PROVE  MemoryKept
<1>1. OfApproved(proc[p].copy) /\ \A q \in Process \ {p} : proc'[q] = proc[q]
  BY PostFrame, RecFrame DEF DraftInv
<1>2. proc'[p].pc # "idle" => OfApproved(proc'[p].copy)
  BY <1>1, PostFields, RecFields, IdleFields DEF OfApproved
<1> QED
  BY <1>1, <1>2 DEF MemoryKept, DraftInv, At

LEMMA DraftPost ==
    ASSUME SafeInv, DraftInv, NEW p \in Poster, PostStep(p)
    PROVE  DraftInv'
<1> DEFINE Past == {"reserve"} \cup Window
<1>0. /\ TypeInv /\ TypeOK /\ p \in Process /\ ~At(p, "idle")
      /\ proc[p].target \in Attempt
      /\ proc[p].copy \in AttemptRow
      /\ \A q \in Process \ {p} : proc'[q] = proc[q]
      /\ \A q \in Poster : q \in Process
      /\ proc'[p] = Idle \/ proc'[p].target = proc[p].target
  BY PostFrame DEF SafeInv, TypeInv, Process
<1>1. OfApproved(proc[p].copy) /\ MemoryKept
  BY <1>0, StepKept DEF DraftInv
\* What is stored, and that the step to the reservation stores the row.
<1>2. StoreKept /\ (InsertAttempt(p) => attempts'[proc[p].target].status # "none")
  <2>1. CASE InsertAttempt(p) \/ PersistSegment(p)
    <3>1. Persist(p, proc[p].copy) /\ approval' = approval
      BY <2>1 DEF InsertAttempt, PersistSegment
    <3> QED
      BY <1>0, <1>1, <3>1, PersistKept DEF OfApproved
  <2>2. CASE PersistUncertain(p) \/ PersistComplete(p)
    <3>1. PICK st \in {"uncertain", "complete"} :
            Persist(p, [proc[p].copy EXCEPT !.status = st]) /\ approval' = approval
      BY <2>2 DEF PersistUncertain, PersistComplete
    <3> DEFINE row == [proc[p].copy EXCEPT !.status = st]
    <3>2. row.status # "none" /\ row.draft = proc[p].copy.draft
      BY <1>0 DEF AttemptRow
    <3>3. Persist(p, row)
      BY <3>1
    <3> HIDE DEF row
    <3> QED
      BY <1>0, <3>1, <3>2, <3>3, PersistKept
  <2>3. CASE UNCHANGED <<approval, attempts>> /\ ~InsertAttempt(p)
    BY <2>3 DEF StoreKept, DraftInv
  <2> QED
    BY <2>1, <2>2, <2>3 DEF PostStep, Guard, CheckPosted, Reserve, SubmitOk,
       SubmitErr, RecordSegment, MarkPosted, InsertAttempt, store, At
<1>3. proc'[p].pc \in Past => proc[p].pc \in Past \/ InsertAttempt(p)
  <2>1. CASE Guard(p)
    BY <1>0, <2>1, GotoFields, ExitFields DEF Guard, Window
  <2>2. CASE CheckPosted(p)
    BY <1>0, <2>2, GotoFields, ExitFields DEF CheckPosted, Window
  <2> QED
    BY <2>1, <2>2 DEF PostStep, Reserve, SubmitOk, SubmitErr, RecordSegment,
       PersistSegment, PersistUncertain, PersistComplete, MarkPosted, At, Window
<1>4. \A a \in Attempt : grantOf'[a] # 0 => attempts'[a].status # "none"
  <2>1. CASE grantOf' = grantOf
    BY <1>2, <2>1 DEF StoreKept, DraftInv
  <2>2. CASE Reserve(p)
    <3>1. attempts[proc[p].target].status # "none"
      BY <2>2 DEF DraftInv, Reserve, At
    <3>2. \A a \in Attempt \ {proc[p].target} : grantOf'[a] = grantOf[a]
      BY <1>0, <2>2 DEF Reserve, TypeOK
    <3> QED
      BY <1>2, <3>1, <3>2 DEF StoreKept, DraftInv
  <2> QED
    BY <2>1, <2>2 DEF PostStep, Guard, CheckPosted, InsertAttempt, SubmitOk,
       SubmitErr, RecordSegment, PersistSegment, PersistUncertain,
       PersistComplete, MarkPosted, history
<1>5. \A q \in Poster : proc'[q].pc \in Past => attempts'[proc'[q].target].status # "none"
  <2> SUFFICES ASSUME NEW q \in Poster, proc'[q].pc \in Past
               PROVE  attempts'[proc'[q].target].status # "none"
    OBVIOUS
  <2>1. CASE q = p
    <3>1. proc'[p].target = proc[p].target
      BY <1>0, <2>1, IdleFields DEF Window
    <3> QED
      BY <1>0, <1>2, <1>3, <2>1, <3>1 DEF StoreKept, DraftInv
  <2>2. CASE q # p
    <3>1. proc'[q] = proc[q] /\ proc[q].target \in Attempt
      BY <1>0, <2>2 DEF TypeInv, At, Window
    <3> QED
      BY <1>2, <3>1 DEF StoreKept, DraftInv
  <2> QED
    BY <2>1, <2>2
<1> QED
  BY <1>1, <1>2, <1>4, <1>5 DEF DraftInv, StoreKept, MemoryKept, OfApproved, At

LEMMA DraftRec ==
    ASSUME SafeInv, DraftInv, NEW r \in Operator, RecStep(r)
    PROVE  DraftInv'
<1>0. /\ TypeInv /\ TypeOK /\ r \in Process /\ ~At(r, "idle")
      /\ \A q \in Process \ {r} : proc'[q] = proc[q]
      /\ \A q \in Poster : q \in Process /\ q # r
  BY RecFrame, ProcessAssumption DEF SafeInv, TypeInv, Process
<1>1. OfApproved(proc[r].copy) /\ MemoryKept
  BY <1>0, StepKept DEF DraftInv
<1>2. StoreKept
  <2>1. CASE RecPersist(r)
    BY <1>0, <1>1, <2>1, PersistKept DEF RecPersist, OfApproved
  <2>2. CASE UNCHANGED <<approval, attempts>>
    BY <2>2 DEF StoreKept, DraftInv
  <2> QED
    BY <2>1, <2>2 DEF RecStep, RecInsert, RecRecord, RecCheck, RecMark,
       RecClear, store
<1>3. grantOf' = grantOf
  BY DEF RecStep, RecInsert, RecRecord, RecCheck, RecMark, RecClear, RecPersist,
     history
<1>4. \A q \in Poster : proc'[q].pc \in {"reserve"} \cup Window =>
         attempts'[proc'[q].target].status # "none"
  BY <1>0, <1>2 DEF StoreKept, DraftInv, TypeInv, At, Window
<1> QED
  BY <1>1, <1>2, <1>3, <1>4 DEF DraftInv, StoreKept, MemoryKept, OfApproved, At

LEMMA DraftStep == SafeInv /\ DraftInv /\ [Next]_vars => DraftInv'
<1> SUFFICES ASSUME SafeInv, DraftInv, [Next]_vars PROVE DraftInv'
  OBVIOUS
<1>0. /\ TypeInv /\ TypeOK
      /\ \A q \in Poster : q \in Process /\ q \notin Operator
      /\ \A q \in Operator : q \in Process
  BY ProcessAssumption DEF SafeInv, TypeInv, Process
<1>1. ASSUME NEW d \in Draft, Approve(d) PROVE DraftInv'
  <2>1. approval = NoDraft /\ UNCHANGED <<proc, attempts, grantOf>>
    BY <1>1 DEF Approve, history
  <2>2. \A q \in Process : At(q, "idle")
    BY <2>1 DEF DraftInv, OfApproved
  <2>3. \A a \in Attempt : attempts[a].status = "none"
    BY <2>1 DEF DraftInv, OfApproved
  <2> QED
    BY <1>0, <2>1, <2>2, <2>3 DEF DraftInv, At, Window
<1>2. ASSUME NEW p \in Poster, NEW d \in Draft, PostBegin(p, d) PROVE DraftInv'
  <2>1. /\ proc'[p].pc = "guard" /\ proc'[p].copy.status = "in_progress"
        /\ proc'[p].copy.draft = d /\ approval = d
        /\ \A q \in Process \ {p} : proc'[q] = proc[q]
        /\ UNCHANGED <<approval, attempts, grantOf>>
    BY <1>0, <1>2 DEF PostBegin, Idle, NoRow, TypeOK, store
  <2>2. d # NoDraft
    BY DraftAssumption
  <2> QED
    BY <1>0, <2>1, <2>2 DEF DraftInv, OfApproved, At, Window
<1>3. ASSUME NEW p \in Poster, PostStep(p) PROVE DraftInv'
  BY <1>3, DraftPost
<1>4. ASSUME NEW r \in Operator, RecStep(r) PROVE DraftInv'
  BY <1>4, DraftRec
<1>5. ASSUME NEW r \in Operator, NEW a \in Attempt, NEW d \in Decision,
             NEW id \in LiveIds \cup {Mistyped, NoId}, RecBegin(r, a, d, id)
      PROVE  DraftInv'
  <2>1. /\ proc'[r].pc = "recInsert" /\ proc'[r].copy = attempts[a]
        /\ \A q \in Process \ {r} : proc'[q] = proc[q]
        /\ UNCHANGED <<approval, attempts, grantOf>>
    BY <1>0, <1>5 DEF RecBegin, Idle, TypeOK, store
  <2>2. OfApproved(attempts[a])
    BY <1>5 DEF RecBegin, Recorded, DraftInv
  <2> QED
    BY <1>0, <2>1, <2>2 DEF DraftInv, OfApproved, At, Window
<1>6. ASSUME NEW p \in Process, Crash(p) PROVE DraftInv'
  <2>1. /\ proc'[p].pc = "idle" /\ \A q \in Process \ {p} : proc'[q] = proc[q]
        /\ UNCHANGED <<approval, attempts, grantOf>>
    BY <1>0, <1>6, ExitFields DEF Crash, store, history
  <2> QED
    BY <1>0, <2>1 DEF DraftInv, OfApproved, At, Window
<1>7. CASE (\E i \in inflight : LateAccept(i)) \/ UNCHANGED vars
  <2>1. UNCHANGED <<approval, attempts, grantOf, proc>>
    BY <1>7 DEF LateAccept, vars, store, history
  <2> QED
    BY <2>1 DEF DraftInv, OfApproved, At
<1> QED
  BY <1>1, <1>2, <1>3, <1>4, <1>5, <1>6, <1>7 DEF Next

(* X only ever shows text of the draft that was approved first: whatever the *)
(* configuration generates later, and whoever approves it                    *)
(* (post_with_attempt, Store::approve).                                      *)
THEOREM TextIsApproved == Spec => []ApprovedTextOnly
<1>1. Spec => []DraftInv
  BY DraftInit, DraftStep, SafeInvariant, PTL DEF Spec
<1>2. SafeInv /\ DraftInv => ApprovedTextOnly
  <2> SUFFICES ASSUME SafeInv, DraftInv, NEW a \in Attempt, OnX(a) # {}
               PROVE  approval # NoDraft /\ attempts[a].draft = approval
    BY DEF ApprovedTextOnly
  <2>1. PICK s \in Segment : sent[a][s] > 0
    BY DEF OnX
  <2>2. s >= 1 /\ sent[a][s] # 0
    BY <2>1, OneIsSegment
  <2>3. grantOf[a] # 0
    BY <2>2 DEF SafeInv, SendInv, Unsent
  <2> QED
    BY <2>3 DEF DraftInv, OfApproved
<1> QED
  BY <1>1, <1>2, SafeInvariant, PTL

-----------------------------------------------------------------------------
(* Recorded segments. *)

\* A row that is stored stays, as long as the reservation stands.
RowsKept ==
    /\ posts'.row = "IN_PROGRESS" => posts.row = "IN_PROGRESS"
    /\ UNCHANGED <<granted, grantOf>>
    /\ posts'.row = "IN_PROGRESS" =>
          \A s \in Segment : post_segments[s] # NoId => post_segments'[s] # NoId

LEMMA RowsInit == Init => RowsInv
BY DEF Init, RowsInv, CrashLosesAtMostOneSegment, Holds, Idle, Process

\* Steps that send nothing.
LEMMA RowsFrame ==
    ASSUME RowsInv, RowsKept, UNCHANGED <<sent, inflight>>
    PROVE  CrashLosesAtMostOneSegment'
<1>1. \A t \in Segment : \A s \in 1..(t - 1) : s \in Segment
  BY NumSegmentsAssumption DEF Segment
<1> QED
  BY <1>1 DEF RowsInv, RowsKept, CrashLosesAtMostOneSegment

LEMMA RowsPost ==
    ASSUME SafeInv, RowsInv, NEW p \in Poster, PostStep(p)
    PROVE  RowsInv'
<1> DEFINE a == proc[p].target
           k == proc[p].segment
<1>0. /\ TypeInv /\ TypeOK /\ p \in Process
      /\ a \in Attempt /\ k \in Segment /\ proc[p].copy \in AttemptRow
      /\ \A q \in Process \ {p} : proc'[q] = proc[q]
      /\ \A q \in Poster : q \in Process
  BY PostFrame DEF SafeInv, TypeInv, Process
<1>n. /\ \A s \in Segment : s \in Nat /\ k \in Nat /\ k # 0
      /\ \A t \in Segment : \A s \in 1..(t - 1) : s \in Segment /\ s < t
  BY <1>0, OneIsSegment, NumSegmentsAssumption DEF Segment
<1>1. CASE Reserve(p) /\ posts.row = "absent"
  <2>1. /\ UNCHANGED <<sent, inflight, post_segments>>
        /\ granted' = granted + 1 /\ grantOf' = [grantOf EXCEPT ![a] = granted + 1]
        /\ proc[p].pc = "reserve"
    BY <1>1 DEF Reserve, remote, At
  <2>2. granted \in Nat /\ \A b \in Attempt : grantOf[b] \in Nat /\ grantOf[b] <= granted
    BY <1>0 DEF SafeInv, GrantInv, TypeOK
  <2>3. \A b \in Attempt : grantOf'[b] = granted' => b = a
    BY <1>0, <2>1, <2>2 DEF TypeOK
  <2>4. Unsent(a, 1) /\ k = 1 /\ \A q \in Poster : q # p /\ ~At(q, "idle") => proc[q].target # a
    BY <1>0, <2>1 DEF SafeInv, SendInv, GrantInv, ProgressInv, PreWindow, TargetInv, At
  <2>5. CrashLosesAtMostOneSegment'
    <3>1. \A t \in Segment : sent[a][t] = 0 /\ <<a, t>> \notin inflight
      BY <2>4, OneIsSegment, NumSegmentsAssumption DEF Unsent, Segment
    <3> QED
      BY <2>1, <2>3, <3>1 DEF CrashLosesAtMostOneSegment, Holds
  <2>6. proc'[p].pc = "submit" /\ proc'[p].segment = 1 /\ proc'[p].target = a
    BY <1>0, <1>1, <2>4, GotoFields DEF Reserve
  <2>7. \A s \in Segment : ~(s < 1)
    BY OneIsSegment
  <2>8. \A q \in Poster : q # p /\ proc'[q].pc \in {"submit", "record", "persist"} =>
           ~Holds(q)'
    BY <1>0, <2>3, <2>4 DEF TypeInv, At, Holds
  <2> QED
    BY <2>5, <2>6, <2>7, <2>8 DEF RowsInv
<1>2. CASE ~(Reserve(p) /\ posts.row = "absent")
  \* What is recorded stays.
  <2>1. RowsKept
    <3>1. CASE RecordSegment(p)
      <4> DEFINE i == <<a, k>>
      <4>1. /\ UNCHANGED <<posts, granted, grantOf>>
            /\ \/ post_segments' = post_segments
               \/ post_segments' = [post_segments EXCEPT ![k] = i] /\ post_segments[k] = NoId
        BY <3>1 DEF RecordSegment, SegmentRowAccepted, history
      <4> HIDE DEF i
      <4>2. \A s \in Segment : post_segments[s] # NoId => post_segments'[s] # NoId
        BY <1>0, <4>1 DEF TypeOK, Ids
      <4> QED
        BY <4>1, <4>2 DEF RowsKept
    <3>2. CASE MarkPosted(p)
      BY <3>2 DEF MarkPosted, Marked, RowsKept, history
    <3>3. CASE UNCHANGED <<posts, post_segments, granted, grantOf>>
      BY <3>3 DEF RowsKept
    <3>4. CASE Reserve(p)
      BY <1>2, <3>3, <3>4 DEF Reserve
    <3> QED
      BY <3>1, <3>2, <3>3, <3>4 DEF PostStep, Guard, CheckPosted, InsertAttempt, SubmitOk,
         SubmitErr, PersistSegment, PersistUncertain, PersistComplete, store, history
  \* What the command knows of its earlier segments.
  <2>2. \A q \in Poster : q # p =>
          /\ proc'[q].pc \in {"submit", "record"} /\ Holds(q)' =>
                \A s \in Segment : s < proc'[q].segment => post_segments'[s] # NoId
          /\ proc'[q].pc = "persist" /\ Holds(q)' =>
                \A s \in Segment : s <= proc'[q].segment => post_segments'[s] # NoId
    BY <1>0, <2>1 DEF RowsInv, RowsKept, Holds
  <2>3. ASSUME proc'[p].pc \in {"submit", "record"}, Holds(p)',
               NEW s \in Segment, s < proc'[p].segment
        PROVE  post_segments'[s] # NoId
    <3>1. CASE SubmitOk(p)
      <4>1. /\ proc[p].pc = "submit" /\ proc'[p].target = a /\ proc'[p].segment = k
        BY <1>0, <3>1, GotoFields DEF SubmitOk, At
      <4> QED
        BY <2>1, <2>3, <4>1 DEF RowsInv, RowsKept, Holds
    <3>2. CASE PersistSegment(p)
      <4>1. Advance(p) \/ Goto(p, "complete")
        BY <3>2 DEF PersistSegment, Advance
      <4>2. Advance(p) /\ proc[p].pc = "persist"
        BY <1>0, <2>3, <3>2, <4>1, GotoFields DEF PersistSegment, At
      <4>3. proc'[p].target = a /\ proc'[p].segment = k + 1
        BY <1>0, <4>2, NextFields
      <4>4. s <= k
        BY <1>n, <2>3, <4>3
      <4> QED
        BY <2>1, <2>3, <4>2, <4>3, <4>4 DEF RowsInv, RowsKept, Holds
    <3>3. CASE Reserve(p)
      BY <1>0, <1>2, <2>3, <3>3, ExitFields DEF Reserve
    <3>4. CASE RecordSegment(p)
      <4> DEFINE i == <<a, k>>
      <4>1. Exit(p) \/ SetRemote(p, "persist", k, i)
        BY <3>4 DEF RecordSegment, SetRemote
      <4> HIDE DEF i
      <4> QED
        BY <1>0, <2>3, <4>1, ExitFields, RemoteFields
    <3>5. CASE \/ Guard(p) \/ CheckPosted(p) \/ InsertAttempt(p) \/ SubmitErr(p)
               \/ PersistUncertain(p) \/ PersistComplete(p) \/ MarkPosted(p)
      BY <1>0, <2>3, <3>5, GotoFields, ExitFields DEF Guard, CheckPosted,
         InsertAttempt, SubmitErr, PersistUncertain, PersistComplete, MarkPosted
    <3> QED
      BY <3>1, <3>2, <3>3, <3>4, <3>5 DEF PostStep
  <2>4. ASSUME proc'[p].pc = "persist", Holds(p)',
               NEW s \in Segment, s <= proc'[p].segment
        PROVE  post_segments'[s] # NoId
    <3>1. RecordSegment(p) /\ ~Exit(p)
      <4>1. proc'[p].pc # "idle"
        BY <2>4
      <4>2. ~Exit(p)
        BY <1>0, <4>1, ExitFields
      <4>3. \A step : Goto(p, step) => step = "persist"
        BY <1>0, <2>4, GotoFields
      <4>4. Advance(p) => proc'[p].pc = "submit"
        BY <1>0, NextFields
      <4>5. ~PersistSegment(p)
        BY <2>4, <4>3, <4>4 DEF PersistSegment, Advance
      <4> QED
        BY <4>2, <4>3, <4>5 DEF PostStep, Guard, CheckPosted, InsertAttempt, Reserve,
           SubmitOk, SubmitErr, PersistUncertain, PersistComplete, MarkPosted
    <3> DEFINE i == <<a, k>>
    <3>2. /\ SetRemote(p, "persist", k, i) /\ post_segments' = [post_segments EXCEPT ![k] = i]
          /\ proc[p].pc = "record"
      BY <3>1 DEF RecordSegment, SetRemote, At
    <3>3. i # NoId
      BY <1>n DEF NoId
    <3>4. proc'[p].target = a /\ proc'[p].segment = k
      <4> HIDE DEF i
      <4> QED
        BY <1>0, <3>2, RemoteFields
    <3>5. CASE s = k
      BY <1>0, <3>2, <3>3, <3>5 DEF TypeOK, Ids
    <3>6. CASE s # k
      <4>1. s < k
        BY <1>n, <2>4, <3>4, <3>6
      <4> QED
        BY <2>1, <2>4, <3>2, <3>4, <4>1 DEF RowsInv, RowsKept, Holds
    <3> QED
      BY <3>5, <3>6
  \* A request concerns one segment of the command's attempt.
  <2>5. CrashLosesAtMostOneSegment'
    <3>1. CASE SubmitOk(p) \/ SubmitErr(p)
      <4>0. /\ proc[p].pc = "submit"
            /\ sent' = sent \/ Accept(a, k)
            /\ inflight' = inflight \/ inflight' = inflight \cup {<<a, k>>}
        BY <3>1 DEF SubmitOk, SubmitErr, At
      <4>5. sent \in [Attempt -> [Segment -> 0..2]] \/ sent \in [Attempt -> [Segment -> Nat]]
        BY <1>0 DEF TypeOK
      <4>6. ASSUME NEW b \in Attempt, NEW t \in Segment, b # a \/ t # k
            PROVE  sent'[b][t] = sent[b][t]
        BY <1>0, <4>0, <4>5, <4>6 DEF Accept
      <4>7. ASSUME NEW b \in Attempt, NEW t \in Segment, b # a \/ t # k, <<b, t>> \in inflight'
            PROVE  <<b, t>> \in inflight
        BY <4>0, <4>7
      <4>1. /\ proc[p].pc = "submit"
            /\ \A b \in Attempt, t \in Segment :
                  (b # a \/ t # k) => /\ sent'[b][t] = sent[b][t]
                                      /\ <<b, t>> \in inflight' => <<b, t>> \in inflight
        BY <4>0, <4>6, <4>7
      <4>2. ASSUME NEW b \in Attempt, posts'.row = "IN_PROGRESS",
                   grantOf'[b] = granted', NEW t \in Segment,
                   sent'[b][t] > 0 \/ <<b, t>> \in inflight', NEW s \in 1..(t - 1)
            PROVE  post_segments'[s] # NoId
        <5>1. CASE b = a /\ t = k
          BY <1>n, <2>1, <4>1, <4>2, <5>1 DEF RowsInv, RowsKept, Holds
        <5>2. CASE b # a \/ t # k
          BY <1>n, <2>1, <4>1, <4>2, <5>2
             DEF RowsInv, CrashLosesAtMostOneSegment, RowsKept, Holds
        <5> QED
          BY <5>1, <5>2
      <4> QED
        BY <4>2 DEF CrashLosesAtMostOneSegment, Holds
    <3>2. CASE UNCHANGED <<sent, inflight>>
      BY <2>1, <3>2, RowsFrame
    <3> QED
      BY <3>1, <3>2 DEF PostStep, Guard, CheckPosted, InsertAttempt, Reserve,
         RecordSegment, PersistSegment, PersistUncertain, PersistComplete,
         MarkPosted, remote
  <2> QED
    BY <2>2, <2>3, <2>4, <2>5 DEF RowsInv
<1> QED
  BY <1>1, <1>2

LEMMA RowsStep == SafeInv /\ RowsInv /\ [Next]_vars => RowsInv'
<1> SUFFICES ASSUME SafeInv, RowsInv, [Next]_vars PROVE RowsInv'
  OBVIOUS
<1>0. /\ TypeInv /\ TypeOK
      /\ \A q \in Poster : q \in Process /\ q \notin Operator
      /\ \A q \in Operator : q \in Process
  BY ProcessAssumption DEF SafeInv, TypeInv, Process
\* The other steps keep what is recorded, and give no command a new step of
\* the sending loop.
<1>1. ASSUME RowsKept, NEW p \in Process,
             \A q \in Process \ {p} : proc'[q] = proc[q],
             proc'[p] = proc[p] \/ p \in Operator \/
                proc'[p].pc \notin {"submit", "record", "persist"}
      PROVE  \A q \in Poster :
          /\ proc'[q].pc \in {"submit", "record"} /\ Holds(q)' =>
                \A s \in Segment : s < proc'[q].segment => post_segments'[s] # NoId
          /\ proc'[q].pc = "persist" /\ Holds(q)' =>
                \A s \in Segment : s <= proc'[q].segment => post_segments'[s] # NoId
  BY <1>0, <1>1 DEF RowsInv, RowsKept, Holds
<1>2. ASSUME NEW p \in Poster, NEW d \in Draft, PostBegin(p, d) PROVE RowsInv'
  <2>1. /\ proc'[p].pc = "guard" /\ \A q \in Process \ {p} : proc'[q] = proc[q]
        /\ RowsKept /\ UNCHANGED <<sent, inflight>>
    BY <1>0, <1>2 DEF PostBegin, Idle, TypeOK, store, remote, RowsKept
  <2> QED
    BY <1>0, <1>1, <2>1, RowsFrame DEF RowsInv
<1>3. ASSUME NEW p \in Poster, PostStep(p) PROVE RowsInv'
  BY <1>3, RowsPost
<1>4. ASSUME NEW r \in Operator, RecStep(r) PROVE RowsInv'
  <2>1. /\ r \in Process /\ \A q \in Process \ {r} : proc'[q] = proc[q]
    BY <1>0, <1>4, RecFrame
  <2>2. UNCHANGED <<granted, grantOf, sent, inflight>>
    BY <1>4 DEF RecStep, RecInsert, RecRecord, RecCheck, RecMark, RecClear,
       RecPersist, remote, history
  <2>3. RowsKept
    <3>1. CASE RecRecord(r)
      <4> DEFINE k == FirstMissing(proc[r].copy)
      <4>1. /\ posts' = posts
            /\ \/ post_segments' = post_segments
               \/ /\ post_segments' = [post_segments EXCEPT ![k] = proc[r].id]
                  /\ post_segments[k] = NoId
        BY <3>1 DEF RecRecord, SegmentRowAccepted
      <4> HIDE DEF k
      <4>2. \A s \in Segment : post_segments[s] # NoId => post_segments'[s] # NoId
        BY <1>0, <4>1 DEF TypeOK, Ids
      <4> QED
        BY <2>2, <4>1, <4>2 DEF RowsKept
    <3>2. CASE RecClear(r)
      BY <2>2, <3>2 DEF RecClear, RowsKept
    <3>3. CASE RecMark(r)
      BY <2>2, <3>3 DEF RecMark, Marked, RowsKept
    <3>4. CASE UNCHANGED <<posts, post_segments>>
      BY <2>2, <3>4 DEF RowsKept
    <3> QED
      BY <1>4, <3>1, <3>2, <3>3, <3>4 DEF RecStep, RecInsert, RecCheck, RecPersist, store
  <2> QED
    BY <1>1, <2>1, <2>2, <2>3, RowsFrame DEF RowsInv
<1>5. ASSUME NEW r \in Operator, NEW a \in Attempt, NEW d \in Decision,
             NEW id \in LiveIds \cup {Mistyped, NoId}, RecBegin(r, a, d, id)
      PROVE  RowsInv'
  <2>1. /\ \A q \in Process \ {r} : proc'[q] = proc[q]
        /\ RowsKept /\ UNCHANGED <<sent, inflight>>
    BY <1>0, <1>5 DEF RecBegin, TypeOK, store, remote, RowsKept
  <2> QED
    BY <1>0, <1>1, <2>1, RowsFrame DEF RowsInv
<1>6. ASSUME NEW p \in Process, Crash(p) PROVE RowsInv'
  <2>1. /\ proc'[p].pc = "idle" /\ \A q \in Process \ {p} : proc'[q] = proc[q]
        /\ RowsKept /\ UNCHANGED <<sent, inflight>>
    BY <1>0, <1>6, ExitFields DEF Crash, store, remote, history, RowsKept
  <2> QED
    BY <1>0, <1>1, <2>1, RowsFrame DEF RowsInv
<1>7. ASSUME NEW i \in inflight, LateAccept(i) PROVE RowsInv'
  <2>0. /\ i \in RemoteId /\ i[1] \in Attempt /\ i[2] \in Segment /\ i = <<i[1], i[2]>>
    BY <1>0 DEF TypeOK, RemoteId
  <2>1. UNCHANGED <<posts, post_segments, granted, grantOf, proc>>
    BY <1>7 DEF LateAccept, store, history
  <2>2. \A a \in Attempt, t \in Segment :
          sent'[a][t] > 0 \/ <<a, t>> \in inflight' => sent[a][t] > 0 \/ <<a, t>> \in inflight
    BY <1>0, <1>7, <2>0 DEF LateAccept, Accept, TypeOK
  <2> QED
    BY <2>1, <2>2 DEF RowsInv, CrashLosesAtMostOneSegment, Holds
<1>8. CASE (\E d \in Draft : Approve(d)) \/ UNCHANGED vars
  <2>1. UNCHANGED <<posts, post_segments, granted, grantOf, proc, sent, inflight>>
    BY <1>8 DEF Approve, vars, store, remote, history
  <2> QED
    BY <2>1 DEF RowsInv, CrashLosesAtMostOneSegment, Holds
<1> QED
  BY <1>2, <1>3, <1>4, <1>5, <1>6, <1>7, <1>8 DEF Next

(* A crash loses track of at most one post: while a reservation stands, all  *)
(* segments before the last one sent under it have their row (the order of   *)
(* submit, record_post_segment and persist_attempt in post_with_attempt).    *)
THEOREM CrashLosesOne == Spec => []CrashLosesAtMostOneSegment
<1>1. Spec => []RowsInv
  BY RowsInit, RowsStep, SafeInvariant, PTL DEF Spec
<1>2. RowsInv => CrashLosesAtMostOneSegment
  BY DEF RowsInv
<1> QED
  BY <1>1, <1>2, PTL

-----------------------------------------------------------------------------
(* Finished threads. *)

\* What a post command knows of its thread.
OwnInv(p) ==
    /\ proc[p].pc \in {"submit", "record"} => OwnIds(p, proc[p].segment - 1)
    /\ proc[p].pc = "persist" => OwnIds(p, proc[p].segment)
    /\ proc[p].pc \in {"complete", "mark"} =>
          OwnIds(p, NumSegments) /\ OnX(proc[p].target) = Segment

LEMMA ThreadInit == Init => ThreadInv
BY DEF Init, ThreadInv, FinalThreadIsWhole, Busy, At, Idle, Process

LEMMA OnXGrows ==
    ASSUME TypeInv, [Next]_vars, NEW a \in Attempt, OnX(a) = Segment
    PROVE  OnX(a)' = Segment
BY SentGrows DEF OnX

\* A command that another process's step passes by.
LEMMA OwnFrame ==
    ASSUME TypeInv, [Next]_vars, NEW p \in Poster, OwnInv(p), proc'[p] = proc[p]
    PROVE  OwnInv(p)'
<1>1. ~At(p, "idle") => proc[p].target \in Attempt
  BY DEF TypeInv, Process
<1> QED
  BY <1>1, OnXGrows DEF OwnInv, OwnIds, At

\* One turn of the sending loop after the other.
LEMMA OwnPost ==
    ASSUME SafeInv, [Next]_vars, NEW p \in Poster, OwnInv(p), PostStep(p)
    PROVE  OwnInv(p)'
<1> DEFINE a == proc[p].target
           k == proc[p].segment
<1>0. /\ TypeInv /\ TypeOK /\ p \in Process
      /\ a \in Attempt /\ k \in Segment /\ NumSegments \in Nat /\ k \in Nat
      /\ \A s \in Segment : s \in Nat /\ 1 <= s /\ s <= NumSegments
  BY PostFrame, OneIsSegment, NumSegmentsAssumption DEF SafeInv, TypeInv, Segment
<1>1. CASE Reserve(p)
  <2>1. (Exit(p) \/ Goto(p, "submit")) /\ proc[p].pc = "reserve"
    BY <1>1 DEF Reserve, At
  <2>2. proc[p].pc = "reserve" => k = 1
    BY DEF SafeInv, SendInv, ProgressInv, PreWindow
  <2> QED
    BY <1>0, <2>1, <2>2, GotoFields, ExitFields DEF OwnInv, OwnIds
<1>2. CASE SubmitOk(p)
  <2>1. Goto(p, "record") /\ proc[p].pc = "submit"
    BY <1>2 DEF SubmitOk, At
  <2> QED
    BY <1>0, <2>1, GotoFields DEF OwnInv, OwnIds
<1>3. CASE RecordSegment(p)
  <2> DEFINE i == <<a, k>>
  <2>1. (Exit(p) \/ SetRemote(p, "persist", k, i)) /\ proc[p].pc = "record"
    BY <1>3 DEF RecordSegment, SetRemote, At
  <2>2. CASE Exit(p)
    BY <1>0, <2>2, ExitFields DEF OwnInv
  <2>3. CASE SetRemote(p, "persist", k, i)
    <3>1. /\ proc'[p].pc = "persist" /\ proc'[p].target = a /\ proc'[p].segment = k
          /\ \A s \in Segment : proc'[p].copy.remote[s] =
                IF s = k THEN i ELSE proc[p].copy.remote[s]
      <4> HIDE DEF i
      <4> QED
        BY <1>0, <2>3, RemoteFields
    <3>2. \A s \in Segment : s <= k => s = k \/ s <= k - 1
      BY <1>0
    <3>3. \A s \in Segment : s <= k => proc'[p].copy.remote[s] = <<a, s>>
      BY <2>1, <3>1, <3>2 DEF OwnInv, OwnIds
    <3> QED
      BY <3>1, <3>3 DEF OwnInv, OwnIds
  <2> QED
    BY <2>1, <2>2, <2>3
<1>4. CASE PersistSegment(p)
  <2>1. /\ proc[p].pc = "persist"
        /\ Advance(p) \/ (Goto(p, "complete") /\ k = NumSegments)
    BY <1>4 DEF PersistSegment, Advance, At
  <2>2. CASE Advance(p)
    <3>1. /\ proc'[p].pc = "submit" /\ proc'[p].target = a
          /\ proc'[p].segment = k + 1 /\ proc'[p].copy = proc[p].copy
      BY <1>0, <2>2, NextFields
    <3>2. \A s \in Segment : s <= k => proc[p].copy.remote[s] = <<a, s>>
      BY <2>1 DEF OwnInv, OwnIds
    <3>3. \A s \in Segment : s <= proc'[p].segment - 1 => s <= k
      BY <1>0, <3>1
    <3>4. OwnIds(p, proc[p].segment - 1)'
      BY <3>1, <3>2, <3>3 DEF OwnIds
    <3> QED
      BY <3>1, <3>4 DEF OwnInv
  <2>3. CASE Goto(p, "complete") /\ k = NumSegments
    <3>1. /\ proc'[p].pc = "complete" /\ proc'[p].target = a
          /\ proc'[p].copy = proc[p].copy
      BY <1>0, <2>3, GotoFields
    <3>2. \A s \in Segment : sent[a][s] = 1
      BY <1>0, <2>1, <2>3 DEF SafeInv, SendInv, ProgressInv
    <3>3. \A s \in Segment : sent'[a][s] > 0
      BY <1>0, <3>2, SentGrows
    <3>4. OnX(proc[p].target)' = Segment
      BY <3>1, <3>3 DEF OnX
    <3>5. OwnIds(p, NumSegments)'
      BY <1>0, <2>1, <2>3, <3>1 DEF OwnInv, OwnIds
    <3> QED
      BY <3>1, <3>4, <3>5 DEF OwnInv
  <2> QED
    BY <2>1, <2>2, <2>3
<1>5. CASE PersistComplete(p)
  <2>1. Goto(p, "mark") /\ proc[p].pc = "complete"
    BY <1>5 DEF PersistComplete, At
  <2>2. \A s \in Segment : sent'[a][s] > 0
    BY <1>0, <2>1, SentGrows DEF OwnInv, OnX
  <2>3. /\ proc'[p].pc = "mark" /\ proc'[p].target = a
        /\ proc'[p].copy = proc[p].copy
    BY <1>0, <2>1, GotoFields
  <2>4. OnX(proc[p].target)' = Segment
    BY <2>2, <2>3 DEF OnX
  <2>5. OwnIds(p, NumSegments)'
    BY <2>1, <2>3 DEF OwnInv, OwnIds
  <2> QED
    BY <2>3, <2>4, <2>5 DEF OwnInv
<1>6. CASE \/ Guard(p) \/ CheckPosted(p) \/ InsertAttempt(p) \/ SubmitErr(p)
           \/ PersistUncertain(p) \/ MarkPosted(p)
  BY <1>0, <1>6, GotoFields, ExitFields DEF Guard, CheckPosted, InsertAttempt,
     SubmitErr, PersistUncertain, MarkPosted, OwnInv
<1> QED
  BY <1>1, <1>2, <1>3, <1>4, <1>5, <1>6 DEF PostStep

LEMMA OwnStep ==
    ASSUME SafeInv, [Next]_vars, \A p \in Poster : OwnInv(p)
    PROVE  \A p \in Poster : OwnInv(p)'
<1> SUFFICES ASSUME NEW q \in Poster PROVE OwnInv(q)'
  OBVIOUS
<1>0. /\ TypeInv /\ TypeOK /\ q \in Process /\ q \notin Operator /\ OwnInv(q)
      /\ \A r \in Operator : r \in Process
  BY ProcessAssumption DEF SafeInv, TypeInv, Process
<1>1. CASE proc'[q] = proc[q]
  BY <1>0, <1>1, OwnFrame
<1>2. ASSUME NEW p \in Poster, NEW d \in Draft, PostBegin(p, d) PROVE OwnInv(q)'
  <2>1. p \in Process /\ proc'[p].pc = "guard" /\ (q # p => proc'[q] = proc[q])
    BY <1>0, <1>2 DEF PostBegin, Idle, TypeOK, Process
  <2> QED
    BY <1>1, <2>1 DEF OwnInv
<1>3. ASSUME NEW p \in Poster, PostStep(p) PROVE OwnInv(q)'
  BY <1>0, <1>1, <1>3, OwnPost, PostFrame
<1>4. ASSUME NEW r \in Operator, RecStep(r) PROVE OwnInv(q)'
  BY <1>0, <1>1, <1>4, RecFrame
<1>5. ASSUME NEW r \in Operator, NEW a \in Attempt, NEW d \in Decision,
             NEW id \in LiveIds \cup {Mistyped, NoId}, RecBegin(r, a, d, id)
      PROVE  OwnInv(q)'
  BY <1>0, <1>1, <1>5 DEF RecBegin, TypeOK
<1>6. ASSUME NEW p \in Process, Crash(p) PROVE OwnInv(q)'
  <2>1. proc'[p].pc = "idle" /\ (q # p => proc'[q] = proc[q])
    BY <1>0, <1>6, ExitFields DEF Crash
  <2> QED
    BY <1>1, <2>1 DEF OwnInv
<1>7. CASE \/ \E d \in Draft : Approve(d)
           \/ \E i \in inflight : LateAccept(i)
           \/ UNCHANGED vars
  BY <1>1, <1>7 DEF Approve, LateAccept, vars
<1> QED
  BY <1>2, <1>3, <1>4, <1>5, <1>6, <1>7 DEF Next

\* Without an overlap an operator works alone, and marks nothing.
Apart ==
    ~overlapped =>
        /\ ~(Busy(Poster) /\ Busy(Operator))
        /\ \A r \in Operator : At(r, "recMark") => posts.row = "absent"

LEMMA ApartStep ==
    ASSUME SafeInv, [Next]_vars, Apart
    PROVE  Apart'
<1>0. /\ TypeInv /\ TypeOK
      /\ \A q \in Poster : q \in Process /\ q \notin Operator
      /\ \A q \in Operator : q \in Process /\ q \notin Poster
  BY ProcessAssumption DEF SafeInv, TypeInv, Process
<1> SUFFICES ASSUME ~overlapped'
             PROVE  /\ ~(Busy(Poster) /\ Busy(Operator))'
                    /\ \A r \in Operator : At(r, "recMark")' => posts'.row = "absent"
  BY DEF Apart
<1>1. ASSUME NEW p \in Poster, NEW d \in Draft, PostBegin(p, d)
      PROVE  /\ ~(Busy(Poster) /\ Busy(Operator))'
             /\ \A r \in Operator : At(r, "recMark")' => posts'.row = "absent"
  <2>1. /\ ~Busy(Operator) /\ \A q \in Process \ {p} : proc'[q] = proc[q]
    BY <1>0, <1>1 DEF PostBegin, TypeOK
  <2> QED
    BY <1>0, <2>1 DEF Busy, At
<1>2. ASSUME NEW p \in Poster, PostStep(p)
      PROVE  /\ ~(Busy(Poster) /\ Busy(Operator))'
             /\ \A r \in Operator : At(r, "recMark")' => posts'.row = "absent"
  <2>1. /\ overlapped' = overlapped /\ ~At(p, "idle")
        /\ \A q \in Process \ {p} : proc'[q] = proc[q]
    BY <1>0, <1>2, PostFrame DEF PostStep, Guard, CheckPosted, InsertAttempt,
       Reserve, SubmitOk, SubmitErr, RecordSegment, PersistSegment,
       PersistUncertain, PersistComplete, MarkPosted, history
  <2>2. ~Busy(Operator)
    BY <2>1 DEF Apart, Busy
  <2> QED
    BY <1>0, <2>1, <2>2 DEF Busy, At
<1>3. ASSUME NEW r \in Operator, RecStep(r)
      PROVE  /\ ~(Busy(Poster) /\ Busy(Operator))'
             /\ \A q \in Operator : At(q, "recMark")' => posts'.row = "absent"
  <2>1. /\ overlapped' = overlapped /\ ~At(r, "idle")
        /\ \A q \in Process \ {r} : proc'[q] = proc[q]
    BY <1>0, <1>3, RecFrame DEF RecStep, RecInsert, RecRecord, RecCheck, RecMark,
       RecClear, RecPersist, history
  <2>2. ~Busy(Poster) /\ ~Busy(Poster)'
    BY <1>0, <2>1 DEF Apart, Busy, At
  <2>3. posts.row = "absent" => posts'.row = "absent"
    BY <1>3 DEF RecStep, RecInsert, RecRecord, RecCheck, RecMark, RecClear,
       RecPersist, Marked, store
  <2>4. At(r, "recMark")' => posts'.row = "absent"
    <3>1. CASE RecCheck(r)
      <4>1. PICK step \in {"recMark", "recPersist"} :
              /\ step = "recMark" <=> posts.row = "absent"
              /\ SetStatus(r, step, "reconciled")
        BY <3>1 DEF RecCheck, SetStatus
      <4> QED
        BY <1>0, <2>3, <4>1, StatusFields DEF At
    <3>2. CASE RecInsert(r)
      <4>1. \/ Exit(r) \/ \E step \in {"recRecord", "recCheck", "recClear"} : Goto(r, step)
            \/ SetStatus(r, "recPersist", "abandoned")
        BY <3>2 DEF RecInsert, SetStatus
      <4> QED
        BY <1>0, <4>1, ExitFields, GotoFields, StatusFields DEF At
    <3>3. CASE RecRecord(r)
      <4> DEFINE k == FirstMissing(proc[r].copy)
                 i == proc[r].id
      <4>1. Exit(r) \/ SetRemote(r, "recCheck", k, i)
        BY <3>3 DEF RecRecord, SetRemote
      <4> HIDE DEF k, i
      <4> QED
        BY <1>0, <4>1, ExitFields, RemoteFields DEF At
    <3>4. CASE RecMark(r) \/ RecPersist(r)
      BY <1>0, <3>4, ExitFields, GotoFields DEF RecMark, RecPersist, At
    <3>5. CASE RecClear(r)
      <4> DEFINE st == IF proc[r].decision = "partial" THEN "partial" ELSE "reconciled"
      <4>1. SetStatus(r, "recPersist", st)
        BY <3>5 DEF RecClear, SetStatus
      <4> HIDE DEF st
      <4> QED
        BY <1>0, <4>1, StatusFields DEF At
    <3> QED
      BY <1>3, <3>1, <3>2, <3>3, <3>4, <3>5 DEF RecStep
  <2> QED
    BY <1>0, <2>1, <2>2, <2>3, <2>4 DEF Apart, At
<1>4. ASSUME NEW r \in Operator, NEW a \in Attempt, NEW d \in Decision,
             NEW id \in LiveIds \cup {Mistyped, NoId}, RecBegin(r, a, d, id)
      PROVE  /\ ~(Busy(Poster) /\ Busy(Operator))'
             /\ \A q \in Operator : At(q, "recMark")' => posts'.row = "absent"
  <2>1. /\ ~Busy(Poster) /\ ~overlapped /\ proc'[r].pc = "recInsert" /\ posts' = posts
        /\ \A q \in Process \ {r} : proc'[q] = proc[q]
    BY <1>0, <1>4 DEF RecBegin, TypeOK, Idle, store
  <2> QED
    BY <1>0, <2>1 DEF Busy, At, Apart
<1>5. ASSUME NEW p \in Process, Crash(p)
      PROVE  /\ ~(Busy(Poster) /\ Busy(Operator))'
             /\ \A q \in Operator : At(q, "recMark")' => posts'.row = "absent"
  <2>1. /\ overlapped' = overlapped /\ proc'[p].pc = "idle" /\ posts' = posts
        /\ \A q \in Process \ {p} : proc'[q] = proc[q]
    BY <1>0, <1>5, ExitFields DEF Crash, store, history
  <2> QED
    BY <1>0, <2>1 DEF Busy, At, Apart
<1>6. ASSUME \/ \E d \in Draft : Approve(d)
             \/ \E i \in inflight : LateAccept(i)
             \/ UNCHANGED vars
      PROVE  /\ ~(Busy(Poster) /\ Busy(Operator))'
             /\ \A q \in Operator : At(q, "recMark")' => posts'.row = "absent"
  <2>1. UNCHANGED <<overlapped, proc, posts>>
    BY <1>6 DEF Approve, LateAccept, vars, store, history
  <2> QED
    BY <2>1 DEF Busy, At, Apart
<1> QED
  BY <1>1, <1>2, <1>3, <1>4, <1>5, <1>6 DEF Next

LEMMA FinalStep ==
    ASSUME SafeInv, ThreadInv, [Next]_vars
    PROVE  FinalThreadIsWhole'
<1>0. TypeInv /\ TypeOK
  BY DEF SafeInv, TypeInv
<1> SUFFICES ASSUME ~overlapped', posts'.row = "final"
             PROVE  \E a \in Attempt : /\ OnX(a)' = Segment
                                       /\ \A s \in Segment : posts'.ids[s] = <<a, s>>
  BY DEF FinalThreadIsWhole
\* Only marking makes the row final or changes a final one.
<1>1. \/ posts' = posts
      \/ \E p \in Poster : MarkPosted(p)
      \/ \E r \in Operator : RecMark(r) /\ posts.row # "absent"
  <2>1. ASSUME NEW p \in Poster, PostStep(p), ~MarkPosted(p) PROVE posts' = posts
    BY <2>1 DEF PostStep, Guard, CheckPosted, InsertAttempt, Reserve, SubmitOk,
       SubmitErr, RecordSegment, PersistSegment, PersistUncertain,
       PersistComplete, store
  <2>2. ASSUME NEW r \in Operator, RecStep(r)
        PROVE  posts' = posts \/ (RecMark(r) /\ posts.row # "absent")
    BY <2>2 DEF RecStep, RecInsert, RecRecord, RecCheck, RecMark, RecClear,
       RecPersist, Marked, store
  <2> QED
    BY <2>1, <2>2 DEF Next, Approve, PostBegin, LateAccept, RecBegin, Crash,
       vars, store
<1>2. ~overlapped
  BY DEF Next, Approve, PostBegin, LateAccept, RecBegin, Crash, PostStep, Guard,
     CheckPosted, InsertAttempt, Reserve, SubmitOk, SubmitErr, RecordSegment,
     PersistSegment, PersistUncertain, PersistComplete, MarkPosted, RecStep,
     RecInsert, RecRecord, RecCheck, RecMark, RecClear, RecPersist, vars, history
<1>3. CASE posts' = posts
  BY <1>0, <1>2, <1>3, OnXGrows DEF ThreadInv, FinalThreadIsWhole
<1>4. ASSUME NEW p \in Poster, MarkPosted(p)
      PROVE  \E a \in Attempt : /\ OnX(a)' = Segment
                                /\ \A s \in Segment : posts'.ids[s] = <<a, s>>
  <2>1. proc[p].pc = "mark" /\ proc[p].target \in Attempt
    BY <1>0, <1>4, PostFrame DEF MarkPosted, At, PostStep
  <2>2. OwnIds(p, NumSegments) /\ OnX(proc[p].target) = Segment
    BY <2>1 DEF ThreadInv
  <2>3. \A s \in Segment : proc[p].copy.remote[s] = <<proc[p].target, s>>
    BY <2>2, NumSegmentsAssumption DEF OwnIds, Segment
  <2>4. posts'.ids = proc[p].copy.remote
    BY <1>4 DEF MarkPosted, Marked
  <2>5. OnX(proc[p].target) = Segment /\ sent' = sent
    BY <1>4, <2>2 DEF MarkPosted, remote
  <2>6. \A a \in Attempt : OnX(a)' = OnX(a)
    BY <2>5 DEF OnX
  <2> QED
    BY <2>1, <2>2, <2>3, <2>4, <2>6
<1>5. ASSUME NEW r \in Operator, RecMark(r), posts.row # "absent" PROVE FALSE
  BY <1>2, <1>5 DEF ThreadInv, RecMark, At
<1> QED
  BY <1>1, <1>3, <1>4, <1>5

LEMMA ThreadStep == SafeInv /\ ThreadInv /\ [Next]_vars => ThreadInv'
<1> SUFFICES ASSUME SafeInv, ThreadInv, [Next]_vars PROVE ThreadInv'
  OBVIOUS
<1>1. \A p \in Poster : OwnInv(p)'
  BY OwnStep DEF ThreadInv, OwnInv
<1>2. Apart'
  BY ApartStep DEF ThreadInv, Apart
<1>3. FinalThreadIsWhole'
  BY FinalStep
<1> QED
  BY <1>1, <1>2, <1>3 DEF ThreadInv, OwnInv, Apart

(* As long as no reconciliation ran beside a post command, a finished posts  *)
(* row lists every segment of one attempt, in order, all of them on X        *)
(* (post_with_attempt and mark_posted).                                      *)
THEOREM FinishedThreadsAreWhole == Spec => []FinalThreadIsWhole
<1>1. Spec => []ThreadInv
  BY ThreadInit, ThreadStep, SafeInvariant, PTL DEF Spec
<1>2. ThreadInv => FinalThreadIsWhole
  BY DEF ThreadInv
<1> QED
  BY <1>1, <1>2, PTL

-----------------------------------------------------------------------------
(* The operator of the documentation is one of those modelled above, so what *)
(* is proved for any operator is true of that one.                           *)

LEMMA HonestIsSpecial == HonestSpec => Spec
<1>1. [Next /\ HonestStep]_vars => [Next]_vars
  OBVIOUS
<1> QED
  BY <1>1, PTL DEF HonestSpec, Spec

LEMMA HonestPostingImplementsGrants == HonestSpec => ImplementsThreadGrants
BY HonestIsSpecial, PostingImplementsGrants, PTL

LEMMA HonestRepostsAreWithdrawn == HonestSpec => []RepostNeedsWithdrawal
BY HonestIsSpecial, RepostsAreWithdrawn, PTL
=============================================================================
