------------------------------ MODULE XPosting ------------------------------
(***************************************************************************)
(* The X posting protocol of Panopticon Null: `pnull x approve`,           *)
(* `pnull x post --confirm` and `pnull x reconcile`, run by any number of  *)
(* processes over one SQLite store and one remote service, for ONE alert   *)
(* (every table involved is keyed by the alert and no statement joins two  *)
(* alerts).                                                                *)
(*                                                                         *)
(* The grain is one SQL statement (or one explicit transaction, or one     *)
(* HTTP request) per action: that is all the store makes atomic.  Between  *)
(* two actions of a command another command may run, and a process may     *)
(* die (Crash), which also stands for an early return on a SQLite error.   *)
(***************************************************************************)
EXTENDS Naturals, Sequences

CONSTANTS
    Poster,        \* the processes that run `pnull x post`
    Operator,      \* the processes that run `pnull x reconcile`
    Draft,         \* the draft digests the configuration can generate
    NoDraft,       \* no approval row yet
    NumSegments,   \* the posts of one thread (1 to 8 in the code)
    MaxAttempts,   \* bound: how many post commands are ever started
    MaxDecisions   \* bound: how many reconciliations are ever recorded

ASSUME ProcessAssumption == Poster \cap Operator = {}
ASSUME DraftAssumption   == NoDraft \notin Draft
ASSUME NumSegmentsAssumption  == NumSegments \in Nat \ {0}
ASSUME MaxAttemptsAssumption  == MaxAttempts \in Nat
ASSUME MaxDecisionsAssumption == MaxDecisions \in Nat

Process == Poster \cup Operator
Segment == 1..NumSegments

\* An attempt is named by its start time: the id hashes (alert, posted_at)
\* and attempts are ordered by started_at, so attempt numbers are that order.
Attempt == 1..MaxAttempts
NoAttempt == 0

\* The remote id X returns for segment s of attempt a; no id; and any text an
\* operator may type that is the id of no post of this thread.
RemoteId == Attempt \X Segment
NoId == <<0, 0>>
Mistyped == <<0, 1>>
Id == RemoteId \cup {Mistyped, NoId}
Ids == [Segment -> Id]
NoIds == [s \in Segment |-> NoId]

Status == {"in_progress", "uncertain", "complete",
           "reconciled", "partial", "abandoned"}
Unresolved == {"uncertain", "in_progress"}
Decision == {"confirm_posted", "confirm_none_posted", "partial", "abandon",
             "unsupported"}

\* A row of x_attempts, whose JSON is rewritten as a whole; "none" = no row.
\* (A segment's "pending"/"posted" label is only ever printed: left out.)
AttemptRow == [status : Status \cup {"none"}, draft : Draft \cup {NoDraft},
               remote : Ids]
NoRow == [status |-> "none", draft |-> NoDraft, remote |-> NoIds]

PostPC == {"guard", "check", "insert", "reserve", "submit", "record",
           "persist", "uncertain", "complete", "mark"}
RecPC == {"recInsert", "recRecord", "recCheck", "recMark", "recClear",
          "recPersist"}

\* A row of x_reconciliations: the attempt, and the remote id as typed.
Reconciliation == [attempt : Attempt, id : Id]

\* What a process holds in memory: "idle" between commands, then the step it
\* is at, its attempt and its copy of that row, the segment it is sending,
\* and for an operator the rest of the command line.
Proc == [pc : {"idle"} \cup PostPC \cup RecPC, target : Attempt \cup {NoAttempt},
         segment : Segment, copy : AttemptRow,
         decision : Decision, id : Id]
Idle == [pc |-> "idle", target |-> NoAttempt, segment |-> 1, copy |-> NoRow,
         decision |-> "abandon", id |-> NoId]

VARIABLES
    approval,         \* the approvals row: an approved draft digest or NoDraft
    posts,            \* the posts row: [row, ids]
    post_segments,    \* the post_segments rows: segment -> remote id or NoId
    attempts,         \* x_attempts: attempt -> AttemptRow
    reconciliations,  \* x_reconciliations, as inserted
    proc,             \* process -> Proc
    started,          \* how many post commands have taken a timestamp
    sent,             \* sent[a][s]: times X accepted segment s of attempt a
    inflight          \* <<a, s>> timed out here, X may still accept it

\* History, never read by the program.
VARIABLES
    granted,          \* reservations handed out so far
    grantOf,          \* attempt -> the number of its reservation, or 0
    withdrawn,        \* reservations an operator took back
    overlapped        \* a reconciliation ran while a posting command did

store == <<approval, posts, post_segments, attempts, reconciliations>>
remote == <<sent, inflight>>
history == <<granted, grantOf, withdrawn, overlapped>>
vars == <<store, proc, started, remote, history>>

-----------------------------------------------------------------------------
Init ==
    /\ approval = NoDraft
    /\ posts = [row |-> "absent", ids |-> NoIds]
    /\ post_segments = NoIds
    /\ attempts = [a \in Attempt |-> NoRow]
    /\ reconciliations = <<>>
    /\ proc = [p \in Process |-> Idle]
    /\ started = 0
    /\ sent = [a \in Attempt |-> [s \in Segment |-> 0]]
    /\ inflight = {}
    /\ granted = 0
    /\ grantOf = [a \in Attempt |-> 0]
    /\ withdrawn = 0
    /\ overlapped = FALSE

At(p, step) == proc[p].pc = step
Goto(p, step) == proc' = [proc EXCEPT ![p].pc = step]
\* The command ends, with its result or with an error.
Exit(p) == proc' = [proc EXCEPT ![p] = Idle]

Busy(procs) == \E p \in procs : ~At(p, "idle")
Recorded == {a \in Attempt : attempts[a].status # "none"}

\* INSERT INTO post_segments: the primary key and the foreign key to posts.
SegmentRowAccepted(s) == posts.row # "absent" /\ post_segments[s] = NoId

\* mark_posted is an UPDATE: without a posts row it changes nothing.
Marked(p) == IF posts.row = "absent" THEN posts
             ELSE [row |-> "final", ids |-> proc[p].copy.remote]

\* persist_attempt overwrites the whole row with the caller's copy.
Persist(p, row) == attempts' = [attempts EXCEPT ![proc[p].target] = row]

Accept(a, s) == sent' = [sent EXCEPT ![a][s] = @ + 1]

-----------------------------------------------------------------------------
(* Plausible mistakes in the commands, no part of Next: putting one in the   *)
(* place of the operator it is named after must break a property below.      *)

\* approve with INSERT OR REPLACE.
ApproveReplacing(d) ==
    /\ approval' = d
    /\ UNCHANGED <<posts, post_segments, attempts, reconciliations, proc,
                   started, remote, history>>

\* reserve_post that ignores the row another command inserted.
ReserveReplacing(p) ==
    /\ At(p, "reserve")
    /\ posts' = [row |-> "IN_PROGRESS", ids |-> NoIds]
    /\ granted' = granted + 1
    /\ grantOf' = [grantOf EXCEPT ![proc[p].target] = granted + 1]
    /\ Goto(p, "submit")
    /\ UNCHANGED <<approval, post_segments, attempts, reconciliations,
                   started, remote, withdrawn, overlapped>>

\* A post recorded only in x_attempts, not in post_segments.
SubmitOkUnrecorded(p) ==
    /\ At(p, "submit")
    /\ Accept(proc[p].target, proc[p].segment)
    /\ Goto(p, "persist")
    /\ UNCHANGED <<store, started, inflight, history>>

\* A lost answer retried on the spot.
SubmitErrRetrying(p) ==
    /\ At(p, "submit")
    /\ \/ UNCHANGED sent
       \/ Accept(proc[p].target, proc[p].segment)
    /\ UNCHANGED <<store, proc, started, inflight, history>>

\* The loop one turn too short, and one turn too long.
PersistSegmentShort(p) ==
    /\ At(p, "persist")
    /\ Persist(p, proc[p].copy)
    /\ Goto(p, "complete")
    /\ UNCHANGED <<approval, posts, post_segments, reconciliations, started,
                   remote, history>>
PersistSegmentLong(p) ==
    /\ At(p, "persist")
    /\ Persist(p, proc[p].copy)
    /\ proc' = [proc EXCEPT ![p].pc = "submit", ![p].segment = @ + 1]
    /\ UNCHANGED <<approval, posts, post_segments, reconciliations, started,
                   remote, history>>

\* A decision recorded only when it ends the command: not the confirmed id.
RecInsertLate(r) ==
    /\ At(r, "recInsert")
    /\ Len(reconciliations) < MaxDecisions
    /\ proc[r].decision = "confirm_posted" /\ proc[r].id # NoId
    /\ \E s \in Segment : proc[r].copy.remote[s] = NoId
    /\ Goto(r, "recRecord")
    /\ UNCHANGED <<store, started, remote, history>>

\* clear_in_progress_reservation without its "posted_at = 'IN_PROGRESS'".
RecClearAll(r) ==
    /\ At(r, "recClear")
    /\ post_segments' = NoIds
    /\ posts' = [row |-> "absent", ids |-> NoIds]
    /\ withdrawn' = withdrawn + 1
    /\ Goto(r, "recPersist")
    /\ UNCHANGED <<approval, attempts, reconciliations, started, remote,
                   granted, grantOf, overlapped>>

-----------------------------------------------------------------------------
(* pnull x approve: INSERT OR IGNORE, so the first approval stays. *)
Approve(d) ==
    /\ approval = NoDraft
    /\ approval' = d
    /\ UNCHANGED <<posts, post_segments, attempts, reconciliations, proc,
                   started, remote, history>>

(* pnull x post: the command takes its timestamp, generates the draft from   *)
(* the alert and the configuration, and compares it with the approval.  The  *)
(* citation gate before it may refuse the command: then nothing happens.     *)
PostBegin(p, d) ==
    /\ At(p, "idle")
    /\ started < MaxAttempts
    /\ approval = d
    /\ started' = started + 1
    /\ proc' = [proc EXCEPT ![p] = [Idle EXCEPT
            !.pc = "guard", !.target = started + 1,
            !.copy = [NoRow EXCEPT !.status = "in_progress", !.draft = d]]]
    /\ overlapped' = (overlapped \/ Busy(Operator))
    /\ UNCHANGED <<store, remote, granted, grantOf, withdrawn>>

LatestUnresolved ==
    \E a \in Recorded : /\ \A b \in Recorded : b <= a
                        /\ attempts[a].status \in Unresolved

(* guard_against_blind_retry: only the latest attempt is looked at. *)
Guard(p) ==
    /\ At(p, "guard")
    /\ \/ LatestUnresolved /\ Exit(p)
       \/ ~LatestUnresolved /\ Goto(p, "check")
    /\ UNCHANGED <<store, started, remote, history>>

(* is_posted: any posts row, finished or not, refuses the command. *)
CheckPosted(p) ==
    /\ At(p, "check")
    /\ \/ posts.row # "absent" /\ Exit(p)
       \/ posts.row = "absent" /\ Goto(p, "insert")
    /\ UNCHANGED <<store, started, remote, history>>

InsertAttempt(p) ==
    /\ At(p, "insert")
    /\ Persist(p, proc[p].copy)
    /\ Goto(p, "reserve")
    /\ UNCHANGED <<approval, posts, post_segments, reconciliations, started,
                   remote, history>>

(* reserve_post, INSERT OR IGNORE: the loser returns AlreadyPosted and       *)
(* leaves its attempt in progress.                                           *)
Reserve(p) ==
    /\ At(p, "reserve")
    /\ \/ /\ posts.row = "absent"
          /\ posts' = [row |-> "IN_PROGRESS", ids |-> NoIds]
          /\ granted' = granted + 1
          /\ grantOf' = [grantOf EXCEPT ![proc[p].target] = granted + 1]
          /\ Goto(p, "submit")
       \/ /\ posts.row # "absent"
          /\ Exit(p)
          /\ UNCHANGED <<posts, granted, grantOf>>
    /\ UNCHANGED <<approval, post_segments, attempts, reconciliations,
                   started, remote, withdrawn, overlapped>>

(* transport.submit returned the new post's id. *)
SubmitOk(p) ==
    /\ At(p, "submit")
    /\ Accept(proc[p].target, proc[p].segment)
    /\ Goto(p, "record")
    /\ UNCHANGED <<store, started, inflight, history>>

(* transport.submit failed: X refused the post, or took it and the answer    *)
(* was lost, or the 20 s timeout fired with the request still on its way.    *)
SubmitErr(p) ==
    /\ At(p, "submit")
    /\ \/ UNCHANGED <<sent, inflight>>
       \/ Accept(proc[p].target, proc[p].segment) /\ UNCHANGED inflight
       \/ /\ inflight' = inflight \cup {<<proc[p].target, proc[p].segment>>}
          /\ UNCHANGED sent
    /\ Goto(p, "uncertain")
    /\ UNCHANGED <<store, started, history>>

(* X accepts a post whose sender has long given up on it. *)
LateAccept(i) ==
    /\ i \in inflight
    /\ inflight' = inflight \ {i}
    /\ Accept(i[1], i[2])
    /\ UNCHANGED <<store, proc, started, history>>

(* record_post_segment; a constraint failure ends the command on the spot. *)
RecordSegment(p) ==
    LET s == proc[p].segment
        i == <<proc[p].target, s>>
    IN
    /\ At(p, "record")
    /\ \/ /\ SegmentRowAccepted(s)
          /\ post_segments' = [post_segments EXCEPT ![s] = i]
          /\ proc' = [proc EXCEPT ![p].pc = "persist",
                                  ![p].copy.remote[s] = i]
       \/ /\ ~SegmentRowAccepted(s)
          /\ Exit(p)
          /\ UNCHANGED post_segments
    /\ UNCHANGED <<approval, posts, attempts, reconciliations, started,
                   remote, history>>

(* persist_attempt after a segment, then the next turn of the loop. *)
PersistSegment(p) ==
    /\ At(p, "persist")
    /\ Persist(p, proc[p].copy)
    /\ \/ /\ proc[p].segment < NumSegments
          /\ proc' = [proc EXCEPT ![p].pc = "submit", ![p].segment = @ + 1]
       \/ proc[p].segment = NumSegments /\ Goto(p, "complete")
    /\ UNCHANGED <<approval, posts, post_segments, reconciliations, started,
                   remote, history>>

(* The loop broke: persist_attempt with status "uncertain", return the error. *)
PersistUncertain(p) ==
    /\ At(p, "uncertain")
    /\ Persist(p, [proc[p].copy EXCEPT !.status = "uncertain"])
    /\ Exit(p)
    /\ UNCHANGED <<approval, posts, post_segments, reconciliations, started,
                   remote, history>>

PersistComplete(p) ==
    /\ At(p, "complete")
    /\ Persist(p, [proc[p].copy EXCEPT !.status = "complete"])
    /\ Goto(p, "mark")
    /\ UNCHANGED <<approval, posts, post_segments, reconciliations, started,
                   remote, history>>

MarkPosted(p) ==
    /\ At(p, "mark")
    /\ posts' = Marked(p)
    /\ Exit(p)
    /\ UNCHANGED <<approval, post_segments, attempts, reconciliations,
                   started, remote, history>>

-----------------------------------------------------------------------------
\* The first segment of the row without a remote id: confirm_posted fills it.
Missing(row) == {s \in Segment : row.remote[s] = NoId}
FirstMissing(row) == CHOOSE s \in Missing(row) : \A t \in Missing(row) : s <= t

LiveIds == {i \in RemoteId : sent[i[1]][i[2]] > 0}

(* pnull x reconcile: the attempt is read.  The operator may say anything    *)
(* and type anything for an id: one that is on X, or one that is not.  Only  *)
(* confirm_posted looks at the id.                                           *)
RecBegin(r, a, d, id) ==
    /\ At(r, "idle")
    /\ Len(reconciliations) < MaxDecisions
    /\ a \in Recorded
    /\ id # NoId => d = "confirm_posted"
    /\ proc' = [proc EXCEPT ![r] = [Idle EXCEPT
            !.pc = "recInsert", !.target = a, !.copy = attempts[a],
            !.decision = d, !.id = id]]
    /\ overlapped' = (overlapped \/ Busy(Poster))
    /\ UNCHANGED <<store, started, remote, granted, grantOf, withdrawn>>

(* The decision is inserted before it is acted on, or even understood. *)
RecInsert(r) ==
    LET me == proc[r] IN
    /\ At(r, "recInsert")
    /\ Len(reconciliations) < MaxDecisions
    /\ reconciliations' = Append(reconciliations, [attempt |-> me.target, id |-> me.id])
    /\ \/ /\ me.decision = "confirm_posted"
          /\ me.id # NoId /\ Missing(me.copy) # {}
          /\ Goto(r, "recRecord")
       \/ /\ me.decision = "confirm_posted"
          /\ me.id = NoId \/ Missing(me.copy) = {}
          /\ Goto(r, "recCheck")
       \/ /\ me.decision \in {"confirm_none_posted", "partial"}
          /\ Goto(r, "recClear")
       \/ /\ me.decision = "abandon"
          /\ proc' = [proc EXCEPT ![r].pc = "recPersist",
                                  ![r].copy.status = "abandoned"]
       \/ /\ me.decision = "unsupported"
          /\ Exit(r)
    /\ UNCHANGED <<approval, posts, post_segments, attempts, started, remote,
                   history>>

RecRecord(r) ==
    LET s == FirstMissing(proc[r].copy) IN
    /\ At(r, "recRecord")
    /\ \/ /\ SegmentRowAccepted(s)
          /\ post_segments' = [post_segments EXCEPT ![s] = proc[r].id]
          /\ proc' = [proc EXCEPT ![r].pc = "recCheck",
                                  ![r].copy.remote[s] = proc[r].id]
       \/ /\ ~SegmentRowAccepted(s)
          /\ Exit(r)
          /\ UNCHANGED post_segments
    /\ UNCHANGED <<approval, posts, attempts, reconciliations, started,
                   remote, history>>

(* confirm_posted: mark_posted is reached only when there is NO posts row.   *)
RecCheck(r) ==
    /\ At(r, "recCheck")
    /\ \E step \in {"recMark", "recPersist"} :
         /\ step = "recMark" <=> posts.row = "absent"
         /\ proc' = [proc EXCEPT ![r].pc = step,
                                 ![r].copy.status = "reconciled"]
    /\ UNCHANGED <<store, started, remote, history>>

RecMark(r) ==
    /\ At(r, "recMark")
    /\ posts' = Marked(r)
    /\ Goto(r, "recPersist")
    /\ UNCHANGED <<approval, post_segments, attempts, reconciliations,
                   started, remote, history>>

(* clear_in_progress_reservation, one transaction: all segment rows go, the  *)
(* posts row goes only if it is not final.                                   *)
RecClear(r) ==
    /\ At(r, "recClear")
    /\ post_segments' = NoIds
    /\ \/ /\ posts.row = "IN_PROGRESS"
          /\ posts' = [row |-> "absent", ids |-> NoIds]
          /\ withdrawn' = withdrawn + 1
       \/ posts.row # "IN_PROGRESS" /\ UNCHANGED <<posts, withdrawn>>
    /\ proc' = [proc EXCEPT ![r].pc = "recPersist", ![r].copy.status =
         IF proc[r].decision = "partial" THEN "partial" ELSE "reconciled"]
    /\ UNCHANGED <<approval, attempts, reconciliations, started, remote,
                   granted, grantOf, overlapped>>

RecPersist(r) ==
    /\ At(r, "recPersist")
    /\ Persist(r, proc[r].copy)
    /\ Exit(r)
    /\ UNCHANGED <<approval, posts, post_segments, reconciliations, started,
                   remote, history>>

-----------------------------------------------------------------------------
(* A process is killed, or a statement fails with a SQLite error. *)
Crash(p) ==
    /\ ~At(p, "idle")
    /\ Exit(p)
    /\ UNCHANGED <<store, started, remote, history>>

PostStep(p) ==
    \/ Guard(p) \/ CheckPosted(p) \/ InsertAttempt(p) \/ Reserve(p)
    \/ SubmitOk(p) \/ SubmitErr(p) \/ RecordSegment(p) \/ PersistSegment(p)
    \/ PersistUncertain(p) \/ PersistComplete(p) \/ MarkPosted(p)

RecStep(r) ==
    \/ RecInsert(r) \/ RecRecord(r) \/ RecCheck(r) \/ RecMark(r)
    \/ RecClear(r) \/ RecPersist(r)

Next ==
    \/ \E d \in Draft : Approve(d)
    \/ \E p \in Poster, d \in Draft : PostBegin(p, d)
    \/ \E p \in Poster : PostStep(p)
    \/ \E i \in inflight : LateAccept(i)
    \/ \E r \in Operator, a \in Attempt, d \in Decision,
          id \in LiveIds \cup {Mistyped, NoId} : RecBegin(r, a, d, id)
    \/ \E r \in Operator : RecStep(r)
    \/ \E p \in Process : Crash(p)

Spec == Init /\ [][Next]_vars

-----------------------------------------------------------------------------
(* Type invariant. *)
TypeOK ==
    /\ approval \in Draft \cup {NoDraft}
    /\ posts \in [row : {"absent", "IN_PROGRESS", "final"}, ids : Ids]
    /\ post_segments \in Ids
    /\ attempts \in [Attempt -> AttemptRow]
    /\ reconciliations \in Seq(Reconciliation)
    /\ proc \in [Process -> Proc]
    /\ started \in 0..MaxAttempts
    /\ sent \in [Attempt -> [Segment -> Nat]]
    /\ inflight \subseteq RemoteId
    /\ granted \in Nat
    /\ grantOf \in [Attempt -> Nat]
    /\ withdrawn \in Nat
    /\ overlapped \in BOOLEAN

OnX(a) == {s \in Segment : sent[a][s] > 0}

\* The steps at which a post command holds, or believes it holds, the
\* reservation.
Window == {"submit", "record", "persist", "uncertain", "complete", "mark"}

(* X only ever shows text of the draft whose digest was approved: a draft    *)
(* that a changed configuration generates later, or a second approval, never *)
(* gets out under the first approval (post_with_attempt, Store::approve).    *)
ApprovedTextOnly ==
    \A a \in Attempt : OnX(a) # {} =>
        /\ approval # NoDraft
        /\ attempts[a].draft = approval

(* No attempt sends a segment twice, and what X holds of an attempt, posts   *)
(* still on their way included, is a prefix of its thread: a timed out       *)
(* segment is never retried and never skipped.                               *)
SentOnceInOrder ==
    \A a \in Attempt, s \in Segment :
        /\ sent[a][s] <= 1
        /\ <<a, s>> \in inflight => sent[a][s] = 0
        /\ sent[a][s] = 1 \/ <<a, s>> \in inflight =>
              \A t \in 1..(s - 1) : sent[a][t] = 1

(* A second thread for the same alert needs an operator: two attempts that   *)
(* both reached X did so under different reservations, and every reservation *)
(* but the last was withdrawn by a reconciliation.  No crash, timeout or     *)
(* race between post commands alone can post twice.                          *)
RepostNeedsWithdrawal ==
    \A a, b \in Attempt : a # b /\ OnX(a) # {} /\ OnX(b) # {} =>
        /\ grantOf[a] # grantOf[b]
        /\ grantOf[a] <= withdrawn + 1

(* Every remote id in the store either names a post that exists on X or was  *)
(* typed by an operator, and then the reconciliation that says so is on      *)
(* record: reconcile checks no id, but an id that X never gave out is always *)
(* accounted for, whatever was lost, overwritten or cut short.               *)
ConfirmedIds == {reconciliations[k].id : k \in DOMAIN reconciliations}
RecordedIsAccountedFor ==
    LET AccountedFor(ids) ==
            \A s \in Segment : ids[s] # NoId => ids[s] \in LiveIds \cup ConfirmedIds
    IN  /\ AccountedFor(post_segments)
        /\ AccountedFor(posts.ids)
        /\ \A a \in Attempt : AccountedFor(attempts[a].remote)

(* A crash loses track of at most one post: under the current reservation,   *)
(* when a later segment has been sent all earlier ones have their row.       *)
CrashLosesAtMostOneSegment ==
    \A a \in Attempt :
        posts.row = "IN_PROGRESS" /\ grantOf[a] = granted =>
            \A t \in Segment : sent[a][t] > 0 \/ <<a, t>> \in inflight =>
                \A s \in 1..(t - 1) : post_segments[s] # NoId

(* As long as no reconciliation has run beside a post command, a finished    *)
(* posts row lists every segment of one attempt, in order, all of them on X. *)
FinalThreadIsWhole ==
    ~overlapped /\ posts.row = "final" =>
        \E a \in Attempt : /\ OnX(a) = Segment
                           /\ \A s \in Segment : posts.ids[s] = <<a, s>>

(* The protocol implements the promise of ThreadGrants. *)
Delivered == [g \in Attempt |->
    {s \in Segment : \E a \in Attempt : grantOf[a] = g /\ sent[a][s] > 0}]
Thread == INSTANCE ThreadGrants
    WITH MaxGrants <- MaxAttempts, row <- posts.row, delivered <- Delivered
ImplementsThreadGrants == Thread!Spec
=============================================================================
