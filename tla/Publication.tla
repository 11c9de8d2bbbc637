----------------------------- MODULE Publication -----------------------------
(***************************************************************************)
(* The citation-review queue (`pnull review approve | reject | supersede`) *)
(* and the site builder (`pnull build-site`) that publishes what the queue *)
(* approves.  Reviewers and builders are separate processes over one       *)
(* store; every build writes the same temporary directory beside the       *)
(* output directory and then puts it in the output's place.                *)
(*                                                                         *)
(* One action is one call of the review gate, one file written, or one     *)
(* step of the replacement.  The content of alerts, evidence and matters   *)
(* is immutable (INSERT OR IGNORE under a content hash), so an approval's  *)
(* bound digest always matches and is left out.                            *)
(*                                                                         *)
(* What a page says is more than the citations it quotes: an alert has a   *)
(* title, a summary and changed lines of its own, which are no citations,  *)
(* and so have matters, statements and change notices.                     *)
(***************************************************************************)
EXTENDS Naturals, Sequences, FiniteSets

CONSTANTS
    Builder,       \* processes running build-site
    Citation,      \* line and page citations
    AlertSeq,      \* the alerts, in the order of Store::alerts
    EvidenceSeq,   \* the evidence records
    MatterSeq,     \* the procurement matters, by id
    LineCites,     \* alert -> its line citations
    EvidenceOf,    \* alert -> its evidence
    PageCites,     \* evidence -> its page citations
    MatterCites,   \* matter -> the citations of its case file
    DiffPage,      \* alert with a diff -> the page of the diff
    Private,       \* the matters whose text the privacy backstop refuses
    Statement,     \* stored subjects and actions, as an alert's page states them
    StatementsOf,  \* evidence -> the statements of the matters attached to it
    Label,         \* locators ("line 3") that stand where a citation id should
    StatementCites,\* statement -> the ids it names as its citations
    Notice,        \* procurement change alerts
    MaxDecisions,  \* bound: review decisions ever recorded
    MaxBuilds      \* bound: builds ever started

SeqSet(s) == {s[i] : i \in DOMAIN s}
Alert == SeqSet(AlertSeq)
Evidence == SeqSet(EvidenceSeq)
Matter == SeqSet(MatterSeq)

ASSUME CitesAssumption ==
    /\ LineCites \in [Alert -> SUBSET Citation]
    /\ EvidenceOf \in [Alert -> Evidence]
    /\ PageCites \in [Evidence -> SUBSET Citation]
    /\ MatterCites \in [Matter -> SUBSET Citation]
    /\ StatementsOf \in [Evidence -> SUBSET Statement]
    /\ StatementCites \in [Statement -> SUBSET (Citation \cup Label)]
    /\ Label \cap Citation = {}
ASSUME BoundAssumption == MaxDecisions \in Nat /\ MaxBuilds \in Nat

\* A review decision.  Its id hashes the citation and the time, so its rank
\* among ids has nothing to do with its place in time.
ReviewState == {"Approved", "Rejected", "Superseded"}
Review == [citation : Citation, state : ReviewState,
           at : 1..MaxDecisions, rank : 1..MaxDecisions]

\* The files of the site.  Index stands for history.html, for index.html (the
\* first ten of it) and for the pages of constant text, MatterAtom for
\* procurement/index.html too.
Index == "index.html"
Atom == "atom.xml"
MatterAtom == "procurement/atom.xml"
Fixed == {Index, Atom, MatterAtom}
Changed == DOMAIN DiffPage
DiffPages == {DiffPage[a] : a \in Changed}
Path == Fixed \cup Alert \cup DiffPages \cup Evidence \cup Matter

\* Alerts, diffs, evidence and matters have their pages in directories of their
\* own, and an alert's diff has the name of the alert.
ASSUME PathAssumption ==
    /\ AlertSeq \in Seq(Alert) /\ EvidenceSeq \in Seq(Evidence) /\ MatterSeq \in Seq(Matter)
    /\ Changed \subseteq Alert
    /\ \A a, b \in Changed : DiffPage[a] = DiffPage[b] => a = b
    /\ Alert \cap (Fixed \cup DiffPages \cup Evidence \cup Matter) = {}
    /\ DiffPages \cap (Fixed \cup Evidence \cup Matter) = {}
    /\ Evidence \cap (Fixed \cup Matter) = {}
    /\ Matter \cap Fixed = {}

\* What a page can say: quote a citation, or tell of an alert (its title, its
\* summary or the changed lines), of a matter or of a statement in words that
\* are no citation.  The grounds of each are the citations that back it.
Item == Citation \cup Alert \cup Matter \cup Statement
ASSUME ItemAssumption ==
    /\ Citation \cap (Alert \cup Matter \cup Statement) = {}
    /\ Statement \cap (Alert \cup Matter) = {}
    /\ Private \subseteq Matter
    /\ Notice \cap Alert = {}
Grounds(x) ==
    CASE x \in Alert     -> LineCites[x]
      [] x \in Matter    -> MatterCites[x]
      [] x \in Statement -> StatementCites[x]
      [] OTHER           -> {x}

\* A file: the build that wrote it, what it says, and what it links to with
\* its title and summary.
File == [build : 0..MaxBuilds, says : SUBSET Item,
         lists : SUBSET (Alert \cup Matter \cup Notice)]
NoFile == [build |-> 0, says |-> {}, lists |-> {}]

\* A directory: missing, there, or half deleted.
Directory == [is : {"missing", "tree", "torn"}, files : [Path -> File]]
Missing == [is |-> "missing", files |-> [p \in Path |-> NoFile]]
Empty == [Missing EXCEPT !.is = "tree"]
Torn == [Missing EXCEPT !.is = "torn"]

PC == {"idle", "wipe", "create", "select", "write", "clear", "rename"}
Build == [pc : PC, build : 0..MaxBuilds, unread : Seq(Alert),
          chosen : Seq(Alert), todo : Seq(Path), since : 0..MaxDecisions]
Idle == [pc |-> "idle", build |-> 0, unread |-> <<>>, chosen |-> <<>>,
         todo |-> <<>>, since |-> 0]

VARIABLES
    decisions,    \* the rows of review_decisions
    allowlisted,  \* the row of publication_allowlists that the demo stores, with
                  \* both "procurement_casefile" and "subject_action", is there
    temporary,    \* <output>.pnull-building
    output,       \* the output directory
    proc          \* builder -> Build

\* History: builds started, whether two ever ran side by side, the number of
\* decisions when the build that is online began.
VARIABLES builds, overlapped, siteSince

store == <<decisions, allowlisted>>
site == <<temporary, output>>
history == <<builds, overlapped, siteSince>>
vars == <<store, site, proc, history>>

-----------------------------------------------------------------------------
Init ==
    /\ decisions = {}
    /\ allowlisted \in BOOLEAN
    /\ temporary = Missing
    /\ output = Missing
    /\ proc = [b \in Builder |-> Idle]
    /\ builds = 0
    /\ overlapped = FALSE
    /\ siteSince = 0

At(b, step) == proc[b].pc = step
Goto(b, step) == proc' = [proc EXCEPT ![b].pc = step]
Exit(b) == proc' = [proc EXCEPT ![b] = Idle]

-----------------------------------------------------------------------------
(* The review queue. *)

ReviewsOf(c) == {d \in decisions : d.citation = c}

\* A mistake: a citation nobody rejected passes.
NotRejected(c) == ~\E d \in ReviewsOf(c) : d.state # "Approved"

\* Store::current_review is the last of SELECT ... ORDER BY id.
CurrentlyApproved(c) ==
    \E d \in ReviewsOf(c) : /\ d.state = "Approved"
                            /\ \A e \in ReviewsOf(c) : e.rank <= d.rank

InsertReview(c, state, rank) ==
    /\ Cardinality(decisions) < MaxDecisions
    /\ \A d \in decisions : d.rank # rank
    /\ decisions' = decisions \cup {[citation |-> c, state |-> state,
                        at |-> Cardinality(decisions) + 1, rank |-> rank]}
    /\ UNCHANGED <<allowlisted, site, proc, history>>

(* record_review, for a citation that exists. *)
RecordReview(c, state, rank) ==
    /\ state \in {"Approved", "Rejected"}
    /\ InsertReview(c, state, rank)

(* review supersede: a follow-up decision on the same citation. *)
Supersede(d, rank) ==
    /\ d \in decisions
    /\ InsertReview(d.citation, "Superseded", rank)

-----------------------------------------------------------------------------
(* build_site. *)

Begin(b) ==
    /\ At(b, "idle")
    /\ builds < MaxBuilds
    /\ builds' = builds + 1
    /\ proc' = [proc EXCEPT ![b] = [Idle EXCEPT
            !.pc = "wipe", !.build = builds + 1, !.unread = AlertSeq,
            !.since = Cardinality(decisions)]]
    /\ overlapped' = (overlapped \/ \E o \in Builder : ~At(o, "idle"))
    /\ UNCHANGED <<store, site, siteSince>>

(* A temporary directory left behind by an earlier build goes first. *)
Wipe(b) ==
    /\ At(b, "wipe")
    /\ temporary' = Missing
    /\ Goto(b, "create")
    /\ UNCHANGED <<store, output, history>>

Create(b) ==
    /\ At(b, "create")
    /\ temporary' = IF temporary = Missing THEN Empty ELSE temporary
    /\ Goto(b, "select")
    /\ UNCHANGED <<store, output, history>>

\* A mistake: one approved citation is enough.
SelectAny(b) ==
    LET me == proc[b]
        a == Head(me.unread)
    IN
    /\ At(b, "select")
    /\ me.unread # <<>>
    /\ \E chosen \in {me.chosen, Append(me.chosen, a)} :
         /\ chosen # me.chosen <=> \E c \in LineCites[a] : CurrentlyApproved(c)
         /\ proc' = [proc EXCEPT ![b].unread = Tail(@), ![b].chosen = chosen]
    /\ UNCHANGED <<store, site, history>>

(* The next alert passes the gate, or is left out. *)
Select(b) ==
    LET me == proc[b]
        a == Head(me.unread)
    IN
    /\ At(b, "select")
    /\ me.unread # <<>>
    /\ \E chosen \in {me.chosen, Append(me.chosen, a)} :
         /\ chosen # me.chosen <=> \A c \in LineCites[a] : CurrentlyApproved(c)
         /\ proc' = [proc EXCEPT ![b].unread = Tail(@), ![b].chosen = chosen]
    /\ UNCHANGED <<store, site, history>>

StartWriting(b) ==
    /\ At(b, "select")
    /\ proc[b].unread = <<>>
    /\ proc' = [proc EXCEPT ![b].pc = "write", ![b].todo =
         <<Index>> \o proc[b].chosen \o EvidenceSeq \o <<Atom>> \o MatterSeq
                   \o <<MatterAtom>>]
    /\ UNCHANGED <<store, site, history>>

ApprovedPages(e) == {c \in PageCites[e] : CurrentlyApproved(c)}

\* subjects_actions_section: the statements whose ids all have an approval.
Shown(e) ==
    {s \in StatementsOf[e] :
        allowlisted /\ \A c \in StatementCites[s] : CurrentlyApproved(c)}

\* evaluate_gate: a matter's page tells of it and quotes all its citations, or
\* is withheld, for privacy too, and then has its title and the reasons.
MatterPage(m) ==
    IF allowlisted /\ m \notin Private /\ \A c \in MatterCites[m] : CurrentlyApproved(c)
    THEN {m} \cup MatterCites[m] ELSE {}

\* The alert whose page or diff p is, if it is one.  Its title, its summary
\* and its changed lines are printed as they are stored.
Alerts(p) == {a \in Alert : p = a \/ (a \in Changed /\ p = DiffPage[a])}
Says(p) ==
    Alerts(p) \cup
    CASE p \in Alert    -> LineCites[p] \cup ApprovedPages(EvidenceOf[p])
                                       \cup Shown(EvidenceOf[p])
      [] p \in Evidence -> ApprovedPages(p)
      [] p \in Matter   -> MatterPage(p)
      [] OTHER          -> {}

\* A mistake: the feed built from all alerts.
ListsAll(p, chosen) ==
    CASE p = Index      -> SeqSet(chosen)
      [] p = Atom       -> Alert
      [] p = MatterAtom -> Matter \cup Notice
      [] OTHER          -> {}

\* The procurement feed lists every matter and change alert of the store, with
\* the summary of the latter, and asks no gate.
Lists(p, chosen) ==
    CASE p \in {Index, Atom} -> SeqSet(chosen)
      [] p = MatterAtom      -> Matter \cup Notice
      [] OTHER               -> {}

\* An alert's page is followed by its diff.
Follow(p) == IF p \in Changed THEN <<DiffPage[p]>> ELSE <<>>

(* One page is rendered from the store as it is now, checked by             *)
(* validate_public_text, which may refuse it and end the build, and written. *)
Write(b) ==
    LET me == proc[b]
        p == Head(me.todo)
    IN
    /\ At(b, "write")
    /\ me.todo # <<>>
    /\ \/ /\ temporary.is = "tree"
          /\ temporary' = [temporary EXCEPT !.files[p] =
                [build |-> me.build, says |-> Says(p),
                 lists |-> Lists(p, me.chosen)]]
          /\ proc' = [proc EXCEPT ![b].todo = Follow(p) \o Tail(@)]
       \/ Exit(b) /\ UNCHANGED temporary
    /\ UNCHANGED <<store, output, history>>

(* if output_dir.exists() { remove_dir_all(output_dir) } *)
Remove(b) ==
    /\ At(b, "write")
    /\ proc[b].todo = <<>>
    /\ \/ output = Missing /\ Goto(b, "rename") /\ UNCHANGED output
       \/ output # Missing /\ Goto(b, "clear") /\ output' = Torn
    /\ UNCHANGED <<store, temporary, history>>

Clear(b) ==
    /\ At(b, "clear")
    /\ \/ output = Torn /\ output' = Missing /\ Goto(b, "rename")
       \/ output # Torn /\ Exit(b) /\ UNCHANGED output
    /\ UNCHANGED <<store, temporary, history>>

(* fs::rename fails without a source, or onto a directory that has files. *)
Rename(b) ==
    /\ At(b, "rename")
    /\ \/ /\ temporary.is = "tree" /\ output = Missing
          /\ output' = temporary
          /\ temporary' = Missing
          /\ siteSince' = proc[b].since
       \/ /\ temporary.is # "tree" \/ output # Missing
          /\ UNCHANGED <<site, siteSince>>
    /\ Exit(b)
    /\ UNCHANGED <<store, builds, overlapped>>

-----------------------------------------------------------------------------
Crash(b) ==
    /\ ~At(b, "idle")
    /\ Exit(b)
    /\ UNCHANGED <<store, site, history>>

BuildStep(b) ==
    \/ Wipe(b) \/ Create(b) \/ Select(b) \/ StartWriting(b) \/ Write(b)
    \/ Remove(b) \/ Clear(b) \/ Rename(b)

Next ==
    \/ \E c \in Citation, state \in ReviewState, rank \in 1..MaxDecisions :
          RecordReview(c, state, rank)
    \/ \E d \in decisions, rank \in 1..MaxDecisions : Supersede(d, rank)
    \/ \E b \in Builder : Begin(b)
    \/ \E b \in Builder : BuildStep(b)
    \/ \E b \in Builder : Crash(b)

Spec == Init /\ [][Next]_vars

-----------------------------------------------------------------------------
Online(p) == output.is = "tree" /\ output.files[p] # NoFile

\* What a page says, the summaries of the alerts it lists included.
Told(p) == output.files[p].says \cup (output.files[p].lists \cap Alert)

(* In any state two concurrent builds and any crash can leave the site in,   *)
(* nothing is quoted that no human ever approved; what is told without a     *)
(* citation of its own - the summary and the changed lines of an alert, the  *)
(* body of a matter's page, a subject or action - is there only with every   *)
(* citation approved that the alert, the matter or the statement rests on;   *)
(* and a private matter is never told (the gates of build_site_in,           *)
(* alert_page, evidence_page, subjects_actions_section and evaluate_gate).   *)
(* Those words themselves are under no review, and neither are the notices   *)
(* and titles of the procurement feed.                                       *)
OnlyApprovedQuoted ==
    \A p \in Path : Online(p) =>
        \A x \in Told(p) :
            /\ \A c \in Grounds(x) : \E d \in ReviewsOf(c) : d.state = "Approved"
            /\ x \notin Private

(* As long as no two builds ran side by side, the site is the whole output   *)
(* of ONE build: the pages, the diffs and the feed agree on which alerts are *)
(* public, no file is missing and none is left over from an earlier,         *)
(* interrupted or refused build.                                             *)
SiteIsOneBuild ==
    ~overlapped /\ output.is = "tree" =>
        LET chosen == output.files[Index].lists IN
        /\ \A p, q \in Path : Online(p) /\ Online(q) =>
              output.files[p].build = output.files[q].build
        /\ \A p \in Path : Online(p) <=> Alerts(p) \subseteq chosen
        /\ output.files[Atom].lists = chosen

\* What a reviewer means: the last decision made on a citation approves it.
InForce(c) == \E d \in ReviewsOf(c) : /\ d.state = "Approved"
                                      /\ \A e \in ReviewsOf(c) : e.at <= d.at
Granted(x) == \A c \in Grounds(x) : InForce(c)

\* The ids of the decisions on one citation happen to sort as they were made.
IdsFollowTime ==
    \A d, e \in decisions :
        d.citation = e.citation => (d.at <= e.at <=> d.rank <= e.rank)

(* A build beside which nothing was decided or built publishes what the last *)
(* decisions grant: nothing revoked or superseded is left on any page, and   *)
(* nothing granted is missing from its page.  Only if the hashed ids of the  *)
(* decisions on a citation sort as they were made: current_review takes the  *)
(* largest id, and otherwise a revoked quotation can stay.                   *)
Settled == /\ ~overlapped /\ output.is = "tree"
           /\ siteSince = Cardinality(decisions)
SettledSiteIsExact ==
    Settled /\ IdsFollowTime =>
        /\ \A p \in Path : Online(p) => \A x \in Told(p) : Granted(x)
        /\ \A a \in Alert : Granted(a) =>
              /\ \A p \in Path : a \in Alerts(p) => Online(p)
              /\ LineCites[a] \subseteq output.files[a].says
              /\ \A s \in StatementsOf[EvidenceOf[a]] :
                    allowlisted /\ Granted(s) => s \in output.files[a].says
        /\ \A e \in Evidence : \A c \in PageCites[e] :
              InForce(c) => c \in output.files[e].says
        /\ \A m \in Matter \ Private :
              allowlisted /\ Granted(m) =>
                 {m} \cup MatterCites[m] \subseteq output.files[m].says

=============================================================================
