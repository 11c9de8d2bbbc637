-------------------------- MODULE Publication_proofs --------------------------
(***************************************************************************)
(* Proofs about Publication, for any builders, citations, alerts, evidence *)
(* and matters, and any number of decisions and builds: the site quotes    *)
(* and tells nothing without an approval, it is the output of one build    *)
(* unless two ran side by side, and it is exact if nothing was decided     *)
(* since and the ids of the decisions sort as they were made.              *)
(***************************************************************************)
EXTENDS Publication, FiniteSetTheorems, TLAPS

-----------------------------------------------------------------------------
(* Sequences as sets of their elements. *)

LEMMA SeqSetOf ==
    ASSUME NEW S, NEW s \in Seq(S)
    PROVE  SeqSet(s) \subseteq S
BY DEF SeqSet

LEMMA SeqSetEmpty == SeqSet(<<>>) = {}
BY DEF SeqSet

LEMMA SeqSetAppend ==
    ASSUME NEW S, NEW s \in Seq(S), NEW x \in S
    PROVE  SeqSet(Append(s, x)) = SeqSet(s) \cup {x} /\ Append(s, x) # s
<1> DEFINE t == Append(s, x)
           n == Len(s)
<1>1. n \in Nat /\ DOMAIN s = 1..n /\ DOMAIN t = 1..(n + 1) /\ Len(t) = n + 1
  OBVIOUS
<1>2. t[n + 1] = x /\ \A i \in 1..n : t[i] = s[i]
  OBVIOUS
<1> HIDE DEF t, n
<1>3. SeqSet(t) \subseteq SeqSet(s) \cup {x}
  BY <1>1, <1>2 DEF SeqSet
<1>4. SeqSet(s) \subseteq SeqSet(t)
  BY <1>1, <1>2 DEF SeqSet
<1>5. x \in SeqSet(t)
  BY <1>1, <1>2 DEF SeqSet
<1>6. t # s
  BY <1>1 DEF n
<1> QED
  BY <1>3, <1>4, <1>5, <1>6 DEF t

LEMMA SeqSetConcat ==
    ASSUME NEW S, NEW s \in Seq(S), NEW t \in Seq(S)
    PROVE  SeqSet(s \o t) = SeqSet(s) \cup SeqSet(t)
<1> DEFINE m == Len(s)
           n == Len(t)
           u == s \o t
<1>1. m \in Nat /\ n \in Nat /\ DOMAIN s = 1..m /\ DOMAIN t = 1..n /\ DOMAIN u = 1..(m + n)
  OBVIOUS
<1>2. /\ \A i \in 1..m : u[i] = s[i]
      /\ \A i \in 1..n : u[m + i] = t[i]
  OBVIOUS
<1> HIDE DEF m, n, u
<1>3. SeqSet(u) \subseteq SeqSet(s) \cup SeqSet(t)
  <2> SUFFICES ASSUME NEW i \in 1..(m + n) PROVE u[i] \in SeqSet(s) \cup SeqSet(t)
    BY <1>1 DEF SeqSet
  <2>1. CASE i \in 1..m
    BY <2>1, <1>1, <1>2 DEF SeqSet
  <2>2. CASE i \notin 1..m
    <3>1. i - m \in 1..n /\ m + (i - m) = i
      BY <2>2, <1>1
    <3>2. u[i] = t[i - m]
      BY <3>1, <1>2
    <3> QED
      BY <3>1, <3>2, <1>1 DEF SeqSet
  <2> QED
    BY <2>1, <2>2
<1>4. SeqSet(s) \subseteq SeqSet(u)
  BY <1>1, <1>2 DEF SeqSet
<1>5. SeqSet(t) \subseteq SeqSet(u)
  <2> SUFFICES ASSUME NEW i \in 1..n PROVE t[i] \in SeqSet(u)
    BY <1>1 DEF SeqSet
  <2>1. m + i \in 1..(m + n)
    BY <1>1
  <2> QED
    BY <2>1, <1>1, <1>2 DEF SeqSet
<1> QED
  BY <1>3, <1>4, <1>5 DEF u

LEMMA SeqSetTail ==
    ASSUME NEW S, NEW s \in Seq(S), s # <<>>
    PROVE  /\ Head(s) \in S /\ Tail(s) \in Seq(S)
           /\ SeqSet(s) = {Head(s)} \cup SeqSet(Tail(s))
<1> DEFINE n == Len(s)
           t == Tail(s)
<1>1. /\ n \in Nat /\ n >= 1 /\ DOMAIN s = 1..n /\ DOMAIN t = 1..(n - 1)
      /\ Head(s) = s[1] /\ t \in Seq(S) /\ Head(s) \in S
  OBVIOUS
<1>2. \A i \in 1..(n - 1) : t[i] = s[i + 1]
  OBVIOUS
<1> HIDE DEF n, t
<1>3. SeqSet(t) \subseteq SeqSet(s)
  <2> SUFFICES ASSUME NEW i \in 1..(n - 1) PROVE t[i] \in SeqSet(s)
    BY <1>1 DEF SeqSet
  <2>1. i + 1 \in 1..n
    BY <1>1
  <2> QED
    BY <2>1, <1>1, <1>2 DEF SeqSet
<1>4. Head(s) \in SeqSet(s)
  BY <1>1 DEF SeqSet
<1>5. SeqSet(s) \subseteq {Head(s)} \cup SeqSet(t)
  <2> SUFFICES ASSUME NEW i \in 1..n PROVE s[i] \in {Head(s)} \cup SeqSet(t)
    BY <1>1 DEF SeqSet
  <2>1. CASE i = 1
    BY <2>1, <1>1
  <2>2. CASE i # 1
    <3>1. i - 1 \in 1..(n - 1) /\ (i - 1) + 1 = i
      BY <2>2, <1>1
    <3>2. t[i - 1] = s[i]
      BY <3>1, <1>2
    <3> QED
      BY <3>1, <3>2, <1>1 DEF SeqSet
  <2> QED
    BY <2>1, <2>2
<1> QED
  BY <1>1, <1>3, <1>4, <1>5 DEF t

\* The sequences the store lists have their sets for elements.
LEMMA Listed ==
    /\ AlertSeq \in Seq(Alert) /\ SeqSet(AlertSeq) = Alert
    /\ EvidenceSeq \in Seq(Evidence) /\ SeqSet(EvidenceSeq) = Evidence
    /\ MatterSeq \in Seq(Matter) /\ SeqSet(MatterSeq) = Matter
BY PathAssumption DEF Alert, Evidence, Matter

\* The pages a build sets out to write, in their order, and as a set; each
\* brings its diff with it.
Plan(chosen) ==
    <<Index>> \o chosen \o EvidenceSeq \o <<Atom>> \o MatterSeq \o <<MatterAtom>>
Pages(chosen) == Fixed \cup SeqSet(chosen) \cup Evidence \cup Matter
WithDiffs(S) == S \cup {DiffPage[a] : a \in Changed \cap S}
Planned(chosen) == WithDiffs(Pages(chosen))

LEMMA PlanIsPlanned ==
    ASSUME NEW chosen \in Seq(Alert)
    PROVE  Plan(chosen) \in Seq(Path) /\ SeqSet(Plan(chosen)) = Pages(chosen)
<1>1. /\ chosen \in Seq(Path) /\ EvidenceSeq \in Seq(Path) /\ MatterSeq \in Seq(Path)
      /\ <<Index>> \in Seq(Path) /\ <<Atom>> \in Seq(Path) /\ <<MatterAtom>> \in Seq(Path)
  <2>1. /\ Alert \subseteq Path /\ Evidence \subseteq Path /\ Matter \subseteq Path
        /\ Index \in Path /\ Atom \in Path /\ MatterAtom \in Path
    BY DEF Path, Fixed
  <2>2. \A S \in SUBSET Path : \A s \in Seq(S) : s \in Seq(Path)
    OBVIOUS
  <2> QED
    BY <2>1, <2>2, Listed
<1>2. \A x \in Path : <<x>> \in Seq(Path) /\ SeqSet(<<x>>) = {x}
  BY DEF SeqSet
<1>0. Index \in Path /\ Atom \in Path /\ MatterAtom \in Path
  BY DEF Path, Fixed
<1>3. \A s, t \in Seq(Path) : s \o t \in Seq(Path) /\ SeqSet(s \o t) = SeqSet(s) \cup SeqSet(t)
  BY SeqSetConcat
<1> DEFINE s1 == <<Index>> \o chosen
           s2 == s1 \o EvidenceSeq
           s3 == s2 \o <<Atom>>
           s4 == s3 \o MatterSeq
           s5 == s4 \o <<MatterAtom>>
<1>4. s1 \in Seq(Path) /\ SeqSet(s1) = {Index} \cup SeqSet(chosen)
  BY <1>1, <1>2, <1>3 DEF Path, Fixed
<1> HIDE DEF s1
<1>5. s2 \in Seq(Path) /\ SeqSet(s2) = SeqSet(s1) \cup Evidence
  BY <1>1, <1>3, <1>4, Listed
<1> HIDE DEF s2
<1>6. s3 \in Seq(Path) /\ SeqSet(s3) = SeqSet(s2) \cup {Atom}
  BY <1>0, <1>2, <1>3, <1>5
<1> HIDE DEF s3
<1>7. s4 \in Seq(Path) /\ SeqSet(s4) = SeqSet(s3) \cup Matter
  BY <1>1, <1>3, <1>6, Listed
<1> HIDE DEF s4
<1>8. s5 \in Seq(Path) /\ SeqSet(s5) = SeqSet(s4) \cup {MatterAtom}
  BY <1>0, <1>2, <1>3, <1>7
<1> HIDE DEF s5
<1>9. s5 = Plan(chosen)
  BY DEF s1, s2, s3, s4, s5, Plan
<1> QED
  BY <1>4, <1>5, <1>6, <1>7, <1>8, <1>9 DEF Pages, Fixed

\* A diff has one alert and is no page of another kind; so what a build sets
\* out to write has the pages of the chosen alerts and their diffs, and no
\* others of the alerts.
LEMMA DiffsApart ==
    /\ \A a \in Changed : a \in Alert /\ DiffPage[a] \in Path /\ DiffPage[a] \notin Alert
    /\ \A a \in Alert : Alerts(a) = {a}
    /\ \A a \in Changed : Alerts(DiffPage[a]) = {a}
    /\ \A p \in Path : p \notin Alert /\ p \notin DiffPages => Alerts(p) = {}
<1>1. /\ Changed \subseteq Alert /\ \A a \in Changed : DiffPage[a] \in DiffPages
      /\ Alert \cap DiffPages = {}
  BY PathAssumption DEF DiffPages
<1>2. \A a, b \in Changed : DiffPage[a] = DiffPage[b] => a = b
  BY PathAssumption
<1>3. DiffPages \subseteq Path
  BY DEF Path
<1> QED
  BY <1>1, <1>2, <1>3 DEF Alerts

LEMMA PlannedPages ==
    ASSUME NEW chosen \in Seq(Alert)
    PROVE  /\ Planned(chosen) \subseteq Path /\ Pages(chosen) \subseteq Planned(chosen)
           /\ \A p \in Path : p \in Planned(chosen) <=> Alerts(p) \subseteq SeqSet(chosen)
<1> DEFINE set == SeqSet(chosen)
<1>1. set \subseteq Alert
  BY SeqSetOf
<1> HIDE DEF set
<1>2. Alert \cap Pages(chosen) = set
  BY <1>1, PathAssumption DEF Pages, set
<1>3. Changed \cap Pages(chosen) = Changed \cap set
  BY <1>2, PathAssumption
<1>4. Planned(chosen) = Pages(chosen) \cup {DiffPage[a] : a \in Changed \cap set}
  BY <1>3 DEF Planned, WithDiffs
<1>5. Pages(chosen) \subseteq Path
  BY <1>1 DEF Pages, Path, set
<1>6. Planned(chosen) \subseteq Path
  BY <1>4, <1>5, DiffsApart
<1>7. ASSUME NEW p \in Alert
      PROVE  p \in Planned(chosen) <=> Alerts(p) \subseteq set
  BY <1>2, <1>4, <1>7, DiffsApart
<1>8. ASSUME NEW a \in Changed
      PROVE  DiffPage[a] \in Planned(chosen) <=> a \in set
  <2>1. DiffPage[a] \in DiffPages
    BY DEF DiffPages
  <2>2. DiffPage[a] \notin Pages(chosen)
    BY <1>1, <2>1, PathAssumption DEF Pages, set
  <2> QED
    BY <1>4, <2>2, PathAssumption
<1>9. ASSUME NEW p \in DiffPages
      PROVE  p \in Planned(chosen) <=> Alerts(p) \subseteq set
  <2>1. PICK a \in Changed : p = DiffPage[a]
    BY DEF DiffPages
  <2> QED
    BY <1>8, <2>1, DiffsApart
<1>10. ASSUME NEW p \in Path, p \notin Alert, p \notin DiffPages
       PROVE  p \in Planned(chosen) /\ Alerts(p) \subseteq set
  BY <1>4, <1>10, DiffsApart DEF Pages, Path
<1> QED
  BY <1>4, <1>6, <1>7, <1>9, <1>10 DEF set

\* An alert's page brings its diff, any other page nothing.
LEMMA FollowDiff ==
    ASSUME NEW p \in Path
    PROVE  Follow(p) \in Seq(Path) /\ {p} \cup SeqSet(Follow(p)) = WithDiffs({p})
<1>1. CASE p \in Changed
  <2>1. Follow(p) = <<DiffPage[p]>> /\ DiffPage[p] \in Path
    BY <1>1, DiffsApart DEF Follow
  <2>2. SeqSet(<<DiffPage[p]>>) = {DiffPage[p]} /\ <<DiffPage[p]>> \in Seq(Path)
    BY <2>1 DEF SeqSet
  <2>3. WithDiffs({p}) = {p, DiffPage[p]}
    BY <1>1 DEF WithDiffs
  <2> QED
    BY <2>1, <2>2, <2>3
<1>2. CASE p \notin Changed
  <2>1. Follow(p) = <<>> /\ <<>> \in Seq(Path)
    BY <1>2 DEF Follow
  <2>2. WithDiffs({p}) = {p}
    BY <1>2 DEF WithDiffs
  <2> QED
    BY <2>1, <2>2, SeqSetEmpty
<1> QED
  BY <1>1, <1>2

-----------------------------------------------------------------------------
(* Types. *)

TypeOK ==
    /\ decisions \subseteq Review /\ IsFiniteSet(decisions)
    /\ Cardinality(decisions) \in 0..MaxDecisions
    /\ allowlisted \in BOOLEAN
    /\ temporary \in Directory /\ output \in Directory
    /\ proc \in [Builder -> Build]
    /\ \A b \in Builder : ~At(b, "idle") => proc[b].build >= 1
    /\ builds \in 0..MaxBuilds /\ overlapped \in BOOLEAN
    /\ siteSince \in 0..MaxDecisions

LEMMA Constants ==
    /\ MaxDecisions \in Nat /\ MaxBuilds \in Nat
    /\ 0 \in 0..MaxDecisions /\ 0 \in 0..MaxBuilds
BY BoundAssumption

LEMMA Records ==
    /\ NoFile \in File /\ Idle \in Build
    /\ Missing \in Directory /\ Empty \in Directory /\ Torn \in Directory
    /\ Missing.is = "missing" /\ Empty.is = "tree" /\ Torn.is = "torn"
    /\ \A p \in Path : /\ Missing.files[p] = NoFile /\ Empty.files[p] = NoFile
                       /\ Torn.files[p] = NoFile
    /\ NoFile.says = {} /\ NoFile.lists = {} /\ NoFile.build = 0
    /\ Idle.pc = "idle" /\ Idle.chosen = <<>> /\ Idle.todo = <<>> /\ Idle.since = 0
<1>1. NoFile \in File
  BY Constants DEF NoFile, File
<1>2. Missing \in Directory
  BY <1>1 DEF Missing, Directory
<1>3. Idle \in Build
  BY Constants DEF Idle, Build, PC
<1> QED
  BY <1>1, <1>2, <1>3 DEF Missing, Empty, Torn, Directory, NoFile, Idle

\* Two builders that agree in every field.
Alike(q, r) ==
    /\ q.pc = r.pc /\ q.build = r.build /\ q.unread = r.unread
    /\ q.chosen = r.chosen /\ q.todo = r.todo /\ q.since = r.since

\* One builder changes, into one like r.
Becomes(b, r) ==
    /\ proc' \in [Builder -> Build]
    /\ Alike(proc'[b], r)
    /\ \A o \in Builder : o # b => proc'[o] = proc[o]

\* The builder b with another step and other lists.
With(b, pc, unread, chosen, todo) ==
    [pc |-> pc, build |-> proc[b].build, unread |-> unread, chosen |-> chosen,
     todo |-> todo, since |-> proc[b].since]

LEMMA BuilderTypes ==
    ASSUME TypeOK, NEW b \in Builder
    PROVE  /\ proc[b] \in Build
           /\ proc[b].pc \in PC /\ proc[b].build \in 0..MaxBuilds
           /\ proc[b].unread \in Seq(Alert) /\ proc[b].chosen \in Seq(Alert)
           /\ proc[b].todo \in Seq(Path) /\ proc[b].since \in 0..MaxDecisions
<1>1. proc[b] \in Build
  BY DEF TypeOK
<1> QED
  BY <1>1 DEF Build

LEMMA BecomesOne ==
    ASSUME TypeOK, NEW b \in Builder, NEW q \in Build, proc' = [proc EXCEPT ![b] = q],
           NEW r, Alike(q, r)
    PROVE  Becomes(b, r)
<1>1. proc' \in [Builder -> Build] /\ proc'[b] = q /\ \A o \in Builder : o # b => proc'[o] = proc[o]
  BY DEF TypeOK
<1> QED
  BY <1>1 DEF Becomes

LEMMA GotoMoves ==
    ASSUME TypeOK, NEW b \in Builder, NEW s \in PC, Goto(b, s)
    PROVE  Becomes(b, With(b, s, proc[b].unread, proc[b].chosen, proc[b].todo))
<1> DEFINE new == With(b, s, proc[b].unread, proc[b].chosen, proc[b].todo)
           q == [proc[b] EXCEPT !.pc = s]
<1>1. proc[b] \in Build
  BY BuilderTypes
<1>2. q \in Build /\ Alike(q, new)
  BY <1>1 DEF With, Alike, Build
<1>3. proc' = [proc EXCEPT ![b] = q]
  BY <1>1 DEF Goto, TypeOK, Build
<1> HIDE DEF new, q
<1> QED
  BY <1>2, <1>3, BecomesOne DEF new

LEMMA ExitMoves ==
    ASSUME TypeOK, NEW b \in Builder, Exit(b)
    PROVE  Becomes(b, Idle)
BY Records, BecomesOne DEF Exit, Alike

Fresh == [Idle EXCEPT !.pc = "wipe", !.build = builds + 1, !.unread = AlertSeq,
                      !.since = Cardinality(decisions)]

LEMMA BeginMoves ==
    ASSUME TypeOK, NEW b \in Builder, Begin(b)
    PROVE  Becomes(b, Fresh)
<1>2. builds + 1 \in 0..MaxBuilds
  BY Constants DEF Begin, TypeOK
<1>3. Fresh \in Build
  BY <1>2, Records, Listed DEF Fresh, Build, PC, TypeOK
<1>4. proc' = [proc EXCEPT ![b] = Fresh]
  BY DEF Begin, Fresh
<1> HIDE DEF Fresh
<1> QED
  BY <1>3, <1>4, BecomesOne DEF Alike

LEMMA SelectMoves ==
    ASSUME TypeOK, NEW b \in Builder, Select(b)
    PROVE  LET me == proc[b]
               a == Head(me.unread)
           IN  /\ a \in Alert /\ SeqSet(me.unread) = {a} \cup SeqSet(Tail(me.unread))
               /\ \E chosen \in Seq(Alert) :
                     /\ \/ /\ \A c \in LineCites[a] : CurrentlyApproved(c)
                           /\ SeqSet(chosen) = SeqSet(me.chosen) \cup {a}
                        \/ /\ ~\A c \in LineCites[a] : CurrentlyApproved(c)
                           /\ chosen = me.chosen
                     /\ Becomes(b, With(b, "select", Tail(me.unread), chosen, me.todo))
<1> DEFINE me == proc[b]
           a == Head(me.unread)
<1>1. /\ me.unread \in Seq(Alert) /\ me.unread # <<>> /\ me.chosen \in Seq(Alert)
      /\ me.todo \in Seq(Path) /\ me.pc = "select"
  BY BuilderTypes DEF Select, At
<1>2. /\ a \in Alert /\ Tail(me.unread) \in Seq(Alert)
      /\ SeqSet(me.unread) = {a} \cup SeqSet(Tail(me.unread))
  BY <1>1, SeqSetTail
<1>3. PICK chosen \in {me.chosen, Append(me.chosen, a)} :
         /\ chosen # me.chosen <=> \A c \in LineCites[a] : CurrentlyApproved(c)
         /\ proc' = [proc EXCEPT ![b].unread = Tail(@), ![b].chosen = chosen]
  BY DEF Select
<1>4. /\ SeqSet(Append(me.chosen, a)) = SeqSet(me.chosen) \cup {a}
      /\ Append(me.chosen, a) # me.chosen /\ Append(me.chosen, a) \in Seq(Alert)
  BY <1>1, <1>2, SeqSetAppend
<1>5. chosen \in Seq(Alert)
  BY <1>1, <1>3, <1>4
<1> DEFINE rest == Tail(me.unread)
           q == [proc[b] EXCEPT !.unread = rest, !.chosen = chosen]
           new == With(b, "select", rest, chosen, me.todo)
<1>6. proc' = [proc EXCEPT ![b] = q]
  BY <1>3, BuilderTypes DEF TypeOK, Build
<1>7. q \in Build /\ Alike(q, new)
  <2>1. proc[b] \in Build /\ rest \in Seq(Alert)
    BY <1>2, BuilderTypes
  <2> HIDE DEF rest
  <2> QED
    BY <1>1, <1>5, <2>1 DEF With, Alike, Build
<1>8. Becomes(b, new)
  <2> HIDE DEF q, new
  <2> QED
    BY <1>6, <1>7, BecomesOne
<1> HIDE DEF me, a
<1> QED
  BY <1>2, <1>3, <1>4, <1>5, <1>8 DEF me, a

LEMMA StartWritingMoves ==
    ASSUME TypeOK, NEW b \in Builder, StartWriting(b)
    PROVE  Becomes(b, With(b, "write", <<>>, proc[b].chosen, Plan(proc[b].chosen)))
<1> DEFINE plan == Plan(proc[b].chosen)
           new == With(b, "write", <<>>, proc[b].chosen, plan)
<1>1. /\ proc[b].chosen \in Seq(Alert) /\ proc[b].unread = <<>>
      /\ plan \in Seq(Path)
  BY BuilderTypes, PlanIsPlanned DEF StartWriting
<1>3. proc' = [proc EXCEPT ![b].pc = "write", ![b].todo = plan]
  BY DEF StartWriting, Plan
<1> DEFINE q == [proc[b] EXCEPT !.pc = "write", !.todo = plan]
<1> HIDE DEF plan
<1>4. proc' = [proc EXCEPT ![b] = q]
  BY <1>3, BuilderTypes DEF TypeOK, Build
<1>5. q \in Build /\ Alike(q, new)
  <2>1. proc[b] \in Build
    BY BuilderTypes
  <2> QED
    BY <1>1, <2>1 DEF With, Alike, Build, PC
<1> HIDE DEF new, q
<1> QED
  BY <1>4, <1>5, BecomesOne DEF new, plan

\* The file of a page, as it is written now.
Page(b, p) == [build |-> proc[b].build, says |-> Says(p),
               lists |-> Lists(p, proc[b].chosen)]

LEMMA PageTypes ==
    ASSUME TypeOK, NEW b \in Builder, NEW p \in Path
    PROVE  Page(b, p) \in File
<1>1. SeqSet(proc[b].chosen) \subseteq Alert
  BY BuilderTypes, SeqSetOf
<1>2. Lists(p, proc[b].chosen) \in SUBSET (Alert \cup Matter \cup Notice)
  BY <1>1 DEF Lists
<1>3. Says(p) \in SUBSET Item
  <2>1. \A a \in Alert : LineCites[a] \subseteq Citation /\ EvidenceOf[a] \in Evidence
    BY CitesAssumption
  <2>2. \A e \in Evidence : ApprovedPages(e) \subseteq Citation /\ Shown(e) \subseteq Statement
    BY CitesAssumption DEF ApprovedPages, Shown
  <2>3. \A m \in Matter : MatterPage(m) \subseteq {m} \cup Citation
    BY CitesAssumption DEF MatterPage
  <2>4. Alerts(p) \subseteq Alert
    BY DEF Alerts
  <2>5. CASE p \in Alert
    <3>1. Says(p) = Alerts(p) \cup (LineCites[p] \cup ApprovedPages(EvidenceOf[p])
                                              \cup Shown(EvidenceOf[p]))
      BY <2>5, PathAssumption DEF Says
    <3> QED
      BY <2>1, <2>2, <2>4, <2>5, <3>1 DEF Item
  <2>6. CASE p \in Evidence /\ p \notin Alert
    <3>1. Says(p) = Alerts(p) \cup ApprovedPages(p)
      BY <2>6, PathAssumption DEF Says
    <3> QED
      BY <2>2, <2>4, <2>6, <3>1 DEF Item
  <2>7. CASE p \in Matter /\ p \notin Alert /\ p \notin Evidence
    <3>1. Says(p) = Alerts(p) \cup MatterPage(p)
      BY <2>7 DEF Says
    <3> QED
      BY <2>3, <2>4, <2>7, <3>1 DEF Item
  <2>8. CASE p \notin Alert /\ p \notin Evidence /\ p \notin Matter
    <3>1. Says(p) = Alerts(p)
      BY <2>8 DEF Says
    <3> QED
      BY <2>4, <3>1 DEF Item
  <2> QED
    BY <2>5, <2>6, <2>7, <2>8
<1> QED
  BY <1>2, <1>3, BuilderTypes DEF Page, File

LEMMA WriteMoves ==
    ASSUME TypeOK, NEW b \in Builder, Write(b)
    PROVE  LET me == proc[b]
               p == Head(me.todo)
               rest == Follow(p) \o Tail(me.todo)
           IN  /\ me.pc = "write" /\ p \in Path
               /\ SeqSet(me.todo) = {p} \cup SeqSet(Tail(me.todo))
               /\ {p} \cup SeqSet(rest) = WithDiffs({p}) \cup SeqSet(Tail(me.todo))
               /\ \/ /\ temporary.is = "tree" /\ temporary' \in Directory
                     /\ temporary'.is = "tree"
                     /\ temporary'.files[p] = Page(b, p)
                     /\ \A q \in Path \ {p} : temporary'.files[q] = temporary.files[q]
                     /\ Becomes(b, With(b, "write", me.unread, me.chosen, rest))
                  \/ Exit(b) /\ Becomes(b, Idle) /\ UNCHANGED temporary
<1> DEFINE me == proc[b]
           p == Head(me.todo)
           rest == Follow(p) \o Tail(me.todo)
<1>1. /\ me.todo \in Seq(Path) /\ me.todo # <<>> /\ me.pc = "write"
      /\ me.unread \in Seq(Alert) /\ me.chosen \in Seq(Alert)
  BY BuilderTypes DEF Write, At
<1>2. p \in Path /\ Tail(me.todo) \in Seq(Path) /\ SeqSet(me.todo) = {p} \cup SeqSet(Tail(me.todo))
  BY <1>1, SeqSetTail
<1>5. rest \in Seq(Path) /\ {p} \cup SeqSet(rest) = WithDiffs({p}) \cup SeqSet(Tail(me.todo))
  <2> DEFINE t == Tail(me.todo)
             f == Follow(p)
  <2>1. t \in Seq(Path) /\ f \in Seq(Path) /\ {p} \cup SeqSet(f) = WithDiffs({p})
    BY <1>2, FollowDiff
  <2> HIDE DEF t, f
  <2>2. f \o t \in Seq(Path) /\ SeqSet(f \o t) = SeqSet(f) \cup SeqSet(t)
    BY <2>1, SeqSetConcat
  <2> QED
    BY <2>1, <2>2 DEF f, t
<1>3. CASE Exit(b) /\ UNCHANGED temporary
  BY <1>1, <1>2, <1>3, <1>5, ExitMoves
<1>4. CASE /\ temporary.is = "tree"
           /\ temporary' = [temporary EXCEPT !.files[p] =
                [build |-> me.build, says |-> Says(p), lists |-> Lists(p, me.chosen)]]
           /\ proc' = [proc EXCEPT ![b].todo = Follow(p) \o Tail(@)]
  <2> DEFINE page == Page(b, p)
             new == With(b, "write", me.unread, me.chosen, rest)
  <2>1. temporary' = [temporary EXCEPT !.files[p] = page]
    BY <1>4 DEF Page
  <2>2. page \in File
    BY <1>2, PageTypes
  <2> HIDE DEF page, p
  <2>3. /\ temporary' \in Directory /\ temporary'.is = "tree"
        /\ temporary'.files[p] = page
        /\ \A q \in Path \ {p} : temporary'.files[q] = temporary.files[q]
    BY <1>2, <1>4, <2>1, <2>2 DEF TypeOK, Directory
  <2> DEFINE q == [proc[b] EXCEPT !.todo = rest]
  <2>5. proc' = [proc EXCEPT ![b] = q]
    BY <1>4, BuilderTypes DEF TypeOK, Build, p
  <2>6. q \in Build /\ Alike(q, new)
    <3>1. proc[b] \in Build /\ rest \in Seq(Path)
      BY <1>5, BuilderTypes
    <3> HIDE DEF rest
    <3> QED
      BY <1>1, <3>1 DEF With, Alike, Build
  <2>7. Becomes(b, new)
    <3> HIDE DEF q, new
    <3> QED
      BY <2>5, <2>6, BecomesOne
  <2> HIDE DEF new
  <2> QED
    BY <1>1, <1>2, <1>4, <1>5, <2>3, <2>7 DEF page, p, new
<1> QED
  BY <1>3, <1>4 DEF Write

LEMMA ReviewTypes ==
    ASSUME TypeOK, NEW c \in Citation, NEW state \in ReviewState,
           NEW rank \in 1..MaxDecisions, InsertReview(c, state, rank)
    PROVE  /\ decisions' \subseteq Review /\ IsFiniteSet(decisions')
           /\ decisions \subseteq decisions'
           /\ Cardinality(decisions') = Cardinality(decisions) + 1
           /\ Cardinality(decisions') \in 0..MaxDecisions
           /\ UNCHANGED <<allowlisted, temporary, output, proc, builds, overlapped, siteSince>>
<1> DEFINE n == Cardinality(decisions)
           d == [citation |-> c, state |-> state, at |-> n + 1, rank |-> rank]
<1>1. n \in Nat /\ n < MaxDecisions /\ MaxDecisions \in Nat
  BY Constants DEF InsertReview, TypeOK
<1>2. d \in Review
  <2>1. n + 1 \in 1..MaxDecisions
    BY <1>1
  <2> HIDE DEF n
  <2> QED
    BY <2>1 DEF Review
<1>3. d \notin decisions
  BY DEF InsertReview
<1>4. decisions' = decisions \cup {d}
  BY DEF InsertReview
<1>5. IsFiniteSet(decisions') /\ Cardinality(decisions') = n + 1
  <2> HIDE DEF d
  <2> QED
    BY <1>3, <1>4, FS_AddElement DEF TypeOK
<1> QED
  BY <1>1, <1>2, <1>4, <1>5 DEF InsertReview, TypeOK, site, history

LEMMA ReviewSteps ==
    ASSUME TypeOK,
           \/ \E c \in Citation, state \in ReviewState, rank \in 1..MaxDecisions :
                 RecordReview(c, state, rank)
           \/ \E d \in decisions, rank \in 1..MaxDecisions : Supersede(d, rank)
    PROVE  \E c \in Citation, state \in ReviewState, rank \in 1..MaxDecisions :
              InsertReview(c, state, rank)
BY DEF RecordReview, Supersede, ReviewState, TypeOK, Review

LEMMA StepKeepsTypes ==
    ASSUME TypeOK, Next
    PROVE  TypeOK'
<1>1. ASSUME NEW c \in Citation, NEW state \in ReviewState,
             NEW rank \in 1..MaxDecisions, InsertReview(c, state, rank)
      PROVE  TypeOK'
  BY <1>1, ReviewTypes DEF TypeOK, At
\* A builder's step that keeps its build number, or ends it.
<1>2. ASSUME NEW b \in Builder, NEW r, Becomes(b, r),
             r.pc = "idle" \/ (r.build = proc[b].build /\ proc[b].pc # "idle")
      PROVE  \A o \in Builder : ~At(o, "idle")' => proc'[o].build >= 1
  BY <1>2 DEF Becomes, Alike, TypeOK, At
<1>3. ASSUME NEW b \in Builder, Begin(b) PROVE TypeOK'
  <2>1. Becomes(b, Fresh)
    BY <1>3, BeginMoves
  <2>2. builds + 1 \in 0..MaxBuilds /\ builds + 1 >= 1 /\ Fresh.build = builds + 1
    BY <1>3, Constants DEF Begin, TypeOK, Fresh, Idle
  <2>3. \A o \in Builder : ~At(o, "idle")' => proc'[o].build >= 1
    BY <2>1, <2>2 DEF Becomes, Alike, TypeOK, At
  <2>4. proc' \in [Builder -> Build]
    BY <2>1 DEF Becomes
  <2>5. overlapped' \in BOOLEAN
    BY <1>3 DEF Begin
  <2> QED
    BY <1>3, <2>2, <2>3, <2>4, <2>5 DEF Begin, TypeOK, store, site
<1>4. ASSUME NEW b \in Builder, BuildStep(b) \/ Crash(b) PROVE TypeOK'
  <2>1. \E r : Becomes(b, r) /\ (r.pc = "idle" \/ (r.build = proc[b].build /\ proc[b].pc # "idle"))
    <3>1. ASSUME NEW s \in PC, Goto(b, s), proc[b].pc # "idle"
          PROVE  \E r : Becomes(b, r) /\ (r.pc = "idle" \/ (r.build = proc[b].build /\ proc[b].pc # "idle"))
      <4> DEFINE new == With(b, s, proc[b].unread, proc[b].chosen, proc[b].todo)
      <4>1. Becomes(b, new)
        BY <3>1, GotoMoves
      <4>2. new.build = proc[b].build
        BY DEF With
      <4> HIDE DEF new
      <4> QED
        BY <3>1, <4>1, <4>2
    <3>2. ASSUME Exit(b)
          PROVE  \E r : Becomes(b, r) /\ (r.pc = "idle" \/ (r.build = proc[b].build /\ proc[b].pc # "idle"))
      BY <3>2, ExitMoves, Records
    <3>3. ASSUME NEW s, NEW u, NEW c, NEW t, Becomes(b, With(b, s, u, c, t)), proc[b].pc # "idle"
          PROVE  \E r : Becomes(b, r) /\ (r.pc = "idle" \/ (r.build = proc[b].build /\ proc[b].pc # "idle"))
      <4>1. With(b, s, u, c, t).build = proc[b].build
        BY DEF With
      <4> QED
        BY <3>3, <4>1
    <3>4. CASE Wipe(b) \/ Create(b) \/ Remove(b) \/ Clear(b) \/ Rename(b) \/ Crash(b)
      BY <3>1, <3>2, <3>4 DEF Wipe, Create, Remove, Clear, Rename, Crash, At, PC
    <3>5. CASE Select(b)
      BY <3>3, <3>5, SelectMoves DEF Select, At
    <3>6. CASE StartWriting(b)
      BY <3>3, <3>6, StartWritingMoves DEF StartWriting, At
    <3>7. CASE Write(b)
      <4>1. proc[b].pc = "write"
        BY <3>7 DEF Write, At
      <4> QED
        BY <3>3, <3>7, <4>1, WriteMoves, Records
    <3> QED
      BY <1>4, <3>4, <3>5, <3>6, <3>7 DEF BuildStep
  <2>2. /\ proc' \in [Builder -> Build]
        /\ \A o \in Builder : ~At(o, "idle")' => proc'[o].build >= 1
    BY <2>1, <1>2 DEF Becomes
  <2>3. temporary' \in Directory /\ output' \in Directory
    <3>1. CASE Write(b)
      <4>1. output' = output
        BY <3>1 DEF Write
      <4> QED
        BY <3>1, <4>1, WriteMoves DEF TypeOK
    <3>2. CASE ~Write(b)
      BY <1>4, <3>2, Records DEF BuildStep, Wipe, Create, Select, StartWriting, Remove,
         Clear, Rename, Crash, TypeOK, site
    <3> QED
      BY <3>1, <3>2
  <2>4. siteSince' \in 0..MaxDecisions
    BY <1>4, BuilderTypes DEF BuildStep, Wipe, Create, Select, StartWriting, Write, Remove,
       Clear, Rename, Crash, TypeOK, history
  <2>5. UNCHANGED <<decisions, allowlisted, builds, overlapped>>
    BY <1>4 DEF BuildStep, Wipe, Create, Select, StartWriting, Write, Remove, Clear,
       Rename, Crash, store, history
  <2> QED
    BY <2>2, <2>3, <2>4, <2>5 DEF TypeOK
<1> QED
  BY <1>1, <1>3, <1>4, ReviewSteps DEF Next

LEMMA TypeCorrect == Spec => []TypeOK
<1>1. Init => TypeOK
  <2>1. IsFiniteSet({}) /\ Cardinality({}) = 0
    BY FS_EmptySet
  <2> QED
    BY <2>1, Records, Constants DEF Init, TypeOK, At
<1>2. TypeOK /\ [Next]_vars => TypeOK'
  <2>1. ASSUME TypeOK, UNCHANGED vars PROVE TypeOK'
    BY <2>1 DEF vars, store, site, history, TypeOK, At
  <2> QED
    BY <2>1, StepKeepsTypes
<1> QED
  BY <1>1, <1>2, PTL DEF Spec

-----------------------------------------------------------------------------
(* Nothing is told that no approval backs. *)

\* What may be told: every citation it rests on was approved once, and it is
\* no private matter.  The alerts among it are publishable.
EverApproved(c) == \E d \in ReviewsOf(c) : d.state = "Approved"
Vetted == {x \in Item : (\A c \in Grounds(x) : EverApproved(c)) /\ x \notin Private}
Publishable == Alert \cap Vetted
Passes(a) == \A c \in LineCites[a] : CurrentlyApproved(c)

\* Whatever builds overlap or stop, no file ever written, and no page still to
\* be written, tells what is not vetted.
TellsVetted(files) ==
    \A p \in Path : files[p].says \subseteq Vetted /\ files[p].lists \cap Alert \subseteq Vetted
WillTellVetted(b) ==
    /\ SeqSet(proc[b].chosen) \subseteq Publishable
    /\ \A p \in SeqSet(proc[b].todo) : Alerts(p) \subseteq Publishable
QuoteInv ==
    /\ TellsVetted(temporary.files)
    /\ TellsVetted(output.files)
    /\ \A b \in Builder : WillTellVetted(b)

\* What each thing that can be told rests on.
LEMMA GroundsOf ==
    /\ \A c \in Citation : Grounds(c) = {c} /\ c \in Item /\ c \notin Private
    /\ \A a \in Alert : Grounds(a) = LineCites[a] /\ a \in Item /\ a \notin Private
    /\ \A m \in Matter : Grounds(m) = MatterCites[m] /\ m \in Item
    /\ \A s \in Statement : Grounds(s) = StatementCites[s] /\ s \in Item /\ s \notin Private
<1>1. /\ Citation \cap (Alert \cup Matter \cup Statement) = {}
      /\ Statement \cap (Alert \cup Matter) = {}
      /\ Private \subseteq Matter /\ Alert \cap Matter = {}
  BY ItemAssumption, PathAssumption
<1>2. \A c \in Citation : c \notin Alert /\ c \notin Matter /\ c \notin Statement
  BY <1>1
<1>3. \A c \in Citation : Grounds(c) = {c}
  BY <1>2 DEF Grounds
<1>4. \A a \in Alert : a \notin Matter /\ a \notin Statement
  BY <1>1
<1>5. \A a \in Alert : Grounds(a) = LineCites[a]
  BY <1>4 DEF Grounds
<1>6. \A m \in Matter : m \notin Alert /\ m \notin Statement
  BY <1>1
<1>7. \A m \in Matter : Grounds(m) = MatterCites[m]
  BY <1>6 DEF Grounds
<1>8. \A s \in Statement : s \notin Alert /\ s \notin Matter
  BY <1>1
<1>9. \A s \in Statement : Grounds(s) = StatementCites[s]
  BY <1>8 DEF Grounds
<1>10. \A x \in Citation \cup Alert \cup Matter \cup Statement : x \in Item
  BY DEF Item
<1> QED
  BY <1>1, <1>3, <1>5, <1>7, <1>9, <1>10

\* What the queue approves now was approved once.
LEMMA NowIsOnce ==
    /\ \A c : CurrentlyApproved(c) => EverApproved(c)
    /\ \A c \in Citation : CurrentlyApproved(c) => c \in Vetted
    /\ \A a \in Alert : Passes(a) => a \in Publishable
<1>1. \A c : CurrentlyApproved(c) => EverApproved(c)
  BY DEF CurrentlyApproved, EverApproved
<1> QED
  BY <1>1, GroundsOf DEF Passes, Publishable, Vetted

\* The page of an alert that passed tells only what is vetted.
LEMMA PageTellsVetted ==
    ASSUME NEW p \in Path, Alerts(p) \subseteq Publishable
    PROVE  Says(p) \subseteq Vetted
<1>1. \A e \in Evidence : ApprovedPages(e) \subseteq Vetted
  BY CitesAssumption, NowIsOnce DEF ApprovedPages
<1>2. \A m \in Matter : MatterPage(m) \subseteq Vetted
  <2> SUFFICES ASSUME NEW m \in Matter, m \notin Private,
                      \A c \in MatterCites[m] : CurrentlyApproved(c)
               PROVE  {m} \cup MatterCites[m] \subseteq Vetted
    BY DEF MatterPage
  <2>1. m \in Vetted
    BY NowIsOnce, GroundsOf DEF Vetted
  <2>2. MatterCites[m] \subseteq Citation
    BY CitesAssumption
  <2> QED
    BY <2>1, <2>2, NowIsOnce
<1>3. \A e \in Evidence : Shown(e) \subseteq Vetted
  <2> SUFFICES ASSUME NEW e \in Evidence, NEW s \in StatementsOf[e],
                      \A c \in StatementCites[s] : CurrentlyApproved(c)
               PROVE  s \in Vetted
    BY DEF Shown
  <2>1. s \in Statement
    BY CitesAssumption
  <2> QED
    BY <2>1, NowIsOnce, GroundsOf DEF Vetted
<1>4. Alerts(p) \subseteq Vetted
  BY DEF Publishable
<1>5. CASE p \in Alert
  <2>1. EvidenceOf[p] \in Evidence /\ LineCites[p] \subseteq Citation
    BY <1>5, CitesAssumption
  <2>2. p \in Vetted
    BY <1>4, <1>5 DEF Alerts
  <2>3. LineCites[p] \subseteq Vetted
    BY <1>5, <2>1, <2>2, GroundsOf DEF Vetted
  <2>4. Says(p) = Alerts(p) \cup (LineCites[p] \cup ApprovedPages(EvidenceOf[p])
                                            \cup Shown(EvidenceOf[p]))
    BY <1>5, PathAssumption DEF Says
  <2> QED
    BY <1>1, <1>3, <1>4, <2>1, <2>3, <2>4
<1>6. CASE p \in Evidence /\ p \notin Alert
  <2>1. Says(p) = Alerts(p) \cup ApprovedPages(p)
    BY <1>6, PathAssumption DEF Says
  <2> QED
    BY <1>1, <1>4, <1>6, <2>1
<1>7. CASE p \in Matter /\ p \notin Alert /\ p \notin Evidence
  <2>1. Says(p) = Alerts(p) \cup MatterPage(p)
    BY <1>7 DEF Says
  <2> QED
    BY <1>2, <1>4, <1>7, <2>1
<1>8. CASE p \notin Alert /\ p \notin Evidence /\ p \notin Matter
  <2>1. Says(p) = Alerts(p)
    BY <1>8 DEF Says
  <2> QED
    BY <1>4, <2>1
<1> QED
  BY <1>5, <1>6, <1>7, <1>8

\* A page lists only alerts that were chosen.
LEMMA ListsChosen ==
    ASSUME NEW p \in Path, NEW chosen
    PROVE  Lists(p, chosen) \cap Alert \subseteq SeqSet(chosen)
<1>1. (Matter \cup Notice) \cap Alert = {}
  BY ItemAssumption, PathAssumption
<1> QED
  BY <1>1 DEF Lists

\* A decision is never taken back.
LEMMA ApprovalsGrow ==
    ASSUME decisions \subseteq decisions'
    PROVE  Vetted \subseteq Vetted' /\ Publishable \subseteq Publishable'
<1>1. \A c : EverApproved(c) => EverApproved(c)'
  BY DEF EverApproved, ReviewsOf
<1>2. Vetted \subseteq Vetted'
  BY <1>1 DEF Vetted
<1> QED
  BY <1>2 DEF Publishable

LEMMA StepKeepsQuotes ==
    ASSUME TypeOK, QuoteInv, Next
    PROVE  QuoteInv'
<1>1. ASSUME NEW c \in Citation, NEW state \in ReviewState,
             NEW rank \in 1..MaxDecisions, InsertReview(c, state, rank)
      PROVE  QuoteInv'
  BY <1>1, ReviewTypes, ApprovalsGrow DEF QuoteInv, TellsVetted, WillTellVetted
<1>2. ASSUME NEW b \in Builder, NEW r, Becomes(b, r), UNCHANGED decisions,
             SeqSet(r.chosen) \subseteq Publishable,
             \A p \in SeqSet(r.todo) : Alerts(p) \subseteq Publishable
      PROVE  \A o \in Builder : WillTellVetted(o)'
  <2>1. Publishable \subseteq Publishable'
    BY <1>2, ApprovalsGrow
  <2>2. proc'[b].chosen = r.chosen /\ proc'[b].todo = r.todo
    BY <1>2 DEF Becomes, Alike
  <2>3. \A o \in Builder : o # b => proc'[o] = proc[o]
    BY <1>2 DEF Becomes
  <2> QED
    BY <1>2, <2>1, <2>2, <2>3 DEF QuoteInv, WillTellVetted
<1>3. ASSUME NEW b \in Builder, Becomes(b, Idle), UNCHANGED decisions
      PROVE  \A o \in Builder : WillTellVetted(o)'
  <2>1. SeqSet(Idle.chosen) = {} /\ SeqSet(Idle.todo) = {}
    BY Records, SeqSetEmpty
  <2> QED
    BY <1>2, <1>3, <2>1
<1>4. ASSUME NEW b \in Builder, NEW s \in PC, Goto(b, s), UNCHANGED decisions
      PROVE  \A o \in Builder : WillTellVetted(o)'
  <2> DEFINE r == With(b, s, proc[b].unread, proc[b].chosen, proc[b].todo)
  <2>1. r.chosen = proc[b].chosen /\ r.todo = proc[b].todo
    BY DEF With
  <2>2. Becomes(b, r)
    BY <1>4, GotoMoves
  <2> HIDE DEF r
  <2> QED
    BY <1>2, <1>4, <2>1, <2>2 DEF QuoteInv, WillTellVetted
\* The two directories.
<1>5. ASSUME UNCHANGED decisions, UNCHANGED temporary \/ temporary' \in {Missing, Empty},
             UNCHANGED output \/ output' \in {Missing, Torn, temporary}
      PROVE  TellsVetted(temporary.files)' /\ TellsVetted(output.files)'
  <2>1. Vetted' = Vetted
    BY <1>5 DEF Vetted, EverApproved, ReviewsOf
  <2> QED
    BY <1>5, <2>1, Records DEF QuoteInv, TellsVetted
<1>6. ASSUME NEW b \in Builder, Begin(b) PROVE QuoteInv'
  <2>1. Becomes(b, Fresh) /\ UNCHANGED <<decisions, temporary, output>>
    BY <1>6, BeginMoves DEF Begin, store, site
  <2>2. SeqSet(Fresh.chosen) = {} /\ SeqSet(Fresh.todo) = {}
    BY SeqSetEmpty DEF Fresh, Idle
  <2> QED
    BY <1>2, <1>5, <2>1, <2>2 DEF QuoteInv
<1>7. ASSUME NEW b \in Builder,
             Wipe(b) \/ Create(b) \/ Remove(b) \/ Clear(b) \/ Rename(b) \/ Crash(b)
      PROVE  QuoteInv'
  <2>1. /\ UNCHANGED decisions
        /\ UNCHANGED temporary \/ temporary' \in {Missing, Empty}
        /\ UNCHANGED output \/ output' \in {Missing, Torn, temporary}
    BY <1>7 DEF Wipe, Create, Remove, Clear, Rename, Crash, store, site
  <2>2. Exit(b) \/ \E s \in PC : Goto(b, s)
    BY <1>7 DEF Wipe, Create, Remove, Clear, Rename, Crash, PC
  <2> QED
    BY <1>3, <1>4, <1>5, <2>1, <2>2, ExitMoves DEF QuoteInv
<1>8. ASSUME NEW b \in Builder, Select(b) PROVE QuoteInv'
  <2>1. UNCHANGED <<decisions, temporary, output>>
    BY <1>8 DEF Select, store, site
  <2> DEFINE a == Head(proc[b].unread)
  <2>2. a \in Alert
    BY <1>8, SelectMoves
  <2>3. PICK chosen \in Seq(Alert) :
           /\ \/ Passes(a) /\ SeqSet(chosen) = SeqSet(proc[b].chosen) \cup {a}
              \/ ~Passes(a) /\ chosen = proc[b].chosen
           /\ Becomes(b, With(b, "select", Tail(proc[b].unread), chosen, proc[b].todo))
    BY <1>8, SelectMoves DEF Passes
  <2>4. SeqSet(chosen) \subseteq Publishable
    BY <2>2, <2>3, NowIsOnce DEF QuoteInv, WillTellVetted
  <2> DEFINE r == With(b, "select", Tail(proc[b].unread), chosen, proc[b].todo)
  <2>5. r.chosen = chosen /\ r.todo = proc[b].todo
    BY DEF With
  <2>6. Becomes(b, r)
    BY <2>3
  <2> HIDE DEF r, a
  <2>7. \A o \in Builder : WillTellVetted(o)'
    BY <1>2, <2>1, <2>4, <2>5, <2>6 DEF QuoteInv, WillTellVetted
  <2> QED
    BY <1>5, <2>1, <2>7 DEF QuoteInv
<1>9. ASSUME NEW b \in Builder, StartWriting(b) PROVE QuoteInv'
  <2>1. UNCHANGED <<decisions, temporary, output>>
    BY <1>9 DEF StartWriting, store, site
  <2> DEFINE chosen == proc[b].chosen
             r == With(b, "write", <<>>, chosen, Plan(chosen))
  <2>2. r.chosen = chosen /\ r.todo = Plan(chosen)
    BY DEF With
  <2>3. SeqSet(Plan(chosen)) = Pages(chosen)
    BY PlanIsPlanned, BuilderTypes
  <2>4. \A p \in Pages(chosen) : Alerts(p) \subseteq SeqSet(chosen)
    BY PlannedPages, BuilderTypes
  <2>5. Becomes(b, r)
    BY <1>9, StartWritingMoves
  <2>6. SeqSet(chosen) \subseteq Publishable
    BY DEF QuoteInv, WillTellVetted
  <2> HIDE DEF r, chosen
  <2>7. \A o \in Builder : WillTellVetted(o)'
    BY <1>2, <2>1, <2>2, <2>3, <2>4, <2>5, <2>6
  <2> QED
    BY <1>5, <2>1, <2>7 DEF QuoteInv
<1>10. ASSUME NEW b \in Builder, Write(b) PROVE QuoteInv'
  <2>1. UNCHANGED <<decisions, output>>
    BY <1>10 DEF Write, store
  <2>2. Vetted' = Vetted
    BY <2>1 DEF Vetted, EverApproved, ReviewsOf
  <2>3. CASE Becomes(b, Idle) /\ UNCHANGED temporary
    BY <1>3, <1>5, <2>1, <2>3 DEF QuoteInv
  <2> DEFINE p == Head(proc[b].todo)
             rest == Follow(p) \o Tail(proc[b].todo)
             r == With(b, "write", proc[b].unread, proc[b].chosen, rest)
  <2>4. CASE /\ temporary'.files[p] = Page(b, p)
             /\ \A q \in Path \ {p} : temporary'.files[q] = temporary.files[q]
             /\ Becomes(b, r)
    <3>1. /\ p \in Path /\ SeqSet(proc[b].todo) = {p} \cup SeqSet(Tail(proc[b].todo))
          /\ {p} \cup SeqSet(rest) = WithDiffs({p}) \cup SeqSet(Tail(proc[b].todo))
      BY <1>10, WriteMoves
    <3>2. Alerts(p) \subseteq Publishable /\ SeqSet(proc[b].chosen) \subseteq Publishable
      BY <3>1 DEF QuoteInv, WillTellVetted
    <3>3. Page(b, p).says \subseteq Vetted /\ Page(b, p).lists \cap Alert \subseteq Vetted
      <4>1. Says(p) \subseteq Vetted
        BY <3>1, <3>2, PageTellsVetted
      <4>2. Lists(p, proc[b].chosen) \cap Alert \subseteq Vetted
        BY <3>1, <3>2, ListsChosen DEF Publishable
      <4> QED
        BY <4>1, <4>2 DEF Page
    <3>4. TellsVetted(temporary.files)' /\ TellsVetted(output.files)'
      BY <2>1, <2>2, <2>4, <3>1, <3>3 DEF QuoteInv, TellsVetted
    <3>5. r.chosen = proc[b].chosen /\ r.todo = rest
      BY DEF With
    <3>6. \A q \in WithDiffs({p}) : Alerts(q) \subseteq Publishable
      BY <3>2, DiffsApart DEF WithDiffs
    <3> HIDE DEF r, rest, p
    <3>7. \A q \in SeqSet(rest) : Alerts(q) \subseteq Publishable
      BY <3>1, <3>6 DEF QuoteInv, WillTellVetted
    <3>8. \A o \in Builder : WillTellVetted(o)'
      BY <1>2, <2>1, <2>4, <3>2, <3>5, <3>7
    <3> QED
      BY <3>4, <3>8 DEF QuoteInv
  <2> QED
    BY <1>10, <2>3, <2>4, WriteMoves
<1> QED
  BY <1>1, <1>6, <1>7, <1>8, <1>9, <1>10, ReviewSteps DEF Next, BuildStep

LEMMA QuotesKept == Spec => []QuoteInv
<1>1. Init => QuoteInv
  BY Records, SeqSetEmpty DEF Init, QuoteInv, TellsVetted, WillTellVetted
<1>2. TypeOK /\ QuoteInv /\ [Next]_vars => QuoteInv'
  <2>1. ASSUME TypeOK, QuoteInv, UNCHANGED vars PROVE QuoteInv'
    BY <2>1 DEF vars, store, site, history, QuoteInv, TellsVetted, WillTellVetted,
       Publishable, Vetted, EverApproved, ReviewsOf
  <2> QED
    BY <2>1, StepKeepsQuotes
<1> QED
  BY <1>1, <1>2, TypeCorrect, PTL DEF Spec

(* The gates of build_site_in, alert_page, evidence_page,                    *)
(* subjects_actions_section and evaluate_gate hold for the site as a whole:  *)
(* whatever builds run side by side or are interrupted, no page that is      *)
(* online quotes a citation no decision ever approved, nor tells in words of *)
(* its own what rests on one.                                                *)
THEOREM SiteQuotesApproved == Spec => []OnlyApprovedQuoted
<1>1. QuoteInv => OnlyApprovedQuoted
  BY DEF QuoteInv, TellsVetted, Vetted, OnlyApprovedQuoted, Told, EverApproved
<1> QED
  BY <1>1, QuotesKept, PTL

-----------------------------------------------------------------------------
(* A site is the output of one build. *)

\* What a build that chose these alerts has written: only pages it planned,
\* each of its own, and every planned page it has not still to write; a diff
\* comes up with the page of its alert.
Written(b) ==
    LET me == proc[b] IN
    /\ temporary.is = "tree"
    /\ SeqSet(me.todo) \subseteq Planned(me.chosen)
    /\ \A p \in Path : temporary.files[p] # NoFile =>
          /\ p \in Planned(me.chosen)
          /\ temporary.files[p].build = me.build
          /\ temporary.files[p].lists = Lists(p, me.chosen)
    /\ \A p \in Planned(me.chosen) :
          temporary.files[p] # NoFile \/ p \in WithDiffs(SeqSet(me.todo))

Progress(b) ==
    /\ At(b, "create") => temporary = Missing
    /\ At(b, "select") => temporary = Empty
    /\ proc[b].pc \in {"write", "clear", "rename"} => Written(b)
    /\ proc[b].pc \in {"clear", "rename"} => proc[b].todo = <<>>

\* A build that has always run alone owns the temporary directory.
Alone == \A b, o \in Builder : ~At(b, "idle") /\ ~At(o, "idle") => b = o
BuildInv ==
    /\ ~overlapped => Alone /\ \A b \in Builder : Progress(b)
    /\ SiteIsOneBuild

LEMMA IdleProgress ==
    ASSUME NEW b \in Builder, At(b, "idle")
    PROVE  Progress(b)
BY DEF At, Progress

\* The finished directory of a build is a whole site.
LEMMA WholeSite ==
    ASSUME TypeOK, NEW b \in Builder, Written(b), proc[b].todo = <<>>,
           output' = temporary
    PROVE  SiteIsOneBuild'
<1> DEFINE chosen == proc[b].chosen
           set == SeqSet(chosen)
<1>1. /\ set \subseteq Alert
      /\ Fixed \subseteq Path /\ Index \in Fixed /\ Atom \in Fixed /\ MatterAtom \in Fixed
  BY BuilderTypes, SeqSetOf DEF Path, Fixed
<1>2. /\ Lists(Index, chosen) = set /\ Lists(Atom, chosen) = set
  BY PathAssumption DEF Lists, Fixed, Index, Atom, MatterAtom
<1>3. \A p \in Path : p \in Planned(chosen) <=> Alerts(p) \subseteq set
  BY BuilderTypes, PlannedPages
<1>4. WithDiffs(SeqSet(proc[b].todo)) = {}
  BY SeqSetEmpty DEF WithDiffs
<1>5. Planned(chosen) \subseteq Path
  BY BuilderTypes, PlannedPages
<1>6. \A p \in Path : Online(p)' <=> p \in Planned(chosen)
  BY <1>4, <1>5 DEF Written, Online
<1>7. \A p \in Path : Online(p)' =>
          output'.files[p].build = proc[b].build /\ output'.files[p].lists = Lists(p, chosen)
  BY <1>5, <1>6 DEF Written, Online
<1>8. Index \in Planned(chosen) /\ Atom \in Planned(chosen)
  BY <1>1, BuilderTypes, PlannedPages DEF Pages
<1>9. output'.files[Index].lists = set /\ output'.files[Atom].lists = set
  BY <1>2, <1>5, <1>6, <1>7, <1>8
<1> HIDE DEF chosen, set
<1> QED
  BY <1>3, <1>6, <1>7, <1>9 DEF SiteIsOneBuild

\* A planned page is written.
LEMMA WriteProgress ==
    ASSUME TypeOK, NEW b \in Builder, Written(b), At(b, "write"), NEW p \in Path,
           SeqSet(proc[b].todo) = {p} \cup SeqSet(Tail(proc[b].todo)),
           NEW rest,
           {p} \cup SeqSet(rest) = WithDiffs({p}) \cup SeqSet(Tail(proc[b].todo)),
           temporary'.is = "tree", temporary'.files[p] = Page(b, p),
           \A q \in Path \ {p} : temporary'.files[q] = temporary.files[q],
           Becomes(b, With(b, "write", proc[b].unread, proc[b].chosen, rest))
    PROVE  Progress(b)'
<1> DEFINE me == proc[b]
           tail == Tail(me.todo)
<1>1. /\ proc'[b].pc = "write" /\ proc'[b].build = me.build /\ proc'[b].chosen = me.chosen
      /\ proc'[b].todo = rest
  BY DEF Becomes, Alike, With
<1>2. /\ me.build \in 1..MaxBuilds
  BY BuilderTypes DEF At, TypeOK
<1>3. Page(b, p) # NoFile
  <2>1. Page(b, p).build = me.build /\ NoFile.build = 0
    BY Records DEF Page
  <2> QED
    BY <1>2, <2>1
<1>4. p \in Planned(me.chosen)
  BY DEF Written
<1>5. Page(b, p).build = me.build /\ Page(b, p).lists = Lists(p, me.chosen)
  BY DEF Page
<1>6. Planned(me.chosen) \subseteq Path
  BY BuilderTypes, PlannedPages
<1>11. WithDiffs({p}) \subseteq Planned(me.chosen)
  <2>1. Alerts(p) \subseteq SeqSet(me.chosen)
    BY <1>4, BuilderTypes, PlannedPages
  <2>2. ASSUME p \in Changed PROVE DiffPage[p] \in Planned(me.chosen)
    <3>1. Alerts(DiffPage[p]) = Alerts(p) /\ DiffPage[p] \in Path
      BY <2>2, DiffsApart
    <3> QED
      BY <2>1, <3>1, BuilderTypes, PlannedPages
  <2> QED
    BY <1>4, <2>2 DEF WithDiffs
<1> HIDE DEF me, tail
<1>7. SeqSet(rest) \subseteq Planned(me.chosen)
  BY <1>11 DEF Written, me, tail
<1>8. \A q \in Path : temporary'.files[q] # NoFile =>
          /\ q \in Planned(me.chosen)
          /\ temporary'.files[q].build = me.build
          /\ temporary'.files[q].lists = Lists(q, me.chosen)
  BY <1>4, <1>5 DEF Written, me
<1>9. \A q \in Planned(me.chosen) : temporary'.files[q] # NoFile \/ q \in WithDiffs(SeqSet(rest))
  <2> SUFFICES ASSUME NEW q \in Planned(me.chosen), temporary'.files[q] = NoFile
               PROVE  q \in WithDiffs(SeqSet(rest))
    OBVIOUS
  <2>1. q # p /\ q \in Path /\ temporary.files[q] = NoFile
    BY <1>3, <1>6
  <2>2. q \in WithDiffs({p} \cup SeqSet(tail))
    BY <2>1 DEF Written, me, tail
  <2>3. q \in SeqSet(rest) \/ q \in WithDiffs(SeqSet(tail))
    <3>1. WithDiffs({p} \cup SeqSet(tail)) = WithDiffs({p}) \cup WithDiffs(SeqSet(tail))
      BY DEF WithDiffs
    <3> QED
      BY <2>1, <2>2, <3>1 DEF tail, me
  <2>4. SeqSet(tail) \subseteq {p} \cup SeqSet(rest)
    BY DEF tail, me
  <2>5. CASE q \in SeqSet(rest)
    BY <2>5 DEF WithDiffs
  <2>6. CASE q \in SeqSet(tail)
    BY <2>1, <2>4, <2>6 DEF WithDiffs
  <2>7. ASSUME NEW a \in Changed, a \in SeqSet(tail), q = DiffPage[a]
        PROVE  q \in WithDiffs(SeqSet(rest))
    <3>1. CASE a \in SeqSet(rest)
      BY <2>7, <3>1 DEF WithDiffs
    <3>2. CASE a = p
      <4>1. q \in WithDiffs({p})
        BY <2>7, <3>2 DEF WithDiffs
      <4>2. q \in SeqSet(rest)
        BY <2>1, <4>1 DEF me
      <4> QED
        BY <4>2 DEF WithDiffs
    <3> QED
      BY <2>4, <2>7, <3>1, <3>2
  <2> QED
    BY <2>3, <2>5, <2>6, <2>7 DEF WithDiffs
<1>10. Written(b)'
  BY <1>1, <1>7, <1>8, <1>9 DEF Written, Planned, Pages, WithDiffs, Lists
<1> QED
  BY <1>1, <1>10 DEF Progress, At

LEMMA StepKeepsBuild ==
    ASSUME TypeOK, BuildInv, Next
    PROVE  BuildInv'
\* The others of an active builder are idle.
<1>1. ASSUME NEW b \in Builder, NEW r, Becomes(b, r), Progress(b)',
             \A o \in Builder : o # b => At(o, "idle")
      PROVE  Alone' /\ \A o \in Builder : Progress(o)'
  <2>1. \A o \in Builder : o # b => At(o, "idle")'
    BY <1>1 DEF Becomes, At
  <2>2. \A o \in Builder : At(o, "idle")' => Progress(o)'
    BY DEF At, Progress
  <2> QED
    BY <1>1, <2>1, <2>2 DEF Alone
<1>2. ASSUME NEW c \in Citation, NEW state \in ReviewState,
             NEW rank \in 1..MaxDecisions, InsertReview(c, state, rank)
      PROVE  BuildInv'
  <2>1. UNCHANGED <<temporary, output, proc, overlapped>>
    BY <1>2, ReviewTypes
  <2> QED
    BY <2>1 DEF BuildInv, Alone, Progress, Written, At, SiteIsOneBuild, Online
<1>3. ASSUME NEW b \in Builder, Begin(b) PROVE BuildInv'
  <2>1. Becomes(b, Fresh) /\ UNCHANGED <<temporary, output>>
    BY <1>3, BeginMoves DEF Begin, site
  <2>2. SiteIsOneBuild'
    BY <1>3, <2>1 DEF BuildInv, SiteIsOneBuild, Online, Begin
  <2>3. ASSUME ~overlapped' PROVE \A o \in Builder : At(o, "idle")
    BY <1>3, <2>3 DEF Begin
  <2>4. Progress(b)'
    <3>1. proc'[b].pc = "wipe"
      BY <2>1 DEF Becomes, Alike, Fresh, Idle
    <3> QED
      BY <3>1 DEF Progress, At
  <2> QED
    BY <1>1, <2>1, <2>2, <2>3, <2>4 DEF BuildInv
\* What is left to show of a step of a builder that runs.
<1>4. ASSUME NEW b \in Builder, ~At(b, "idle"), NEW r, Becomes(b, r), UNCHANGED overlapped,
             SiteIsOneBuild', ~overlapped /\ Progress(b) => Progress(b)'
      PROVE  BuildInv'
  <2>1. ~overlapped => \A o \in Builder : o # b => At(o, "idle")
    BY <1>4 DEF BuildInv, Alone
  <2> QED
    BY <1>1, <1>4, <2>1 DEF BuildInv
<1>5. ASSUME NEW b \in Builder, ~At(b, "idle"), Exit(b), UNCHANGED overlapped, SiteIsOneBuild'
      PROVE  BuildInv'
  <2>1. Becomes(b, Idle)
    BY <1>5, ExitMoves
  <2>2. At(b, "idle")'
    BY <2>1, Records DEF Becomes, Alike, At
  <2>3. Progress(b)'
    BY <2>2 DEF At, Progress
  <2> QED
    BY <1>4, <1>5, <2>1, <2>3
<1>6. ASSUME UNCHANGED <<output, overlapped>>
      PROVE  SiteIsOneBuild'
  BY <1>6 DEF BuildInv, SiteIsOneBuild, Online
<1>7. ASSUME output'.is # "tree"
      PROVE  SiteIsOneBuild'
  BY <1>7 DEF SiteIsOneBuild
\* A step to another place of the program, the lists unchanged.
<1>8. ASSUME NEW b \in Builder, NEW s \in PC, Goto(b, s)
      PROVE  /\ \E r : Becomes(b, r)
             /\ proc'[b].pc = s /\ proc'[b].build = proc[b].build
             /\ proc'[b].chosen = proc[b].chosen /\ proc'[b].todo = proc[b].todo
  BY <1>8, GotoMoves DEF Becomes, Alike, With
<1>9. ASSUME NEW b \in Builder, Wipe(b) PROVE BuildInv'
  <2>1. Goto(b, "create") /\ "create" \in PC /\ UNCHANGED <<output, overlapped>> /\ ~At(b, "idle")
    BY <1>9 DEF Wipe, At, PC, history
  <2>2. Progress(b)'
    BY <1>8, <1>9, <2>1 DEF Progress, At, Wipe
  <2> QED
    BY <1>4, <1>6, <1>8, <2>1, <2>2
<1>10. ASSUME NEW b \in Builder, Create(b) PROVE BuildInv'
  <2>1. Goto(b, "select") /\ "select" \in PC /\ UNCHANGED <<output, overlapped>> /\ ~At(b, "idle")
    BY <1>10 DEF Create, At, PC, history
  <2>2. Progress(b) => Progress(b)'
    BY <1>8, <1>10, <2>1 DEF Progress, At, Create
  <2> QED
    BY <1>4, <1>6, <1>8, <2>1, <2>2
<1>11. ASSUME NEW b \in Builder, Select(b) PROVE BuildInv'
  <2>1. UNCHANGED <<temporary, output, overlapped>> /\ ~At(b, "idle") /\ At(b, "select")
    BY <1>11 DEF Select, At, site, history
  <2>2. PICK chosen : Becomes(b, With(b, "select", Tail(proc[b].unread), chosen, proc[b].todo))
    BY <1>11, SelectMoves
  <2>3. proc'[b].pc = "select"
    BY <2>2 DEF Becomes, Alike, With
  <2>4. Progress(b) => Progress(b)'
    BY <2>1, <2>3 DEF Progress, At
  <2> QED
    BY <1>4, <1>6, <2>1, <2>2, <2>4
<1>12. ASSUME NEW b \in Builder, StartWriting(b) PROVE BuildInv'
  <2> DEFINE chosen == proc[b].chosen
             r == With(b, "write", <<>>, chosen, Plan(chosen))
  <2>1. UNCHANGED <<temporary, output, overlapped>> /\ ~At(b, "idle") /\ At(b, "select")
    BY <1>12 DEF StartWriting, At, site, history
  <2>2. Becomes(b, r)
    BY <1>12, StartWritingMoves
  <2>3. SeqSet(Plan(chosen)) = Pages(chosen) /\ Pages(chosen) \subseteq Planned(chosen)
    BY PlanIsPlanned, PlannedPages, BuilderTypes
  <2>4. /\ proc'[b].pc = "write" /\ proc'[b].chosen = chosen /\ proc'[b].todo = Plan(chosen)
    BY <2>2 DEF Becomes, Alike, With
  <2> HIDE DEF r, chosen
  <2>5. ASSUME temporary = Empty PROVE Written(b)'
    <3>1. temporary'.is = "tree" /\ \A p \in Path : temporary'.files[p] = NoFile
      BY <2>1, <2>5, Records
    <3> QED
      BY <2>3, <2>4, <3>1 DEF Written, Planned, Pages, WithDiffs
  <2>6. Progress(b) => Progress(b)'
    BY <2>1, <2>4, <2>5 DEF Progress, At
  <2> QED
    BY <1>4, <1>6, <2>1, <2>2, <2>6
<1>13. ASSUME NEW b \in Builder, Write(b) PROVE BuildInv'
  <2>1. UNCHANGED <<output, overlapped>> /\ ~At(b, "idle") /\ At(b, "write")
    BY <1>13 DEF Write, At, history
  <2>2. CASE Exit(b)
    BY <1>5, <1>6, <2>1, <2>2
  <2>3. CASE ~Exit(b)
    <3> DEFINE p == Head(proc[b].todo)
               rest == Follow(p) \o Tail(proc[b].todo)
               r == With(b, "write", proc[b].unread, proc[b].chosen, rest)
    <3>1. /\ temporary'.is = "tree" /\ p \in Path
          /\ temporary'.files[p] = Page(b, p)
          /\ \A q \in Path \ {p} : temporary'.files[q] = temporary.files[q]
          /\ SeqSet(proc[b].todo) = {p} \cup SeqSet(Tail(proc[b].todo))
          /\ {p} \cup SeqSet(rest) = WithDiffs({p}) \cup SeqSet(Tail(proc[b].todo))
          /\ Becomes(b, r)
      BY <1>13, <2>3, WriteMoves
    <3> HIDE DEF p, rest
    <3>2. ASSUME Progress(b) PROVE Progress(b)'
      <4>1. Written(b)
        BY <2>1, <3>2 DEF Progress, At
      <4> QED
        BY <2>1, <3>1, <4>1, WriteProgress
    <3>3. Becomes(b, r)
      BY <3>1
    <3>4. SiteIsOneBuild'
      BY <1>6, <2>1
    <3> HIDE DEF r
    <3> QED
      BY <1>4, <2>1, <3>2, <3>3, <3>4
  <2> QED
    BY <2>2, <2>3
<1>14. ASSUME NEW b \in Builder, Remove(b) PROVE BuildInv'
  <2>1. UNCHANGED <<temporary, overlapped>> /\ At(b, "write") /\ proc[b].todo = <<>>
    BY <1>14 DEF Remove, history
  <2>2. SiteIsOneBuild'
    BY <1>6, <1>7, <1>14, <2>1, Records DEF Remove
  <2>3. PICK s \in {"clear", "rename"} : Goto(b, s) /\ s \in PC
    BY <1>14 DEF Remove, PC
  <2>4. Progress(b) => Progress(b)'
    BY <1>8, <2>1, <2>3 DEF Progress, At, Written
  <2> QED
    BY <1>4, <1>8, <2>1, <2>2, <2>3, <2>4 DEF At
<1>15. ASSUME NEW b \in Builder, Clear(b) PROVE BuildInv'
  <2>1. UNCHANGED <<temporary, overlapped>> /\ At(b, "clear") /\ ~At(b, "idle")
    BY <1>15 DEF Clear, history, At
  <2>2. SiteIsOneBuild'
    BY <1>6, <1>7, <1>15, <2>1, Records DEF Clear
  <2>3. CASE Exit(b)
    BY <1>5, <2>1, <2>2, <2>3
  <2>4. CASE Goto(b, "rename")
    <3>1. "rename" \in PC
      BY DEF PC
    <3>2. Progress(b) => Progress(b)'
      BY <1>8, <2>1, <2>4, <3>1 DEF Progress, At, Written
    <3> QED
      BY <1>4, <1>8, <2>1, <2>2, <2>4, <3>1, <3>2
  <2> QED
    BY <1>15, <2>3, <2>4 DEF Clear
<1>16. ASSUME NEW b \in Builder, Rename(b) PROVE BuildInv'
  <2>1. UNCHANGED overlapped /\ ~At(b, "idle") /\ Exit(b)
    BY <1>16 DEF Rename, At
  <2>2. SiteIsOneBuild'
    <3>1. CASE overlapped
      BY <2>1, <3>1 DEF SiteIsOneBuild
    <3>2. CASE UNCHANGED output
      BY <1>6, <2>1, <3>2
    <3>3. CASE ~overlapped /\ output' = temporary
      BY <1>16, <3>3, WholeSite DEF BuildInv, Progress, Rename, At
    <3> QED
      BY <1>16, <3>1, <3>2, <3>3 DEF Rename, site
  <2> QED
    BY <1>5, <2>1, <2>2
<1>17. ASSUME NEW b \in Builder, Crash(b) PROVE BuildInv'
  BY <1>5, <1>6, <1>17 DEF Crash, site, history
<1> QED
  BY <1>2, <1>3, <1>9, <1>10, <1>11, <1>12, <1>13, <1>14, <1>15, <1>16, <1>17, ReviewSteps
     DEF Next, BuildStep

LEMMA BuildsKept == Spec => []BuildInv
<1>1. Init => BuildInv
  BY Records DEF Init, BuildInv, Alone, Progress, At, SiteIsOneBuild
<1>2. TypeOK /\ BuildInv /\ [Next]_vars => BuildInv'
  <2>1. ASSUME TypeOK, BuildInv, UNCHANGED vars PROVE BuildInv'
    BY <2>1 DEF vars, store, site, history, BuildInv, Alone, Progress, Written, At,
       SiteIsOneBuild, Online
  <2> QED
    BY <2>1, StepKeepsBuild
<1> QED
  BY <1>1, <1>2, TypeCorrect, PTL DEF Spec

(* build_site_in clears what an earlier build left, writes every page, and  *)
(* replaces the output only when all are written: as long as no two builds   *)
(* ran side by side the site is the whole output of one build, however many  *)
(* builds were refused or stopped half way.                                  *)
THEOREM SiteIsWhole == Spec => []SiteIsOneBuild
<1>1. BuildInv => SiteIsOneBuild
  BY DEF BuildInv
<1> QED
  BY <1>1, BuildsKept, PTL

-----------------------------------------------------------------------------
(* A site beside which nothing was decided is exact. *)

\* What a builder chose is what the queue approves, and what it wrote says so.
ChosenNow(b) ==
    \A a \in Alert :
        /\ a \in SeqSet(proc[b].chosen) => Passes(a)
        /\ Passes(a) => a \in SeqSet(proc[b].chosen) \cup SeqSet(proc[b].unread)
SaysNow(files) ==
    \A p \in Path : files[p] # NoFile => files[p].says = Says(p)

\* A settled site is what the gate lets through now.
SiteAsGated ==
    Settled =>
        /\ \A p \in Path : Online(p) <=> \A a \in Alerts(p) : Passes(a)
        /\ \A p \in Path : Online(p) => output.files[p].says = Says(p)
        /\ \A p \in Path : Online(p) => \A a \in output.files[p].lists \cap Alert : Passes(a)

\* The number of decisions only grows, so a builder that counted as many as
\* there are has seen the queue as it is.
Exact(b) ==
    proc[b].since = Cardinality(decisions) =>
        /\ ChosenNow(b)
        /\ proc[b].pc \in {"write", "clear", "rename"} =>
              proc[b].unread = <<>> /\ (~overlapped => SaysNow(temporary.files))
ExactInv ==
    /\ siteSince <= Cardinality(decisions)
    /\ \A b \in Builder : proc[b].since <= Cardinality(decisions)
    /\ \A b \in Builder : ~At(b, "idle") => Exact(b)
    /\ SiteAsGated

\* The gate reads nothing but the decisions and the allowlist.
LEMMA SameQueue ==
    ASSUME UNCHANGED <<decisions, allowlisted>>
    PROVE  /\ Cardinality(decisions)' = Cardinality(decisions)
           /\ \A c : CurrentlyApproved(c)' = CurrentlyApproved(c)
           /\ \A a : Passes(a)' = Passes(a)
           /\ \A p \in Path : Says(p)' = Says(p)
<1>1. \A c : CurrentlyApproved(c)' = CurrentlyApproved(c)
  BY DEF CurrentlyApproved, ReviewsOf
<1>2. \A a : Passes(a)' = Passes(a)
  BY <1>1 DEF Passes
<1>3. \A e : ApprovedPages(e)' = ApprovedPages(e)
  BY <1>1 DEF ApprovedPages
<1>4. \A m : MatterPage(m)' = MatterPage(m)
  BY <1>1 DEF MatterPage
<1>6. \A e : Shown(e)' = Shown(e)
  BY <1>1 DEF Shown
<1>5. \A p \in Path : Says(p)' = Says(p)
  BY <1>3, <1>4, <1>6 DEF Says
<1> QED
  BY <1>1, <1>2, <1>5

\* The directory of a finished build that saw the queue as it is.
LEMMA ExactSite ==
    ASSUME TypeOK, NEW b \in Builder, Written(b), Exact(b), At(b, "rename"), ~overlapped,
           proc[b].todo = <<>>, output' = temporary, siteSince' = proc[b].since,
           UNCHANGED <<decisions, allowlisted, overlapped>>
    PROVE  SiteAsGated'
<1> DEFINE chosen == proc[b].chosen
<1> SUFFICES ASSUME Settled'
             PROVE  /\ \A p \in Path : Online(p)' <=> \A a \in Alerts(p) : Passes(a)
                    /\ \A p \in Path : Online(p)' => output'.files[p].says = Says(p)
                    /\ \A p \in Path : Online(p)' =>
                          \A a \in output'.files[p].lists \cap Alert : Passes(a)
  BY SameQueue DEF SiteAsGated
<1>1. proc[b].since = Cardinality(decisions)
  BY SameQueue DEF Settled
<1>2. ChosenNow(b) /\ proc[b].unread = <<>> /\ SaysNow(temporary.files)
  BY <1>1 DEF Exact, At
<1>3. SeqSet(proc[b].unread) = {} /\ WithDiffs(SeqSet(proc[b].todo)) = {}
  BY <1>2, SeqSetEmpty DEF WithDiffs
<1>4. \A a \in Alert : a \in SeqSet(chosen) <=> Passes(a)
  BY <1>2, <1>3 DEF ChosenNow
<1>5. /\ \A p \in Path : p \in Planned(chosen) <=> Alerts(p) \subseteq SeqSet(chosen)
      /\ Planned(chosen) \subseteq Path
  BY BuilderTypes, PlannedPages
<1>6. \A p \in Path : temporary.files[p] # NoFile <=> p \in Planned(chosen)
  BY <1>3, <1>5 DEF Written
<1>7. temporary.is = "tree" /\ \A p \in Path : Online(p)' <=> temporary.files[p] # NoFile
  BY DEF Written, Online
<1>8. \A p \in Path : Alerts(p) \subseteq Alert
  BY DEF Alerts
<1>9. \A p \in Path : Online(p)' <=> \A a \in Alerts(p) : Passes(a)
  BY <1>4, <1>5, <1>6, <1>7, <1>8
<1>10. \A p \in Path : Online(p)' => output'.files[p].lists = Lists(p, chosen)
  BY <1>7 DEF Written
<1>11. \A p \in Path : Online(p)' => \A a \in output'.files[p].lists \cap Alert : Passes(a)
  BY <1>4, <1>10, ListsChosen
<1>12. \A p \in Path : Online(p)' => output'.files[p].says = Says(p)
  BY <1>2, <1>7 DEF SaysNow
<1> QED
  BY <1>9, <1>11, <1>12

LEMMA StepKeepsExact ==
    ASSUME TypeOK, BuildInv, ExactInv, Next
    PROVE  ExactInv'
<1> DEFINE n == Cardinality(decisions)
<1>0. n \in Nat /\ siteSince \in Nat /\ \A b \in Builder : proc[b].since \in Nat
  BY BuilderTypes, Constants DEF TypeOK
<1>1. ASSUME NEW c \in Citation, NEW state \in ReviewState,
             NEW rank \in 1..MaxDecisions, InsertReview(c, state, rank)
      PROVE  ExactInv'
  <2>1. n' = n + 1 /\ UNCHANGED <<proc, siteSince>>
    BY <1>1, ReviewTypes
  <2>2. siteSince' < n' /\ \A b \in Builder : proc'[b].since < n'
    BY <1>0, <2>1 DEF ExactInv
  <2>3. SiteAsGated'
    BY <2>2, <1>0, <2>1 DEF SiteAsGated, Settled
  <2>4. \A b \in Builder : Exact(b)'
    BY <2>2, <1>0, <2>1 DEF Exact
  <2> QED
    BY <1>0, <2>1, <2>2, <2>3, <2>4 DEF ExactInv
\* The builder that moves keeps the store, and so do the others.
<1>2. ASSUME NEW b \in Builder, NEW r, Becomes(b, r), UNCHANGED <<decisions, allowlisted>>,
             ~overlapped' => ~overlapped /\ \A o \in Builder : o # b => At(o, "idle"),
             r.since <= n, ~At(b, "idle")' => Exact(b)',
             siteSince' <= n, SiteAsGated'
      PROVE  ExactInv'
  <2>1. n' = n
    BY <1>2, SameQueue
  <2>2. proc'[b].since = r.since /\ \A o \in Builder : o # b => proc'[o] = proc[o]
    BY <1>2 DEF Becomes, Alike
  <2>3. \A o \in Builder : proc'[o].since <= n
    BY <1>2, <2>2 DEF ExactInv
  <2>4. ASSUME NEW o \in Builder, o # b, ~At(o, "idle")' PROVE Exact(o)'
    <3>1. proc'[o] = proc[o] /\ ~At(o, "idle") /\ overlapped'
      BY <1>2, <2>2, <2>4 DEF At
    <3>2. Exact(o)
      BY <3>1 DEF ExactInv
    <3>3. ChosenNow(o) => ChosenNow(o)'
      BY <1>2, <3>1, SameQueue DEF ChosenNow
    <3> QED
      BY <2>1, <3>1, <3>2, <3>3 DEF Exact
  <2> HIDE DEF n
  <2> QED
    BY <1>2, <2>1, <2>3, <2>4 DEF ExactInv, n
\* A site that is left alone, or taken away.
<1>3. ASSUME UNCHANGED <<decisions, allowlisted, siteSince>>, ~overlapped' => ~overlapped,
             UNCHANGED output \/ output'.is # "tree"
      PROVE  siteSince' <= n /\ SiteAsGated'
  <2>1. CASE output'.is # "tree"
    BY <1>3, <2>1 DEF SiteAsGated, Settled, ExactInv
  <2>2. CASE UNCHANGED output
    <3>1. Settled' => Settled
      BY <1>3, <2>2, SameQueue DEF Settled
    <3>2. \A p : Online(p)' = Online(p)
      BY <2>2 DEF Online
    <3> QED
      BY <1>3, <2>2, <3>1, <3>2, SameQueue DEF SiteAsGated, ExactInv
  <2> QED
    BY <1>3, <2>1, <2>2
<1>4. ASSUME NEW b \in Builder, Begin(b) PROVE ExactInv'
  <2>1. /\ Becomes(b, Fresh) /\ UNCHANGED <<decisions, allowlisted, siteSince, output>>
        /\ overlapped' = (overlapped \/ \E o \in Builder : ~At(o, "idle"))
    BY <1>4, BeginMoves DEF Begin, store, site
  <2>2. Fresh.since = n /\ Fresh.chosen = <<>> /\ Fresh.unread = AlertSeq /\ Fresh.pc = "wipe"
    BY DEF Fresh, Idle
  <2>3. ChosenNow(b)'
    <3>1. proc'[b].chosen = <<>> /\ proc'[b].unread = AlertSeq
      BY <2>1, <2>2 DEF Becomes, Alike
    <3> QED
      BY <3>1, SeqSetEmpty, Listed DEF ChosenNow
  <2>4. Exact(b)'
    <3>1. proc'[b].pc = "wipe"
      BY <2>1, <2>2 DEF Becomes, Alike
    <3> QED
      BY <2>3, <3>1 DEF Exact
  <2>5. siteSince' <= n /\ SiteAsGated'
    BY <1>3, <2>1
  <2> HIDE DEF n
  <2>6. Fresh.since <= n
    BY <1>0, <2>2
  <2> QED
    BY <1>2, <2>1, <2>4, <2>5, <2>6
\* A builder that runs: it keeps what it counted, or stops.
<1>5. ASSUME NEW b \in Builder, ~At(b, "idle"), NEW r, Becomes(b, r),
             UNCHANGED <<decisions, allowlisted, overlapped>>,
             r.since = proc[b].since, Exact(b)',
             siteSince' <= n, SiteAsGated'
      PROVE  ExactInv'
  <2>1. ~overlapped => \A o \in Builder : o # b => At(o, "idle")
    BY <1>5 DEF BuildInv, Alone
  <2>2. r.since <= n
    BY <1>5 DEF ExactInv
  <2> HIDE DEF n
  <2> QED
    BY <1>2, <1>5, <2>1, <2>2
<1>6. ASSUME NEW b \in Builder, ~At(b, "idle"), Exit(b),
             UNCHANGED <<decisions, allowlisted, overlapped>>,
             siteSince' <= n, SiteAsGated'
      PROVE  ExactInv'
  <2>1. ~overlapped => \A o \in Builder : o # b => At(o, "idle")
    BY <1>6 DEF BuildInv, Alone
  <2>2. Becomes(b, Idle)
    BY <1>6, ExitMoves
  <2>3. At(b, "idle")'
    BY <2>2, Records DEF Becomes, Alike, At
  <2>4. Idle.since <= n
    BY <1>0, Records
  <2> HIDE DEF n
  <2> QED
    BY <1>2, <1>6, <2>1, <2>2, <2>3, <2>4
\* A step to another place of the program; the pages written stay as they are.
<1>7. ASSUME NEW b \in Builder, ~At(b, "idle"), NEW s \in PC, Goto(b, s),
             UNCHANGED <<decisions, allowlisted, overlapped>>,
             s \in {"write", "clear", "rename"} =>
                UNCHANGED temporary /\ proc[b].pc \in {"write", "clear", "rename"},
             siteSince' <= n, SiteAsGated'
      PROVE  ExactInv'
  <2> DEFINE r == With(b, s, proc[b].unread, proc[b].chosen, proc[b].todo)
  <2>1. Becomes(b, r)
    BY <1>7, GotoMoves
  <2>2. r.since = proc[b].since
    BY DEF With
  <2>3. /\ proc'[b].pc = s /\ proc'[b].since = proc[b].since
        /\ proc'[b].unread = proc[b].unread /\ proc'[b].chosen = proc[b].chosen
    BY <2>1 DEF Becomes, Alike, With
  <2>4. Exact(b)
    BY <1>7 DEF ExactInv
  <2>5. ChosenNow(b)' = ChosenNow(b)
    BY <1>7, <2>3, SameQueue DEF ChosenNow
  <2>6. UNCHANGED temporary => (SaysNow(temporary.files)' <=> SaysNow(temporary.files))
    BY <1>7, SameQueue DEF SaysNow
  <2>7. n' = n
    BY <1>7, SameQueue
  <2> HIDE DEF r
  <2>8. Exact(b)'
    BY <1>7, <2>3, <2>4, <2>5, <2>6, <2>7 DEF Exact
  <2> HIDE DEF n
  <2> QED
    BY <1>5, <1>7, <2>1, <2>2, <2>8
<1>8. ASSUME NEW b \in Builder, Wipe(b) \/ Create(b) PROVE ExactInv'
  <2>1. /\ UNCHANGED <<decisions, allowlisted, overlapped, siteSince, output>>
        /\ ~At(b, "idle")
        /\ \E s \in PC : Goto(b, s) /\ s \notin {"write", "clear", "rename"}
    BY <1>8 DEF Wipe, Create, At, PC, store, history
  <2>2. siteSince' <= n /\ SiteAsGated'
    BY <1>3, <2>1
  <2> HIDE DEF n
  <2> QED
    BY <1>7, <2>1, <2>2
<1>9. ASSUME NEW b \in Builder, Remove(b) PROVE ExactInv'
  <2>1. /\ UNCHANGED <<decisions, allowlisted, overlapped, siteSince, temporary>>
        /\ UNCHANGED output \/ output'.is # "tree"
        /\ ~At(b, "idle") /\ proc[b].pc \in {"write", "clear", "rename"}
        /\ \E s \in PC : Goto(b, s)
    BY <1>9, Records DEF Remove, At, PC, store, history
  <2>2. siteSince' <= n /\ SiteAsGated'
    BY <1>3, <2>1
  <2> HIDE DEF n
  <2> QED
    BY <1>7, <2>1, <2>2
<1>10. ASSUME NEW b \in Builder, Clear(b) PROVE ExactInv'
  <2>1. /\ UNCHANGED <<decisions, allowlisted, overlapped, siteSince, temporary>>
        /\ UNCHANGED output \/ output'.is # "tree"
        /\ ~At(b, "idle") /\ proc[b].pc \in {"write", "clear", "rename"}
        /\ Exit(b) \/ \E s \in PC : Goto(b, s)
    BY <1>10, Records DEF Clear, At, PC, store, history
  <2>2. siteSince' <= n /\ SiteAsGated'
    BY <1>3, <2>1
  <2> HIDE DEF n
  <2> QED
    BY <1>6, <1>7, <2>1, <2>2
<1>11. ASSUME NEW b \in Builder, Select(b) PROVE ExactInv'
  <2> DEFINE me == proc[b]
             a == Head(me.unread)
             rest == Tail(me.unread)
  <2>1. /\ UNCHANGED <<decisions, allowlisted, overlapped, siteSince, temporary, output>>
        /\ ~At(b, "idle")
    BY <1>11 DEF Select, At, store, site, history
  <2>2. a \in Alert /\ SeqSet(me.unread) = {a} \cup SeqSet(rest)
    BY <1>11, SelectMoves
  <2>3. PICK chosen \in Seq(Alert) :
           /\ \/ Passes(a) /\ SeqSet(chosen) = SeqSet(me.chosen) \cup {a}
              \/ ~Passes(a) /\ chosen = me.chosen
           /\ Becomes(b, With(b, "select", rest, chosen, me.todo))
    BY <1>11, SelectMoves DEF Passes
  <2> DEFINE r == With(b, "select", rest, chosen, me.todo)
  <2>4. Becomes(b, r) /\ r.since = me.since
    BY <2>3 DEF With
  <2>5. /\ proc'[b].pc = "select" /\ proc'[b].since = me.since
        /\ proc'[b].unread = rest /\ proc'[b].chosen = chosen
    BY <2>3 DEF Becomes, Alike, With
  <2>6. Exact(b)
    BY <2>1 DEF ExactInv
  <2> HIDE DEF r, me, a, rest
  <2>7. ChosenNow(b) => ChosenNow(b)'
    BY <2>1, <2>2, <2>3, <2>5, SameQueue DEF ChosenNow, me
  <2>8. Exact(b)'
    BY <2>1, <2>5, <2>6, <2>7, SameQueue DEF Exact, me
  <2>9. siteSince' <= n /\ SiteAsGated'
    BY <1>3, <2>1
  <2> HIDE DEF n
  <2> QED
    BY <1>5, <2>1, <2>4, <2>8, <2>9 DEF me
<1>12. ASSUME NEW b \in Builder, StartWriting(b) PROVE ExactInv'
  <2> DEFINE me == proc[b]
             r == With(b, "write", <<>>, me.chosen, Plan(me.chosen))
  <2>1. /\ UNCHANGED <<decisions, allowlisted, overlapped, siteSince, temporary, output>>
        /\ ~At(b, "idle") /\ At(b, "select") /\ me.unread = <<>>
    BY <1>12 DEF StartWriting, At, store, site, history
  <2>2. Becomes(b, r) /\ r.since = me.since
    BY <1>12, StartWritingMoves DEF With
  <2>3. /\ proc'[b].pc = "write" /\ proc'[b].since = me.since
        /\ proc'[b].unread = <<>> /\ proc'[b].chosen = me.chosen
    BY <2>2 DEF Becomes, Alike, With
  <2>4. Exact(b)
    BY <2>1 DEF ExactInv
  <2>5. ~overlapped => \A p \in Path : temporary.files[p] = NoFile
    BY <2>1, Records DEF BuildInv, Progress
  <2>6. ~overlapped => SaysNow(temporary.files)'
    BY <2>1, <2>5 DEF SaysNow
  <2> HIDE DEF r
  <2>7. ChosenNow(b) => ChosenNow(b)'
    BY <2>1, <2>3, SameQueue DEF ChosenNow
  <2>8. Exact(b)'
    BY <2>1, <2>3, <2>4, <2>6, <2>7, SameQueue DEF Exact
  <2>9. siteSince' <= n /\ SiteAsGated'
    BY <1>3, <2>1
  <2> HIDE DEF n
  <2> QED
    BY <1>5, <2>1, <2>2, <2>8, <2>9
<1>13. ASSUME NEW b \in Builder, Write(b) PROVE ExactInv'
  <2> DEFINE me == proc[b]
             p == Head(me.todo)
             r == With(b, "write", me.unread, me.chosen, Follow(p) \o Tail(me.todo))
  <2>1. /\ UNCHANGED <<decisions, allowlisted, overlapped, siteSince, output>>
        /\ ~At(b, "idle") /\ At(b, "write")
    BY <1>13 DEF Write, At, store, history
  <2>2. siteSince' <= n /\ SiteAsGated'
    BY <1>3, <2>1
  <2>3. CASE Exit(b)
    <3> HIDE DEF n
    <3> QED
      BY <1>6, <2>1, <2>2, <2>3
  <2>4. CASE ~Exit(b)
    <3>1. /\ temporary'.files[p] = Page(b, p)
          /\ \A q \in Path \ {p} : temporary'.files[q] = temporary.files[q]
          /\ Becomes(b, r)
      BY <1>13, <2>4, WriteMoves
    <3>2. r.since = me.since
      BY DEF With
    <3>3. /\ proc'[b].pc = "write" /\ proc'[b].since = me.since
          /\ proc'[b].unread = me.unread /\ proc'[b].chosen = me.chosen
      BY <3>1 DEF Becomes, Alike, With
    <3>4. Exact(b)
      BY <2>1 DEF ExactInv
    <3>5. Page(b, p).says = Says(p)
      BY DEF Page
    <3> HIDE DEF r, p
    <3>6. SaysNow(temporary.files) => SaysNow(temporary.files)'
      BY <2>1, <3>1, <3>5, SameQueue DEF SaysNow
    <3>7. ChosenNow(b) => ChosenNow(b)'
      BY <2>1, <3>3, SameQueue DEF ChosenNow
    <3>8. Exact(b)'
      BY <2>1, <3>3, <3>4, <3>6, <3>7, SameQueue DEF Exact, At
    <3>9. Becomes(b, r)
      BY <3>1
    <3> HIDE DEF n
    <3> QED
      BY <1>5, <2>1, <2>2, <3>2, <3>8, <3>9
  <2> QED
    BY <2>3, <2>4
<1>14. ASSUME NEW b \in Builder, Rename(b) PROVE ExactInv'
  <2>1. UNCHANGED <<decisions, allowlisted, overlapped>> /\ At(b, "rename") /\ ~At(b, "idle") /\ Exit(b)
    BY <1>14 DEF Rename, store, At
  <2>2. CASE UNCHANGED <<site, siteSince>>
    <3>1. siteSince' <= n /\ SiteAsGated'
      BY <1>3, <2>1, <2>2 DEF site
    <3> HIDE DEF n
    <3> QED
      BY <1>6, <2>1, <3>1
  <2>3. CASE output' = temporary /\ siteSince' = proc[b].since
    <3>1. SiteAsGated'
      <4>1. CASE overlapped
        BY <2>1, <4>1 DEF SiteAsGated, Settled
      <4>2. CASE ~overlapped
        <5>1. Written(b) /\ proc[b].todo = <<>>
          BY <2>1, <4>2 DEF BuildInv, Progress, At
        <5>2. Exact(b)
          BY <2>1 DEF ExactInv
        <5> QED
          BY <2>1, <2>3, <4>2, <5>1, <5>2, ExactSite
      <4> QED
        BY <4>1, <4>2
    <3>2. siteSince' <= n
      BY <2>3 DEF ExactInv
    <3> HIDE DEF n
    <3> QED
      BY <1>6, <2>1, <3>1, <3>2
  <2> QED
    BY <1>14, <2>2, <2>3 DEF Rename
<1>15. ASSUME NEW b \in Builder, Crash(b) PROVE ExactInv'
  <2>1. /\ UNCHANGED <<decisions, allowlisted, overlapped, siteSince, output>>
        /\ ~At(b, "idle") /\ Exit(b)
    BY <1>15 DEF Crash, store, site, history
  <2>2. siteSince' <= n /\ SiteAsGated'
    BY <1>3, <2>1
  <2> HIDE DEF n
  <2> QED
    BY <1>6, <2>1, <2>2
<1> QED
  BY <1>1, <1>4, <1>8, <1>9, <1>10, <1>11, <1>12, <1>13, <1>14, <1>15, ReviewSteps
     DEF Next, BuildStep

LEMMA ExactKept == Spec => []ExactInv
<1>1. Init => ExactInv
  BY Records, FS_EmptySet DEF Init, ExactInv, At, SiteAsGated, Settled
<1>2. TypeOK /\ BuildInv /\ ExactInv /\ [Next]_vars => ExactInv'
  <2>1. ASSUME ExactInv, UNCHANGED vars PROVE ExactInv'
    <3>1. /\ UNCHANGED <<decisions, allowlisted, temporary, output, proc, overlapped, siteSince>>
      BY <2>1 DEF vars, store, site, history
    <3>2. SiteAsGated'
      BY <2>1, <3>1, SameQueue DEF ExactInv, SiteAsGated, Settled, Online
    <3>3. \A b \in Builder : Exact(b)' = Exact(b)
      BY <3>1, SameQueue DEF Exact, ChosenNow, SaysNow
    <3> QED
      BY <2>1, <3>1, <3>2, <3>3 DEF ExactInv, At
  <2> QED
    BY <2>1, StepKeepsExact
<1> QED
  BY <1>1, <1>2, TypeCorrect, BuildsKept, PTL DEF Spec

\* What the queue approves is what the last decision approves.
LEMMA NowInForce ==
    ASSUME IdsFollowTime
    PROVE  \A c : CurrentlyApproved(c) <=> InForce(c)
BY DEF IdsFollowTime, CurrentlyApproved, InForce, ReviewsOf

\* So a site that is as the gate decides is as the reviewers decided.
LEMMA GatedIsExact ==
    ASSUME SiteAsGated
    PROVE  SettledSiteIsExact
<1> SUFFICES ASSUME Settled, IdsFollowTime
             PROVE  SettledSiteIsExact
  BY DEF SettledSiteIsExact
<1>1. \A c : CurrentlyApproved(c) <=> InForce(c)
  BY NowInForce
<1>2. /\ \A p \in Path : Online(p) <=> \A a \in Alerts(p) : Passes(a)
      /\ \A p \in Path : Online(p) => output.files[p].says = Says(p)
      /\ \A p \in Path : Online(p) => \A a \in output.files[p].lists \cap Alert : Passes(a)
  BY DEF SiteAsGated
<1>3. /\ \A a \in Alert : Granted(a) <=> Passes(a)
      /\ \A c \in Citation : Granted(c) <=> CurrentlyApproved(c)
      /\ \A m \in Matter : Granted(m) <=> \A c \in MatterCites[m] : CurrentlyApproved(c)
      /\ \A s \in Statement : Granted(s) <=> \A c \in StatementCites[s] : CurrentlyApproved(c)
  BY <1>1, GroundsOf DEF Granted, Passes
<1>4. /\ \A a \in Alert : LineCites[a] \subseteq Citation /\ EvidenceOf[a] \in Evidence
      /\ \A e \in Evidence : PageCites[e] \subseteq Citation /\ StatementsOf[e] \subseteq Statement
      /\ \A m \in Matter : MatterCites[m] \subseteq Citation
  BY CitesAssumption
<1>5. /\ Alert \subseteq Path /\ Evidence \subseteq Path /\ Matter \subseteq Path
      /\ Alert \cap Evidence = {} /\ Alert \cap Matter = {} /\ Evidence \cap Matter = {}
      /\ DiffPages \cap (Evidence \cup Matter) = {}
  BY PathAssumption DEF Path
<1>6. /\ \A e \in Evidence : \A c \in ApprovedPages(e) : c \in Citation /\ CurrentlyApproved(c)
      /\ \A e \in Evidence : \A s \in Shown(e) :
            s \in Statement /\ \A c \in StatementCites[s] : CurrentlyApproved(c)
      /\ \A m \in Matter : MatterPage(m) # {} =>
            MatterPage(m) = {m} \cup MatterCites[m] /\ \A c \in MatterCites[m] : CurrentlyApproved(c)
  BY <1>4 DEF ApprovedPages, Shown, MatterPage
\* Nothing that is not granted is told.
<1>7. ASSUME NEW p \in Path, Online(p), NEW x \in Told(p)
      PROVE  Granted(x)
  <2>1. \A a \in Alerts(p) : a \in Alert /\ Passes(a)
    BY <1>2, <1>7 DEF Alerts
  <2>2. CASE x \in output.files[p].lists \cap Alert
    BY <1>2, <1>3, <1>7, <2>2
  <2>3. CASE x \in Alerts(p)
    BY <1>3, <2>1, <2>3
  <2>4. CASE x \in Says(p) /\ x \notin Alerts(p)
    <3>1. CASE p \in Alert
      <4>1. x \in LineCites[p] \cup ApprovedPages(EvidenceOf[p]) \cup Shown(EvidenceOf[p])
        BY <1>5, <2>4, <3>1 DEF Says
      <4>2. Passes(p)
        BY <2>1, <3>1, DiffsApart
      <4>3. x \in LineCites[p] => x \in Citation /\ CurrentlyApproved(x)
        BY <1>4, <3>1, <4>2 DEF Passes
      <4> QED
        BY <1>3, <1>4, <1>6, <3>1, <4>1, <4>3
    <3>2. CASE p \in Evidence /\ p \notin Alert
      <4>1. x \in ApprovedPages(p)
        BY <1>5, <2>4, <3>2 DEF Says
      <4> QED
        BY <1>3, <1>6, <3>2, <4>1
    <3>3. CASE p \in Matter /\ p \notin Alert /\ p \notin Evidence
      <4>1. x \in MatterPage(p)
        BY <2>4, <3>3 DEF Says
      <4>2. x \in {p} \cup MatterCites[p] /\ \A c \in MatterCites[p] : CurrentlyApproved(c)
        BY <1>6, <3>3, <4>1
      <4> QED
        BY <1>3, <1>4, <3>3, <4>2
    <3>4. CASE p \notin Alert /\ p \notin Evidence /\ p \notin Matter
      BY <2>4, <3>4 DEF Says
    <3> QED
      BY <3>1, <3>2, <3>3, <3>4
  <2> QED
    BY <1>2, <1>7, <2>2, <2>3, <2>4 DEF Told
\* And nothing that is granted is missing.
<1>8. ASSUME NEW a \in Alert, Granted(a)
      PROVE  /\ \A p \in Path : a \in Alerts(p) => Online(p)
             /\ LineCites[a] \subseteq output.files[a].says
             /\ \A s \in StatementsOf[EvidenceOf[a]] :
                   allowlisted /\ Granted(s) => s \in output.files[a].says
  <2>1. Passes(a)
    BY <1>3, <1>8
  <2>2. \A p \in Path : a \in Alerts(p) => Alerts(p) = {a}
    BY DiffsApart DEF Alerts, DiffPages
  <2>3. \A p \in Path : a \in Alerts(p) => Online(p)
    BY <1>2, <2>1, <2>2
  <2>4. output.files[a].says = Says(a)
    BY <1>2, <1>5, <2>3, DiffsApart
  <2>5. Says(a) = Alerts(a) \cup (LineCites[a] \cup ApprovedPages(EvidenceOf[a])
                                            \cup Shown(EvidenceOf[a]))
    BY <1>5 DEF Says
  <2>6. \A s \in StatementsOf[EvidenceOf[a]] : allowlisted /\ Granted(s) => s \in Shown(EvidenceOf[a])
    BY <1>3, <1>4 DEF Shown
  <2> QED
    BY <2>3, <2>4, <2>5, <2>6
<1>9. \A p \in Evidence \cup Matter : Alerts(p) = {} /\ p \in Path /\ Online(p)
  <2>1. \A p \in Evidence \cup Matter : p \in Path /\ p \notin Alert /\ p \notin DiffPages
    BY <1>5
  <2>2. \A p \in Evidence \cup Matter : Alerts(p) = {}
    BY <2>1, DiffsApart
  <2> QED
    BY <1>2, <2>1, <2>2
<1>10. ASSUME NEW e \in Evidence, NEW c \in PageCites[e], InForce(c)
       PROVE  c \in output.files[e].says
  <2>1. c \in ApprovedPages(e)
    BY <1>1, <1>10 DEF ApprovedPages
  <2>2. Says(e) = Alerts(e) \cup ApprovedPages(e)
    BY <1>5 DEF Says
  <2> QED
    BY <1>2, <1>9, <2>1, <2>2
<1>11. ASSUME NEW m \in Matter \ Private, allowlisted, Granted(m)
       PROVE  {m} \cup MatterCites[m] \subseteq output.files[m].says
  <2>1. MatterPage(m) = {m} \cup MatterCites[m]
    BY <1>3, <1>11 DEF MatterPage
  <2>2. Says(m) = Alerts(m) \cup MatterPage(m)
    BY <1>5 DEF Says
  <2> QED
    BY <1>2, <1>9, <2>1, <2>2
<1> QED
  BY <1>7, <1>8, <1>10, <1>11 DEF SettledSiteIsExact

(* The next site after a revocation is rid of it: a build beside which no    *)
(* decision was recorded tells and quotes what the last decisions grant, and *)
(* all of it - as long as the ids of the decisions on a citation, which      *)
(* current_review sorts by, follow the order they were made in.              *)
THEOREM SettledSitesAreExact == Spec => []SettledSiteIsExact
<1>1. ExactInv => SettledSiteIsExact
  BY GatedIsExact DEF ExactInv
<1> QED
  BY <1>1, ExactKept, PTL
=============================================================================
