--------------------------- MODULE Citations_proofs ---------------------------
(***************************************************************************)
(* Proofs about what the program cites.                                    *)
(*                                                                         *)
(* Detect, for any lines, taxonomy, source types, context and length of a  *)
(* version: what a finding and its alert cite, what the state of a finding *)
(* rests on, which lines a diff looks at, and that the alert and the       *)
(* actions of the matter report the same outcome.                          *)
(*                                                                         *)
(* CitationGeometry, for any pages, words, boxes, quotes and page sizes:   *)
(* the search of a quote in the stream of joined words is exact, and the   *)
(* reviewer image shows what was cited.                                    *)
(***************************************************************************)
EXTENDS Detect, CitationGeometry, FiniteSetTheorems, WellFoundedInduction, SequenceTheorems, TLAPS

\* Every nonempty set of naturals has a least element: induction over numbers
\* as the search for a smallest counterexample.
LEMMA LeastOfNat ==
    ASSUME NEW A \in SUBSET Nat, A # {}
    PROVE  \E m \in A : \A k \in A : m <= k
<1> DEFINE U == {0..i : i \in A}
           R == StrictSubsetOrdering(Nat)
           F == FiniteSubsetsOf(Nat)
<1>1. IsWellFoundedOn(R, F)
  BY FS_StrictSubsetOrderingWellFounded
<1>2. U \subseteq F /\ U # {}
  <2>1. \A i \in A : 0..i \in SUBSET Nat /\ IsFiniteSet(0..i)
    BY FS_Interval
  <2> QED
    BY <2>1 DEF FiniteSubsetsOf
<1>3. \E x \in U : \A y \in U : ~(<<y, x>> \in R)
  <2> HIDE DEF U, R, F
  <2> QED
    BY <1>1, <1>2, WFMin
<1>4. PICK m \in A : \A k \in A : ~(<<0..k, 0..m>> \in R)
  <2> HIDE DEF R
  <2> QED
    BY <1>3
<1>5. ASSUME NEW k \in A, k < m PROVE FALSE
  <2>1. 0..k \subseteq 0..m /\ m \in 0..m /\ m \notin 0..k /\ 0..k \in SUBSET Nat /\ 0..m \in SUBSET Nat
    BY <1>5
  <2>2. <<0..k, 0..m>> \in R
    BY <2>1 DEF StrictSubsetOrdering
  <2> QED
    BY <1>4, <2>2
<1> QED
  BY <1>5

LEMMA MinIs ==
    ASSUME NEW S \in SUBSET Nat, S # {}
    PROVE  Min(S) \in S /\ \A y \in S : Min(S) <= y
  BY LeastOfNat DEF Min

LEMMA MaxIs ==
    ASSUME NEW n \in Nat, NEW S \in SUBSET (0..n), S # {}
    PROVE  Max(S) \in S /\ \A y \in S : Max(S) >= y
<1> DEFINE A == {n - x : x \in S}
<1>1. A \in SUBSET Nat /\ A # {}
  <2>1. \A x \in 0..n : n - x \in Nat
    OBVIOUS
  <2> QED
    BY <2>1
<1>2. PICK m \in A : \A k \in A : m <= k
  <2> HIDE DEF A
  <2> QED
    BY <1>1, LeastOfNat
<1>3. PICK x \in S : m = n - x
  OBVIOUS
<1>4. \A y \in S : x >= y
  <2>1. SUFFICES ASSUME NEW y \in S PROVE x >= y
    OBVIOUS
  <2>2. n - y \in A /\ n - y >= n - x
    BY <1>2, <1>3
  <2> QED
    BY <2>2
<1> QED
  BY <1>4 DEF Max

(***************************************************************************)
(* Lines and versions.                                                     *)
(***************************************************************************)

LEMMA LinesWithIs ==
    ASSUME NEW doc \in Seq(Lines), NEW phrases
    PROVE  /\ Len(doc) \in Nat /\ DOMAIN doc = 1..Len(doc)
           /\ LinesWith(doc, phrases) \in SUBSET Nat
           /\ LinesWith(doc, phrases) \subseteq 1..Len(doc)
  BY DEF LinesWith

\* The first line with one of the phrases, where there is one.
LEMMA FirstLineIs ==
    ASSUME NEW doc \in Seq(Lines), NEW phrases
    PROVE  /\ FirstLine(doc, phrases) = 0 <=> LinesWith(doc, phrases) = {}
           /\ FirstLine(doc, phrases) # 0 =>
                /\ FirstLine(doc, phrases) \in LinesWith(doc, phrases)
                /\ \A i \in LinesWith(doc, phrases) : FirstLine(doc, phrases) <= i
<1> DEFINE S == LinesWith(doc, phrases)
<1>1. S \in SUBSET Nat /\ 0 \notin S
  BY LinesWithIs
<1>2. FirstLine(doc, phrases) = IF S = {} THEN 0 ELSE Min(S)
  BY DEF FirstLine
<1> HIDE DEF S
<1>3. S # {} => Min(S) \in S /\ \A i \in S : Min(S) <= i
  BY <1>1, MinIs
<1> QED
  BY <1>1, <1>2, <1>3 DEF S

\* The line a rule cites is evidence for it, and a rule that cites none has
\* no evidence in the text.
LEMMA RuleLineIs ==
    ASSUME NEW doc \in Seq(Lines), NEW r \in Rules
    PROVE  /\ RuleLine(doc, r) \in 0..Len(doc)
           /\ RuleLine(doc, r) # 0 => RuleLine(doc, r) \in DOMAIN doc /\ Evidences(doc[RuleLine(doc, r)], r)
           /\ RuleLine(doc, r) = 0 => \A i \in DOMAIN doc : ~Evidences(doc[i], r)
<1> DEFINE Clean(k) == CleanLines(doc, r, Terms[r][k])
           hits == {k \in DOMAIN Terms[r] : Clean(k) # {}}
<1>1. Len(doc) \in Nat /\ DOMAIN doc = 1..Len(doc)
  OBVIOUS
<1>2. DOMAIN Terms[r] \in SUBSET Nat
  BY RulesAssumption
<1>3. \A k \in DOMAIN Terms[r] : \A i :
         i \in Clean(k) <=> /\ i \in DOMAIN doc /\ Terms[r][k] \in doc[i].says
                            /\ FalsePositives[r] \cap doc[i].says = {}
  BY DEF CleanLines, LinesWith, Says
<1>4. RuleLine(doc, r) = IF hits = {} THEN 0 ELSE Min(Clean(Min(hits)))
  BY DEF RuleLine
<1>5. hits \in SUBSET Nat /\ \A k \in hits : k \in DOMAIN Terms[r] /\ Clean(k) # {}
  BY <1>2
<1>6. \A k \in DOMAIN Terms[r] : Clean(k) \in SUBSET Nat
  BY <1>1, <1>3
<1>7. \A i \in DOMAIN doc : Evidences(doc[i], r) <=> \E k \in DOMAIN Terms[r] : i \in Clean(k)
  BY <1>3 DEF Evidences
<1>8. \A k \in DOMAIN Terms[r] : Clean(k) # {} => k \in hits
  OBVIOUS
<1>9. \A k \in DOMAIN Terms[r] : Clean(k) \subseteq DOMAIN doc
  BY <1>3
<1> HIDE DEF Clean, hits
<1>10. CASE hits = {}
  BY <1>1, <1>4, <1>7, <1>8, <1>10
<1>11. CASE hits # {}
  <2>1. Min(hits) \in hits
    BY <1>5, <1>11, MinIs
  <2> DEFINE k == Min(hits)
  <2>2. k \in DOMAIN Terms[r] /\ Clean(k) # {} /\ Clean(k) \in SUBSET Nat
    BY <1>5, <1>6, <2>1
  <2>3. RuleLine(doc, r) = Min(Clean(k))
    BY <1>4, <1>11
  <2> HIDE DEF k
  <2>4. RuleLine(doc, r) \in Clean(k)
    BY <2>2, <2>3, MinIs
  <2>5. RuleLine(doc, r) \in DOMAIN doc
    BY <1>9, <2>2, <2>4
  <2> QED
    BY <1>1, <1>7, <2>2, <2>4, <2>5
<1> QED
  BY <1>10, <1>11

LEMMA MatchedIs ==
    ASSUME NEW doc \in Seq(Lines)
    PROVE  /\ Matched(doc) = {r \in Rules : \E i \in DOMAIN doc : Evidences(doc[i], r)}
           /\ TermCites(doc) \subseteq DOMAIN doc
           /\ \A r \in Matched(doc) : \E i \in TermCites(doc) : Evidences(doc[i], r)
<1>1. \A r \in Rules : RuleLine(doc, r) # 0 <=> \E i \in DOMAIN doc : Evidences(doc[i], r)
  BY RuleLineIs
<1>2. \A r \in Matched(doc) : /\ RuleLine(doc, r) \in DOMAIN doc
                              /\ Evidences(doc[RuleLine(doc, r)], r)
  BY RuleLineIs DEF Matched
<1> QED
  BY <1>1, <1>2 DEF Matched, TermCites

\* The finding of a text, and the alert built from it.
LEMMA ScanIs ==
    ASSUME NEW doc, NEW f, f = ScanText(doc), f # NoFinding
    PROVE  /\ f.matched = Matched(doc) /\ f.terms = TermCites(doc)
           /\ f.state = Classify(doc, TermCites(doc)).state
           /\ f.stateLine = Classify(doc, TermCites(doc)).line
           /\ AlertOf(f).cites = TermCites(doc) \cup ({f.stateLine} \ {0})
  BY DEF ScanText, AlertOf

\* MatchesAreCited, of one version, its finding and its alert.
LEMMA FindingIsCited ==
    ASSUME NEW doc \in Seq(Lines), NEW f, f = ScanText(doc), f # NoFinding
    PROVE  /\ f.matched = {r \in Rules : \E i \in DOMAIN doc : Evidences(doc[i], r)}
           /\ \A r \in f.matched : \E i \in AlertOf(f).cites : Evidences(doc[i], r)
  BY ScanIs, MatchedIs
(***************************************************************************)
(* The state of a finding.                                                 *)
(***************************************************************************)

\* A set with no two elements in one.
LEMMA OneOnly ==
    ASSUME NEW S, IsFiniteSet(S), ~(Cardinality(S) > 1), NEW a \in S, NEW b \in S
    PROVE  a = b
<1>1. SUFFICES ASSUME a # b PROVE FALSE
  OBVIOUS
<1>2. IsFiniteSet({a}) /\ Cardinality({a}) = 1
  BY FS_Singleton
<1>3. IsFiniteSet({a} \cup {b}) /\ Cardinality({a} \cup {b}) = 2
  <2>1. b \notin {a}
    BY <1>1
  <2> DEFINE A == {a}
  <2>2. IsFiniteSet(A) /\ Cardinality(A) = 1 /\ b \notin A
    BY <1>2, <2>1
  <2> HIDE DEF A
  <2>3. IsFiniteSet(A \cup {b}) /\ Cardinality(A \cup {b}) = Cardinality(A) + 1
    BY <2>2, FS_AddElement
  <2>4. IsFiniteSet(A \cup {b}) /\ Cardinality(A \cup {b}) = 2
    BY <2>2, <2>3
  <2> QED
    BY <2>4 DEF A
<1>4. Cardinality({a} \cup {b}) <= Cardinality(S) /\ Cardinality(S) \in Nat
  BY FS_Subset, FS_CardinalityType
<1> QED
  BY <1>3, <1>4

LEMMA StatesAre ==
    /\ DOMAIN StatePhrases = {"ContractExecuted", "RenewalOrExpansion", "Approved", "Rejected",
         "PublicHearingScheduled", "VoteScheduled", "PolicyChange", "DeploymentReported", "Proposal"}
    /\ IsFiniteSet(DOMAIN StatePhrases)
    /\ "MentionDetected" \notin DOMAIN StatePhrases /\ "Unknown" \notin DOMAIN StatePhrases
<1> DEFINE a == {"ContractExecuted", "RenewalOrExpansion", "Approved"}
           b == {"Rejected", "PublicHearingScheduled", "VoteScheduled"}
           c == {"PolicyChange", "DeploymentReported", "Proposal"}
<1>1. DOMAIN StatePhrases = a \cup b \cup c
  BY DEF StatePhrases
<1>2. \A x, y, z : IsFiniteSet({x, y, z})
  <2>1. SUFFICES ASSUME NEW x, NEW y, NEW z PROVE IsFiniteSet({x, y, z})
    OBVIOUS
  <2>2. IsFiniteSet({} \cup {x})
    BY FS_EmptySet, FS_AddElement
  <2>3. IsFiniteSet({} \cup {x} \cup {y})
    BY <2>2, FS_AddElement
  <2>4. IsFiniteSet({} \cup {x} \cup {y} \cup {z})
    BY <2>3, FS_AddElement
  <2>5. {x, y, z} = {} \cup {x} \cup {y} \cup {z}
    OBVIOUS
  <2> QED
    BY <2>4, <2>5
<1>3. IsFiniteSet(a \cup b \cup c)
  <2>1. IsFiniteSet(a) /\ IsFiniteSet(b) /\ IsFiniteSet(c)
    BY <1>2
  <2> HIDE DEF a, b, c
  <2>2. IsFiniteSet(a \cup b)
    BY <2>1, FS_Union
  <2> QED
    BY <2>1, <2>2, FS_Union
<1> QED
  BY <1>1, <1>3

\* The line and the phrase a state is supported by are those the scan takes.
LEMMA AssertsIs ==
    ASSUME NEW line, NEW s \in DOMAIN StatePhrases
    PROVE  Supports(line, s) <=> Asserts(line, StatePhrases[s])
  BY DEF Supports, Asserts, IsNegatedOrConditional

\* The lines a state may be taken from.
Context(doc, cites) ==
    {i \in DOMAIN doc : \/ "Action:" \in doc[i].says
                        \/ \E c \in cites : i - c \in (-ContextLines)..ContextLines}

LEMMA AcceptsIs ==
    ASSUME NEW doc \in Seq(Lines), NEW cites \in SUBSET (DOMAIN doc), NEW i \in DOMAIN doc
    PROVE  Accepts(doc, cites, i) <=> i \in Context(doc, cites)
<1>1. ContextLines \in Nat /\ i \in Nat /\ \A c \in cites : c \in Nat
  BY BoundAssumption
<1>2. \A c \in cites : Distance(c, i) <= ContextLines <=> i - c \in (-ContextLines)..ContextLines
  BY <1>1 DEF Distance
<1>3. Says(doc, i, {"Action:"}) <=> "Action:" \in doc[i].says
  BY DEF Says
<1> QED
  BY <1>2, <1>3 DEF Accepts, Context

\* What classify_document asserts: the one state the context supports, at the
\* last line that supports it.
LEMMA ClassifyIs ==
    ASSUME NEW doc \in Seq(Lines), NEW cites \in SUBSET (DOMAIN doc),
           Classify(doc, cites).state \in DOMAIN StatePhrases
    PROVE  /\ Classify(doc, cites).line \in Context(doc, cites)
           /\ Supports(doc[Classify(doc, cites).line], Classify(doc, cites).state)
           /\ \A i \in Context(doc, cites), s \in DOMAIN StatePhrases :
                Supports(doc[i], s) => s = Classify(doc, cites).state
<1> DEFINE found == Candidates(doc, cites)
           lines == {c[2] : c \in found}
           states == {c[1] : c \in found}
           last == IF found = {} THEN 0 ELSE Max(lines)
           near == Classify(doc, cites)
<1>1. \A c : c \in found <=>
         /\ c \in (DOMAIN StatePhrases) \X (DOMAIN doc)
         /\ c[2] \in Context(doc, cites) /\ Supports(doc[c[2]], c[1])
  BY AcceptsIs, AssertsIs DEF Candidates
<1>2. near = CASE found = {} -> [state |-> "MentionDetected", line |-> 0]
               [] Cardinality(states) > 1 -> [state |-> "Unknown", line |-> last]
               [] OTHER -> [state |-> (CHOOSE c \in found : c[2] = last)[1], line |-> last]
  BY DEF Classify
<1>3. near.state \in DOMAIN StatePhrases
  OBVIOUS
<1>4. lines \subseteq 0..Len(doc) /\ Len(doc) \in Nat /\ states \subseteq DOMAIN StatePhrases
  BY <1>1
<1>5. \A c \in found : c[2] \in lines /\ c[1] \in states
  OBVIOUS
<1>6. \A l \in lines : \E c \in found : c[2] = l
  OBVIOUS
<1>7. \A i \in Context(doc, cites), s \in DOMAIN StatePhrases :
         Supports(doc[i], s) => <<s, i>> \in found
  BY <1>1 DEF Context
<1>8. found = {} => lines = {}
  OBVIOUS
<1> HIDE DEF found, lines, states, near
<1>9. found # {}
  BY <1>2, <1>3, StatesAre
<1>10. ~(Cardinality(states) > 1)
  BY <1>2, <1>3, <1>9, StatesAre
<1>11. near.line = Max(lines) /\ near.state = (CHOOSE c \in found : c[2] = Max(lines))[1]
  BY <1>2, <1>9, <1>10
<1>12. Max(lines) \in lines
  <2>1. lines # {}
    BY <1>5, <1>9
  <2> QED
    BY <1>4, <2>1, MaxIs
<1>13. PICK c \in found : c[2] = near.line /\ c[1] = near.state
  BY <1>6, <1>11, <1>12
<1>14. IsFiniteSet(states)
  BY <1>4, FS_Subset, StatesAre
<1>15. \A i \in Context(doc, cites), s \in DOMAIN StatePhrases :
         Supports(doc[i], s) => s = near.state
  <2>1. SUFFICES ASSUME NEW i \in Context(doc, cites), NEW s \in DOMAIN StatePhrases, Supports(doc[i], s)
                 PROVE  s = near.state
    OBVIOUS
  <2>2. s \in states
    <3>1. <<s, i>> \in found /\ <<s, i>>[1] = s
      BY <1>7, <2>1
    <3> QED
      BY <1>5, <3>1
  <2>3. near.state \in states
    BY <1>5, <1>13
  <2> QED
    BY <1>10, <1>14, <2>2, <2>3, OneOnly
<1> QED
  BY <1>1, <1>13, <1>15 DEF near

\* StatesAreSupported, of one version, its finding and its alert.
LEMMA StateIsSupported ==
    ASSUME NEW doc \in Seq(Lines), NEW f, f = ScanText(doc), f # NoFinding,
           f.state \in DOMAIN StatePhrases
    PROVE  /\ f.stateLine \in Context(doc, f.terms) \cap AlertOf(f).cites
           /\ Supports(doc[f.stateLine], f.state)
           /\ \A i \in Context(doc, f.terms), s \in DOMAIN StatePhrases :
                Supports(doc[i], s) => s = f.state
<1> DEFINE cites == TermCites(doc)
           near == Classify(doc, cites)
<1>1. cites \in SUBSET (DOMAIN doc)
  BY MatchedIs
<1>2. /\ f.terms = cites /\ f.state = near.state /\ f.stateLine = near.line
      /\ AlertOf(f).cites = cites \cup ({f.stateLine} \ {0})
  BY ScanIs
<1> HIDE DEF cites
<1>3. near.line \in Context(doc, cites)
  BY <1>1, <1>2, ClassifyIs
<1>4. near.line # 0
  BY <1>3 DEF Context
<1> QED
  BY <1>1, <1>2, <1>3, <1>4, ClassifyIs
(***************************************************************************)
(* The actions bound to a matter.                                          *)
(***************************************************************************)

Undenied(doc, s) == \E i \in DOMAIN doc : Supports(doc[i], s)

LEMMA PriorityIs ==
    /\ DOMAIN ActionPriority = 1..7
    /\ ActionPriority[1].kind = "Rejected" /\ ActionPriority[1].says = StatePhrases["Rejected"]
    /\ ActionPriority[2].kind = "Approved" /\ ActionPriority[2].says = StatePhrases["Approved"]
    /\ \A k \in 3..7 : ActionPriority[k].kind \notin {"Rejected", "Approved"}
<1>1. /\ DOMAIN ActionPriority = 1..7
      /\ ActionPriority[1] = [kind |-> "Rejected", says |-> {"rejected", "denied", "failed by a vote"}]
      /\ ActionPriority[2] = [kind |-> "Approved",
                              says |-> {"finally passed", "approved", "adopted", "authorized"}]
  BY DEF ActionPriority
<1>2. /\ StatePhrases["Rejected"] = {"rejected", "denied", "failed by a vote"}
      /\ StatePhrases["Approved"] = {"finally passed", "approved", "adopted", "authorized"}
  BY DEF StatePhrases
<1>3. /\ ActionPriority[3].kind = "DeploymentReported" /\ ActionPriority[4].kind = "PolicyChanged"
      /\ ActionPriority[5].kind = "VoteScheduled" /\ ActionPriority[6].kind = "HearingScheduled"
      /\ ActionPriority[7].kind = "Proposed"
  BY DEF ActionPriority
<1>4. \A k \in 3..7 : k = 3 \/ k = 4 \/ k = 5 \/ k = 6 \/ k = 7
  OBVIOUS
<1>5. \A k \in 3..7 : ActionPriority[k].kind \notin {"Rejected", "Approved"}
  BY <1>3, <1>4
<1>6. /\ ActionPriority[1].kind = "Rejected" /\ ActionPriority[1].says = StatePhrases["Rejected"]
      /\ ActionPriority[2].kind = "Approved" /\ ActionPriority[2].says = StatePhrases["Approved"]
  <2> DEFINE r == {"rejected", "denied", "failed by a vote"}
             a == {"finally passed", "approved", "adopted", "authorized"}
  <2>1. /\ ActionPriority[1] = [kind |-> "Rejected", says |-> r] /\ StatePhrases["Rejected"] = r
        /\ ActionPriority[2] = [kind |-> "Approved", says |-> a] /\ StatePhrases["Approved"] = a
    BY <1>1, <1>2
  <2> HIDE DEF r, a
  <2> QED
    BY <2>1
<1>7. DOMAIN ActionPriority = 1..7
  BY <1>1
<1> QED
  BY <1>5, <1>6, <1>7

\* Where an outcome is stated undenied, the action on the primary subject is
\* that outcome or there is none.
LEMMA MatterFollows ==
    ASSUME NEW doc, NEW s \in {"Approved", "Rejected"}, Undenied(doc, s)
    PROVE  MatterActions(doc) \subseteq {s}
<1> DEFINE found == Detected(doc)
           kinds == {ActionPriority[k].kind : k \in found}
<1>1. MatterActions(doc) = IF found = {} \/ {"Approved", "Rejected"} \subseteq kinds THEN {}
                           ELSE {ActionPriority[Min(found)].kind}
  BY DEF MatterActions
<1>2. "Approved" \in DOMAIN StatePhrases /\ "Rejected" \in DOMAIN StatePhrases
  BY StatesAre
<1>3. /\ found \in SUBSET (1..7)
      /\ 1 \in found <=> Undenied(doc, "Rejected")
      /\ 2 \in found <=> Undenied(doc, "Approved")
  BY <1>2, PriorityIs, AssertsIs DEF Detected, Undenied
<1>4. \A k \in found : ActionPriority[k].kind \in kinds
  OBVIOUS
<1> HIDE DEF found, kinds
<1>5. CASE found = {} \/ {"Approved", "Rejected"} \subseteq kinds
  BY <1>1, <1>5
<1>6. CASE ~(found = {} \/ {"Approved", "Rejected"} \subseteq kinds)
  <2>1. found \in SUBSET Nat
    BY <1>3
  <2>2. /\ Min(found) \in found /\ Min(found) \in 1..7
        /\ \A k \in found : Min(found) <= k
    BY <1>3, <1>6, <2>1, MinIs
  <2>3. ~(1 \in found /\ 2 \in found)
    BY <1>4, <1>6, PriorityIs
  <2>4. MatterActions(doc) = {ActionPriority[Min(found)].kind}
    BY <1>1, <1>6
  <2>5. CASE s = "Rejected"
    <3>1. 1 \in found
      BY <1>3, <2>5
    <3>2. Min(found) = 1
      BY <2>2, <3>1
    <3> QED
      BY <2>4, <2>5, <3>2, PriorityIs
  <2>6. CASE s = "Approved"
    <3>1. 2 \in found /\ 1 \notin found
      BY <1>3, <2>3, <2>6
    <3>2. Min(found) = 2
      BY <2>2, <3>1
    <3> QED
      BY <2>4, <2>6, <3>2, PriorityIs
  <2> QED
    BY <2>5, <2>6
<1> QED
  BY <1>5, <1>6

\* The actions on the primary subject are those of the matter, because no rule
\* has its name.
LEMMA PrimaryActionsAre ==
    ASSUME NEW doc, NEW type, NEW a \in Extract(doc, type).actions, a[1] = "primary"
    PROVE  a[2] \in MatterActions(doc)
<1> DEFINE vendors == {<<r, VendorAction(doc, r)>> : r \in VendorsIn(doc)}
           primary == {<<"primary", m>> : m \in MatterActions(doc)}
<1>1. a \in primary \cup vendors
  BY DEF Extract
<1>2. "primary" \notin VendorsIn(doc)
  BY RulesAssumption DEF VendorsIn, Matched
<1>3. a \notin vendors
  BY <1>2
<1> HIDE DEF vendors
<1> QED
  BY <1>1, <1>3
(***************************************************************************)
(* The lines a diff looks at.                                              *)
(***************************************************************************)

\* What Relevant defines recursively, up to the n-th line.
Keeps(f, doc, n) ==
    f = [i \in 0..n |-> IF i = 0 THEN <<>>
                        ELSE IF doc[i].says = {} THEN f[i-1] ELSE Append(f[i-1], doc[i])]

LEMMA KeptExists ==
    ASSUME NEW doc, NEW n \in Nat
    PROVE  \E f : Keeps(f, doc, n)
<1> DEFINE A == {k \in Nat : ~ \E f : Keeps(f, doc, k)}
<1>1. SUFFICES ASSUME A # {} PROVE FALSE
  OBVIOUS
<1>2. PICK m \in A : \A k \in A : m <= k
  BY <1>1, LeastOfNat
<1>3. m # 0
  <2>1. Keeps([i \in 0..0 |-> <<>>], doc, 0)
    BY DEF Keeps
  <2> QED
    BY <2>1
<1>4. PICK g : Keeps(g, doc, m - 1)
  <2>1. m - 1 \in Nat /\ m - 1 \notin A
    BY <1>2, <1>3
  <2> QED
    BY <2>1
<1> DEFINE Next1(h, i) == IF i = 0 THEN <<>>
                          ELSE IF doc[i].says = {} THEN h[i-1] ELSE Append(h[i-1], doc[i])
           f == [i \in 0..m |-> IF i < m THEN g[i] ELSE Next1(g, m)]
<1>5. ASSUME NEW i \in 0..m
      PROVE  f[i] = Next1(f, i)
  <2>1. CASE i < m
    <3>1. f[i] = g[i] /\ (i # 0 => f[i-1] = g[i-1])
      BY <2>1
    <3>2. i \in 0..(m - 1)
      BY <2>1
    <3>3. \A k \in 0..(m - 1) : g[k] = Next1(g, k)
      BY <1>4 DEF Keeps
    <3> HIDE DEF f
    <3> QED
      BY <3>1, <3>2, <3>3
  <2>2. CASE i = m
    <3>1. f[i-1] = g[i-1] /\ f[i] = Next1(g, m)
      BY <1>3, <2>2
    <3> HIDE DEF f
    <3> QED
      BY <2>2, <3>1
  <2> QED
    BY <2>1, <2>2
<1>6. f = [i \in 0..m |-> f[i]]
  OBVIOUS
<1> HIDE DEF f
<1>7. Keeps(f, doc, m)
  BY <1>5, <1>6 DEF Keeps
<1> QED
  BY <1>7

LEMMA KeptIs ==
    ASSUME NEW doc, Len(doc) \in Nat
    PROVE  \E f : Keeps(f, doc, Len(doc)) /\ Relevant(doc) = f[Len(doc)]
<1> DEFINE g == CHOOSE f : f = [i \in 0..Len(doc) |->
                    IF i = 0 THEN <<>>
                    ELSE IF doc[i].says = {} THEN f[i-1] ELSE Append(f[i-1], doc[i])]
<1>1. Relevant(doc) = g[Len(doc)]
  BY DEF Relevant
<1>2. \E f : f = [i \in 0..Len(doc) |->
                    IF i = 0 THEN <<>>
                    ELSE IF doc[i].says = {} THEN f[i-1] ELSE Append(f[i-1], doc[i])]
  BY KeptExists DEF Keeps
<1>3. Keeps(g, doc, Len(doc))
  BY <1>2 DEF Keeps
<1> QED
  BY <1>1, <1>3

\* None of the first n lines has one of the phrases; l is the first that does.
Silent(doc, phrases, n) == \A j \in 1..n : doc[j].says \cap phrases = {}
First(l, doc, phrases, n) ==
    \E i \in 1..n : /\ doc[i] = l /\ l.says \cap phrases # {}
                    /\ Silent(doc, phrases, i - 1)

\* One more line.
LEMMA OneMore ==
    ASSUME NEW doc, NEW phrases, NEW l, NEW n \in Nat
    PROVE  /\ Silent(doc, phrases, n + 1) <=>
                Silent(doc, phrases, n) /\ doc[n + 1].says \cap phrases = {}
           /\ First(l, doc, phrases, n + 1) <=>
                \/ First(l, doc, phrases, n)
                \/ doc[n + 1] = l /\ l.says \cap phrases # {} /\ Silent(doc, phrases, n)
<1>1. 1..(n + 1) = (1..n) \cup {n + 1} /\ (n + 1) - 1 = n
  OBVIOUS
<1>2. Silent(doc, phrases, n + 1) <=> Silent(doc, phrases, n) /\ doc[n + 1].says \cap phrases = {}
  BY <1>1 DEF Silent
<1>3. First(l, doc, phrases, n + 1) <=>
        \/ First(l, doc, phrases, n)
        \/ doc[n + 1] = l /\ l.says \cap phrases # {} /\ Silent(doc, phrases, n)
  BY <1>1 DEF First
<1> QED
  BY <1>2, <1>3

\* Versions that agree up to the n-th line.
LEMMA Agree ==
    ASSUME NEW s, NEW t, NEW phrases, NEW l, NEW n \in Nat, \A i \in 1..n : s[i] = t[i]
    PROVE  /\ Silent(s, phrases, n) <=> Silent(t, phrases, n)
           /\ First(l, s, phrases, n) <=> First(l, t, phrases, n)
<1>1. \A k \in 0..n : Silent(s, phrases, k) <=> Silent(t, phrases, k)
  BY DEF Silent
<1>2. \A i \in 1..n : i - 1 \in 0..n
  OBVIOUS
<1> QED
  BY <1>1, <1>2 DEF First

\* The version with the irrelevant lines taken out.
Sees(s, doc, n) ==
    /\ s \in Seq(Lines)
    /\ \A phrases : Silent(s, phrases, Len(s)) <=> Silent(doc, phrases, n)
    /\ \A phrases, l : First(l, s, phrases, Len(s)) <=> First(l, doc, phrases, n)

LEMMA KeptSees ==
    ASSUME NEW doc \in Seq(Lines)
    PROVE  Sees(Relevant(doc), doc, Len(doc))
<1>1. Len(doc) \in Nat
  OBVIOUS
<1>2. PICK f : Keeps(f, doc, Len(doc)) /\ Relevant(doc) = f[Len(doc)]
  BY <1>1, KeptIs
<1>3. \A i \in 0..Len(doc) :
        f[i] = IF i = 0 THEN <<>>
               ELSE IF doc[i].says = {} THEN f[i-1] ELSE Append(f[i-1], doc[i])
  BY <1>2 DEF Keeps
<1> DEFINE A == {n \in 0..Len(doc) : ~Sees(f[n], doc, n)}
<1>4. A = {}
  <2>1. SUFFICES ASSUME A # {} PROVE FALSE
    OBVIOUS
  <2>2. PICK m \in A : \A k \in A : m <= k
    <3>1. A \in SUBSET Nat
      BY <1>1
    <3> HIDE DEF A
    <3> QED
      BY <2>1, <3>1, LeastOfNat
  <2>3. m \in 0..Len(doc) /\ ~Sees(f[m], doc, m)
    OBVIOUS
  <2>4. m # 0
    <3>1. ASSUME m = 0 PROVE FALSE
      <4>1. f[0] = <<>> /\ f[0] \in Seq(Lines) /\ Len(f[0]) = 0
        <5>1. 0 \in 0..Len(doc)
          BY <1>1
        <5>2. f[0] = <<>>
          BY <1>3, <5>1
        <5> QED
          BY <5>2
      <4>2. Sees(f[0], doc, 0)
        BY <4>1 DEF Sees, Silent, First
      <4> QED
        BY <2>3, <3>1, <4>2
    <3> QED
      BY <3>1
  <2>5. PICK n \in 0..Len(doc) : m = n + 1
    <3>1. m - 1 \in 0..Len(doc) /\ m = (m - 1) + 1
      BY <1>1, <2>3, <2>4
    <3> QED
      BY <3>1
  <2>6. Sees(f[n], doc, n) /\ n \in Nat /\ n + 1 \in 1..Len(doc)
    <3>1. n \notin A
      BY <1>1, <2>2, <2>5
    <3> QED
      BY <1>1, <2>3, <2>5, <3>1
  <2>7. f[m] = IF doc[m].says = {} THEN f[n] ELSE Append(f[n], doc[m])
    BY <1>3, <2>3, <2>4, <2>5, <2>6
  <2> DEFINE s == f[n]
  <2>8. doc[m] \in Lines
    BY <2>5, <2>6
  <2> HIDE DEF A
  <2>9. CASE doc[m].says = {}
    <3>1. \A phrases : doc[m].says \cap phrases = {}
      BY <2>9
    <3>2. \A phrases : Silent(doc, phrases, m) <=> Silent(doc, phrases, n)
      BY <2>5, <2>6, <3>1, OneMore
    <3>3. \A phrases, l : First(l, doc, phrases, m) <=> First(l, doc, phrases, n)
      <4>1. SUFFICES ASSUME NEW phrases, NEW l
                     PROVE  First(l, doc, phrases, m) <=> First(l, doc, phrases, n)
        OBVIOUS
      <4>2. ~(doc[n + 1] = l /\ l.says \cap phrases # {})
        BY <2>5, <3>1
      <4> QED
        BY <2>5, <2>6, <4>2, OneMore
    <3>4. Sees(f[m], doc, m)
      BY <2>6, <2>7, <2>9, <3>2, <3>3 DEF Sees
    <3> QED
      BY <2>3, <3>4
  <2>10. CASE doc[m].says # {}
    <3> DEFINE t == Append(s, doc[m])
    <3>1. s \in Seq(Lines) /\ Len(s) \in Nat
      BY <2>6 DEF Sees
    <3>2. /\ t \in Seq(Lines) /\ Len(t) = Len(s) + 1
          /\ t[Len(s) + 1] = doc[n + 1]
          /\ \A i \in 1..Len(s) : t[i] = s[i]
      BY <2>5, <2>8, <3>1
    <3>3. f[m] = t
      BY <2>7, <2>10
    <3> HIDE DEF s, t
    <3>4. ASSUME NEW phrases
          PROVE  Silent(t, phrases, Len(t)) <=> Silent(doc, phrases, m)
      <4>1. Silent(s, phrases, Len(s)) <=> Silent(doc, phrases, n)
        BY <2>6 DEF Sees, s
      <4>2. Silent(t, phrases, Len(s)) <=> Silent(s, phrases, Len(s))
        BY <3>1, <3>2, Agree
      <4>3. Silent(t, phrases, Len(s) + 1) <=>
              Silent(t, phrases, Len(s)) /\ doc[n + 1].says \cap phrases = {}
        <5>1. Silent(t, phrases, Len(s) + 1) <=>
                Silent(t, phrases, Len(s)) /\ t[Len(s) + 1].says \cap phrases = {}
          BY <3>1, OneMore
        <5> QED
          BY <3>2, <5>1
      <4>4. Silent(doc, phrases, n + 1) <=>
              Silent(doc, phrases, n) /\ doc[n + 1].says \cap phrases = {}
        BY <2>6, OneMore
      <4> QED
        BY <2>5, <3>2, <4>1, <4>2, <4>3, <4>4
    <3>5. ASSUME NEW phrases, NEW l
          PROVE  First(l, t, phrases, Len(t)) <=> First(l, doc, phrases, m)
      <4>1. /\ First(l, s, phrases, Len(s)) <=> First(l, doc, phrases, n)
            /\ Silent(s, phrases, Len(s)) <=> Silent(doc, phrases, n)
        BY <2>6 DEF Sees, s
      <4>2. /\ Silent(t, phrases, Len(s)) <=> Silent(s, phrases, Len(s))
            /\ First(l, t, phrases, Len(s)) <=> First(l, s, phrases, Len(s))
        BY <3>1, <3>2, Agree
      <4>3. First(l, t, phrases, Len(s) + 1) <=>
              \/ First(l, t, phrases, Len(s))
              \/ doc[n + 1] = l /\ l.says \cap phrases # {} /\ Silent(t, phrases, Len(s))
        BY <3>1, <3>2, OneMore
      <4>4. First(l, doc, phrases, n + 1) <=>
              \/ First(l, doc, phrases, n)
              \/ doc[n + 1] = l /\ l.says \cap phrases # {} /\ Silent(doc, phrases, n)
        BY <2>6, OneMore
      <4> QED
        BY <2>5, <3>2, <4>1, <4>2, <4>3, <4>4
    <3>6. Sees(f[m], doc, m)
      BY <3>2, <3>3, <3>4, <3>5 DEF Sees
    <3> QED
      BY <2>3, <3>6
  <2> QED
    BY <2>9, <2>10
<1> QED
  <2>1. Len(doc) \in 0..Len(doc)
    BY <1>1
  <2> QED
    BY <1>2, <1>4, <2>1
\* Two versions whose first lines on anything are the same text.
Same(d, e) ==
    \A phrases : /\ FirstLine(d, phrases) = 0 <=> FirstLine(e, phrases) = 0
                 /\ FirstLine(d, phrases) # 0 => d[FirstLine(d, phrases)] = e[FirstLine(e, phrases)]

\* FirstLine is where the first line stands.
LEMMA FirstLineStands ==
    ASSUME NEW doc \in Seq(Lines), NEW phrases
    PROVE  /\ FirstLine(doc, phrases) = 0 <=> Silent(doc, phrases, Len(doc))
           /\ FirstLine(doc, phrases) # 0 =>
                \A l : First(l, doc, phrases, Len(doc)) <=> doc[FirstLine(doc, phrases)] = l
<1> DEFINE k == FirstLine(doc, phrases)
           S == LinesWith(doc, phrases)
<1>1. Len(doc) \in Nat /\ \A i : i \in S <=> i \in 1..Len(doc) /\ doc[i].says \cap phrases # {}
  BY DEF LinesWith, Says
<1>2. /\ k = 0 <=> S = {}
      /\ k # 0 => k \in S /\ \A i \in S : k <= i
  BY FirstLineIs
<1> HIDE DEF k, S
<1>3. S = {} <=> Silent(doc, phrases, Len(doc))
  BY <1>1 DEF Silent
<1>4. ASSUME k # 0, NEW l
      PROVE  First(l, doc, phrases, Len(doc)) <=> doc[k] = l
  <2>1. k \in 1..Len(doc) /\ doc[k].says \cap phrases # {}
    BY <1>1, <1>2, <1>4
  <2>2. Silent(doc, phrases, k - 1)
    <3>1. SUFFICES ASSUME NEW j \in 1..(k - 1) PROVE j \notin S
      <4>1. 1..(k - 1) \subseteq 1..Len(doc)
        BY <1>1, <2>1
      <4> QED
        BY <1>1, <4>1 DEF Silent
    <3> QED
      BY <1>1, <1>2, <1>4
  <2>3. ASSUME NEW i \in 1..Len(doc), doc[i].says \cap phrases # {}, Silent(doc, phrases, i - 1)
        PROVE  i = k
    <3>1. i \in S /\ k <= i
      BY <1>1, <1>2, <1>4, <2>3
    <3>2. ASSUME k < i PROVE FALSE
      <4>1. k \in 1..(i - 1)
        BY <1>1, <2>1, <3>2
      <4> QED
        BY <2>1, <2>3, <4>1 DEF Silent
    <3> QED
      BY <1>1, <2>1, <3>1, <3>2
  <2> QED
    BY <2>1, <2>2, <2>3 DEF First
<1> QED
  BY <1>2, <1>3, <1>4 DEF k

LEMMA RelevantIsSame ==
    ASSUME NEW doc \in Seq(Lines)
    PROVE  Same(doc, Relevant(doc))
<1> DEFINE kept == Relevant(doc)
<1>1. kept \in Seq(Lines) /\ Sees(kept, doc, Len(doc))
  BY KeptSees DEF Sees
<1> HIDE DEF kept
<1>2. SUFFICES ASSUME NEW phrases
               PROVE  /\ FirstLine(doc, phrases) = 0 <=> FirstLine(kept, phrases) = 0
                      /\ FirstLine(doc, phrases) # 0 =>
                           doc[FirstLine(doc, phrases)] = kept[FirstLine(kept, phrases)]
  BY DEF Same, kept
<1>3. FirstLine(doc, phrases) = 0 <=> FirstLine(kept, phrases) = 0
  BY <1>1, FirstLineStands DEF Sees
<1>4. ASSUME FirstLine(doc, phrases) # 0
      PROVE  doc[FirstLine(doc, phrases)] = kept[FirstLine(kept, phrases)]
  <2> DEFINE l == doc[FirstLine(doc, phrases)]
  <2>1. First(l, doc, phrases, Len(doc))
    BY <1>4, FirstLineStands
  <2>2. First(l, kept, phrases, Len(kept))
    BY <1>1, <2>1 DEF Sees
  <2> QED
    BY <1>1, <1>3, <1>4, <2>2, FirstLineStands
<1> QED
  BY <1>3, <1>4

LEMMA SameIs ==
    ASSUME NEW d \in Seq(Lines), NEW e \in Seq(Lines), Same(d, e)
    PROVE  /\ \A phrases : TextAt(d, FirstLine(d, phrases)) = TextAt(e, FirstLine(e, phrases))
           /\ \A phrases : LinesWith(d, phrases) = {} <=> LinesWith(e, phrases) = {}
           /\ \A values : ValuesIn(d, values) = ValuesIn(e, values)
           /\ RulesNamed(d) = RulesNamed(e)
<1>1. \A phrases : TextAt(d, FirstLine(d, phrases)) = TextAt(e, FirstLine(e, phrases))
  BY DEF Same, TextAt
<1>2. \A phrases : LinesWith(d, phrases) = {} <=> LinesWith(e, phrases) = {}
  BY FirstLineIs DEF Same
<1>3. \A doc, values, x : x \in ValuesIn(doc, values) <=> x \in values /\ LinesWith(doc, {x}) # {}
  BY DEF ValuesIn, LinesWith, Says
<1>4. ASSUME NEW values PROVE ValuesIn(d, values) = ValuesIn(e, values)
  <2>1. ASSUME NEW x PROVE x \in ValuesIn(d, values) <=> x \in ValuesIn(e, values)
    <3>1. /\ x \in ValuesIn(d, values) <=> x \in values /\ LinesWith(d, {x}) # {}
          /\ x \in ValuesIn(e, values) <=> x \in values /\ LinesWith(e, {x}) # {}
      BY <1>3
    <3>2. LinesWith(d, {x}) = {} <=> LinesWith(e, {x}) = {}
      BY <1>2
    <3> QED
      BY <3>1, <3>2
  <2> QED
    BY <2>1 DEF ValuesIn
<1>5. RulesNamed(d) = RulesNamed(e)
  BY <1>2 DEF RulesNamed
<1> QED
  BY <1>1, <1>2, <1>4, <1>5

Kinds(changes) == {<<c.kind, c.topic>> : c \in changes}

LEMMA KindsOf ==
    /\ Kinds({}) = {}
    /\ \A kind, topic, before, after : Kinds({Change(kind, topic, before, after)}) = {<<kind, topic>>}
<1>1. Kinds({}) = {}
  BY DEF Kinds
<1>2. \A kind, topic, before, after : Kinds({Change(kind, topic, before, after)}) = {<<kind, topic>>}
  BY DEF Kinds, Change
<1> QED
  BY <1>1, <1>2

LEMMA KindsOfUnion ==
    ASSUME NEW s, NEW t
    PROVE  Kinds(s \cup t) = Kinds(s) \cup Kinds(t)
  BY DEF Kinds

\* A comparison that depends on a condition alone.
Single(s, kind, topic) == \E before, after : s = {Change(kind, topic, before, after)}

LEMMA KindsOfIf ==
    ASSUME NEW s, NEW t, NEW kind, NEW topic,
           (s = {} /\ t = {}) \/ (Single(s, kind, topic) /\ Single(t, kind, topic))
    PROVE  Kinds(s) = Kinds(t)
<1>1. ASSUME NEW r, Single(r, kind, topic) PROVE Kinds(r) = {<<kind, topic>>}
  BY <1>1, KindsOf DEF Single
<1> QED
  BY <1>1

\* The comparisons find the same kinds of change in versions that are the same.
LEMMA SameChanges ==
    ASSUME NEW d \in Seq(Lines), NEW e \in Seq(Lines), NEW old \in Seq(Lines), NEW new \in Seq(Lines),
           Same(d, old), Same(e, new), NEW kind, NEW topics
    PROVE  /\ Kinds(FieldChange(d, e, kind, topics)) = Kinds(FieldChange(old, new, kind, topics))
           /\ Kinds(TopicChange(d, e, kind, topics)) = Kinds(TopicChange(old, new, kind, topics))
           /\ Kinds(PatternChange(d, e, kind, topics)) = Kinds(PatternChange(old, new, kind, topics))
<1>1. Kinds(FieldChange(d, e, kind, topics)) = Kinds(FieldChange(old, new, kind, topics))
  <2> DEFINE p(x, y) == TextAt(x, FirstLine(x, {topics})) # TextAt(y, FirstLine(y, {topics}))
  <2>1. p(d, e) <=> p(old, new)
    <3>1. /\ TextAt(d, FirstLine(d, {topics})) = TextAt(old, FirstLine(old, {topics}))
          /\ TextAt(e, FirstLine(e, {topics})) = TextAt(new, FirstLine(new, {topics}))
      BY SameIs
    <3> QED
      BY <3>1
  <2>2. ASSUME NEW x, NEW y
        PROVE  /\ p(x, y) => Single(FieldChange(x, y, kind, topics), kind, topics)
               /\ ~p(x, y) => FieldChange(x, y, kind, topics) = {}
    BY DEF FieldChange, Single
  <2> HIDE DEF p
  <2>3. CASE p(d, e)
    BY <2>1, <2>2, <2>3, KindsOfIf
  <2>4. CASE ~p(d, e)
    BY <2>1, <2>2, <2>4
  <2> QED
    BY <2>3, <2>4
<1>2. Kinds(TopicChange(d, e, kind, topics)) = Kinds(TopicChange(old, new, kind, topics))
  <2> DEFINE p(x, y) == /\ FirstLine(x, topics) # 0 /\ FirstLine(y, topics) # 0
                        /\ x[FirstLine(x, topics)] # y[FirstLine(y, topics)]
  <2>1. p(d, e) <=> p(old, new)
    BY DEF Same
  <2>2. ASSUME NEW x, NEW y
        PROVE  /\ p(x, y) => Single(TopicChange(x, y, kind, topics), kind, "topic")
               /\ ~p(x, y) => TopicChange(x, y, kind, topics) = {}
    BY DEF TopicChange, Single
  <2> HIDE DEF p
  <2>3. CASE p(d, e)
    BY <2>1, <2>2, <2>3, KindsOfIf
  <2>4. CASE ~p(d, e)
    BY <2>1, <2>2, <2>4
  <2> QED
    BY <2>3, <2>4
<1>3. Kinds(PatternChange(d, e, kind, topics)) = Kinds(PatternChange(old, new, kind, topics))
  <2> DEFINE p(x, y) == ValuesIn(x, topics) # ValuesIn(y, topics)
  <2>1. p(d, e) <=> p(old, new)
    <3>1. ValuesIn(d, topics) = ValuesIn(old, topics) /\ ValuesIn(e, topics) = ValuesIn(new, topics)
      BY SameIs
    <3> QED
      BY <3>1
  <2>2. ASSUME NEW x, NEW y
        PROVE  /\ p(x, y) => Single(PatternChange(x, y, kind, topics), kind, "values")
               /\ ~p(x, y) => PatternChange(x, y, kind, topics) = {}
    BY DEF PatternChange, Single
  <2> HIDE DEF p
  <2>3. CASE p(d, e)
    BY <2>1, <2>2, <2>3, KindsOfIf
  <2>4. CASE ~p(d, e)
    BY <2>1, <2>2, <2>4
  <2> QED
    BY <2>3, <2>4
<1> QED
  BY <1>1, <1>2, <1>3

LEMMA SameStandardChanges ==
    ASSUME NEW d \in Seq(Lines), NEW e \in Seq(Lines), NEW old \in Seq(Lines), NEW new \in Seq(Lines),
           Same(d, old), Same(e, new)
    PROVE  Kinds(StandardChanges(d, e)) = Kinds(StandardChanges(old, new))
<1> DEFINE a1(x, y) == FieldChange(x, y, "changed_vote_date", "Meeting date:")
           a2(x, y) == FieldChange(x, y, "changed_procurement_state", "Action:")
           a3(x, y) == TopicChange(x, y, "changed_vote_date", {"finally passed:"})
           a4(x, y) == PatternChange(x, y, "changed_price", Prices)
           a5(x, y) == PatternChange(x, y, "changed_contract_duration", Durations)
           a6(x, y) == TopicChange(x, y, "changed_retention_provision",
                                   {"retention", "retain", "delete after"})
           a7(x, y) == TopicChange(x, y, "changed_data_sharing_provision",
                                   {"data sharing", "share data", "third-party access"})
           a8(x, y) == TopicChange(x, y, "changed_scope_or_quantity",
                                   {"camera", "drone", "license", "unit", "quantity"})
           a9(x, y) == TopicChange(x, y, "changed_vendor_or_subcontractor", VendorTerms)
<1>1. /\ \A kind, topics : Kinds(FieldChange(d, e, kind, topics)) = Kinds(FieldChange(old, new, kind, topics))
      /\ \A kind, topics : Kinds(TopicChange(d, e, kind, topics)) = Kinds(TopicChange(old, new, kind, topics))
      /\ \A kind, topics : Kinds(PatternChange(d, e, kind, topics)) = Kinds(PatternChange(old, new, kind, topics))
  BY SameChanges
<1>2. /\ Kinds(a1(d, e)) = Kinds(a1(old, new)) /\ Kinds(a2(d, e)) = Kinds(a2(old, new))
      /\ Kinds(a3(d, e)) = Kinds(a3(old, new)) /\ Kinds(a4(d, e)) = Kinds(a4(old, new))
      /\ Kinds(a5(d, e)) = Kinds(a5(old, new)) /\ Kinds(a6(d, e)) = Kinds(a6(old, new))
      /\ Kinds(a7(d, e)) = Kinds(a7(old, new)) /\ Kinds(a8(d, e)) = Kinds(a8(old, new))
      /\ Kinds(a9(d, e)) = Kinds(a9(old, new))
  BY <1>1
<1>3. ASSUME NEW x, NEW y
      PROVE  StandardChanges(x, y) = UNION {a1(x, y), a2(x, y), a3(x, y), a4(x, y), a5(x, y),
                                            a6(x, y), a7(x, y), a8(x, y), a9(x, y)}
  BY DEF StandardChanges
<1> HIDE DEF a1, a2, a3, a4, a5, a6, a7, a8, a9
<1>4. ASSUME NEW x, NEW y, NEW k
      PROVE  k \in Kinds(StandardChanges(x, y)) <=>
               \/ k \in Kinds(a1(x, y)) \/ k \in Kinds(a2(x, y)) \/ k \in Kinds(a3(x, y))
               \/ k \in Kinds(a4(x, y)) \/ k \in Kinds(a5(x, y)) \/ k \in Kinds(a6(x, y))
               \/ k \in Kinds(a7(x, y)) \/ k \in Kinds(a8(x, y)) \/ k \in Kinds(a9(x, y))
  BY <1>3 DEF Kinds
<1>5. \A k : k \in Kinds(StandardChanges(d, e)) <=> k \in Kinds(StandardChanges(old, new))
  BY <1>2, <1>4
<1> QED
  BY <1>5 DEF Kinds

LEMMA SameCompare ==
    ASSUME NEW d \in Seq(Lines), NEW e \in Seq(Lines), NEW old \in Seq(Lines), NEW new \in Seq(Lines),
           Same(d, old), Same(e, new)
    PROVE  Kinds(Compare(d, e)) = Kinds(Compare(old, new))
<1> DEFINE a(x, y) == IF (LinesWith(x, {"amendment"}) = {}) # (LinesWith(y, {"amendment"}) = {})
                      THEN {Change("new_contract_or_amendment", "amendment",
                                   FirstLine(x, {"amendment"}), FirstLine(y, {"amendment"}))}
                      ELSE {}
           T(x, y) == {t \in {"privacy", "retention", "data sharing", "shall not share"} :
                         LinesWith(x, {t}) # {} /\ LinesWith(y, {t}) = {}}
           b(x, y) == {Change("removed_relevant_language", t, FirstLine(x, {t}), 0) : t \in T(x, y)}
           c(x, y) == IF RulesNamed(y) \subseteq RulesNamed(x) THEN {}
                      ELSE {Change("new_surveillance_related_agenda_item", "term", 0,
                                   IF ScanText(y) = NoFinding THEN 0 ELSE FirstCite(ScanText(y)))}
<1>1. ASSUME NEW x, NEW y
      PROVE  Compare(x, y) = StandardChanges(x, y) \cup a(x, y) \cup b(x, y) \cup c(x, y)
  BY DEF Compare
<1>2. Kinds(a(d, e)) = Kinds(a(old, new))
  <2> DEFINE p(x, y) == (LinesWith(x, {"amendment"}) = {}) # (LinesWith(y, {"amendment"}) = {})
  <2>1. p(d, e) <=> p(old, new)
    <3>1. /\ LinesWith(d, {"amendment"}) = {} <=> LinesWith(old, {"amendment"}) = {}
          /\ LinesWith(e, {"amendment"}) = {} <=> LinesWith(new, {"amendment"}) = {}
      BY SameIs
    <3> QED
      BY <3>1
  <2>2. ASSUME NEW x, NEW y
        PROVE  /\ p(x, y) => Single(a(x, y), "new_contract_or_amendment", "amendment")
               /\ ~p(x, y) => a(x, y) = {}
    BY DEF Single
  <2> HIDE DEF a, p
  <2>3. CASE p(d, e)
    BY <2>1, <2>2, <2>3, KindsOfIf
  <2>4. CASE ~p(d, e)
    BY <2>1, <2>2, <2>4
  <2> QED
    BY <2>3, <2>4
<1>3. Kinds(b(d, e)) = Kinds(b(old, new))
  <2>1. T(d, e) = T(old, new)
    BY SameIs
  <2>2. ASSUME NEW x, NEW y
        PROVE  Kinds(b(x, y)) = {<<"removed_relevant_language", t>> : t \in T(x, y)}
    <3> DEFINE S == T(x, y)
               g(t) == Change("removed_relevant_language", t, FirstLine(x, {t}), 0)
    <3>1. b(x, y) = {g(t) : t \in S}
      OBVIOUS
    <3>2. \A t : <<g(t).kind, g(t).topic>> = <<"removed_relevant_language", t>>
      BY DEF Change
    <3> HIDE DEF b, S, g
    <3>3. \A k : k \in Kinds(b(x, y)) <=> \E t \in S : k = <<g(t).kind, g(t).topic>>
      BY <3>1 DEF Kinds
    <3>4. Kinds(b(x, y)) = {<<"removed_relevant_language", t>> : t \in S}
      <4>1. ASSUME NEW k
            PROVE  k \in Kinds(b(x, y)) <=> k \in {<<"removed_relevant_language", t>> : t \in S}
        <5>2. k \in Kinds(b(x, y)) <=> \E t \in S : k = <<g(t).kind, g(t).topic>>
          BY <3>3
        <5>1. k \in Kinds(b(x, y)) <=> \E t \in S : k = <<"removed_relevant_language", t>>
          BY <3>2, <5>2, Zenon
        <5> QED
          BY <5>1
      <4> QED
        BY <4>1 DEF Kinds
    <3> QED
      BY <3>4 DEF S
  <2> HIDE DEF b, T
  <2> QED
    BY <2>1, <2>2
<1>4. Kinds(c(d, e)) = Kinds(c(old, new))
  <2> DEFINE p(x, y) == ~(RulesNamed(y) \subseteq RulesNamed(x))
  <2>1. p(d, e) <=> p(old, new)
    <3>1. RulesNamed(d) = RulesNamed(old) /\ RulesNamed(e) = RulesNamed(new)
      BY SameIs
    <3> QED
      BY <3>1
  <2>2. ASSUME NEW x, NEW y
        PROVE  /\ p(x, y) => Single(c(x, y), "new_surveillance_related_agenda_item", "term")
               /\ ~p(x, y) => c(x, y) = {}
    BY DEF Single
  <2> HIDE DEF c, p
  <2>3. CASE p(d, e)
    BY <2>1, <2>2, <2>3, KindsOfIf
  <2>4. CASE ~p(d, e)
    BY <2>1, <2>2, <2>4
  <2> QED
    BY <2>3, <2>4
<1> HIDE DEF a, b, c
<1>5. ASSUME NEW x, NEW y
      PROVE  Kinds(Compare(x, y)) = Kinds(StandardChanges(x, y)) \cup Kinds(a(x, y))
                                      \cup Kinds(b(x, y)) \cup Kinds(c(x, y))
  <2> DEFINE s == StandardChanges(x, y)
             t == s \cup a(x, y)
             u == t \cup b(x, y)
  <2>1. Kinds(t) = Kinds(s) \cup Kinds(a(x, y))
    BY KindsOfUnion
  <2>2. Kinds(u) = Kinds(t) \cup Kinds(b(x, y))
    BY KindsOfUnion
  <2>3. Kinds(u \cup c(x, y)) = Kinds(u) \cup Kinds(c(x, y))
    BY KindsOfUnion
  <2>4. Compare(x, y) = u \cup c(x, y)
    BY <1>1
  <2> HIDE DEF s, t, u
  <2> QED
    BY <2>1, <2>2, <2>3, <2>4 DEF s
<1>6. Kinds(StandardChanges(d, e)) = Kinds(StandardChanges(old, new))
  BY SameStandardChanges
<1> QED
  BY <1>2, <1>3, <1>4, <1>5, <1>6

(***************************************************************************)
(* The commands.                                                           *)
(***************************************************************************)

\* A stored finding and alert are those of the version they are stored for.
Told(doc, f, a) ==
    \/ f = NoFinding /\ a = NoFinding
    \/ f = ScanText(doc) /\ f # NoFinding /\ a \in {NoFinding, AlertOf(f)}

ScanInv ==
    /\ \E F : findings \in Seq(F) /\ alerts \in Seq(F)
    /\ versions \in Seq(Seq(Lines)) /\ Len(versions) \in 1..2
    /\ Len(findings) = Len(versions) /\ Len(alerts) = Len(versions)
    /\ \A v \in 1..Len(versions) : Told(versions[v], findings[v], alerts[v])

\* A diff that reported something compared the two versions there are.
DiffInv ==
    diff # {} => \E old, new : /\ Len(versions) = 2 /\ old = versions[1] /\ new = versions[2]
                               /\ diff = Compare(old, new)

\* What is bound to the matter was extracted from a stored version.
BoundInv ==
    \/ bound = NoneBound /\ boundOf = 0
    \/ \E v \in 1..Len(versions) : \E doc : v = boundOf /\ doc = versions[v] /\ bound = Extract(doc, sourceType)

DetectInv == ScanInv /\ DiffInv /\ BoundInv

LEMMA DetectInit == Init => DetectInv
<1> SUFFICES ASSUME Init PROVE DetectInv
  OBVIOUS
<1>1. PICK d \in Documents : versions = <<d>>
  BY DEF Init
<1>2. d \in Seq(Lines)
  BY <1>1, BoundAssumption DEF Documents
<1>3. versions \in Seq(Seq(Lines)) /\ Len(versions) = 1
  BY <1>1, <1>2
<1>4. /\ findings = <<NoFinding>> /\ alerts = <<NoFinding>>
      /\ diff = {} /\ bound = NoneBound /\ boundOf = 0
  BY DEF Init
<1>5. /\ findings \in Seq({NoFinding}) /\ alerts \in Seq({NoFinding})
      /\ Len(findings) = 1 /\ Len(alerts) = 1 /\ findings[1] = NoFinding /\ alerts[1] = NoFinding
  BY <1>4
<1>6. ScanInv
  BY <1>3, <1>5 DEF ScanInv, Told
<1> QED
  BY <1>4, <1>6 DEF DetectInv, DiffInv, BoundInv

LEMMA SecondIs ==
    ASSUME NEW S, NEW s \in Seq(S), NEW x \in S, Len(s) = 1
    PROVE  /\ Append(s, x) \in Seq(S) /\ Len(Append(s, x)) = 2
           /\ Append(s, x)[1] = s[1] /\ Append(s, x)[2] = x
<1>1. Append(s, x) \in Seq(S) /\ Len(Append(s, x)) = 2
  <2>1. Append(s, x) \in Seq(S) /\ Len(Append(s, x)) = Len(s) + 1
    BY AppendProperties
  <2> QED
    BY <2>1
<1>2. Append(s, x)[1] = s[1]
  OBVIOUS
<1>3. Append(s, x)[2] = x
  <2>1. Append(s, x)[Len(s) + 1] = x
    BY AppendProperties
  <2>2. Len(s) + 1 = 2
    OBVIOUS
  <2> QED
    BY <2>1, <2>2
<1> QED
  BY <1>1, <1>2, <1>3

\* The source serves sequences of its lines.
LEMMA RevisionsAre ==
    ASSUME NEW doc \in Seq(Lines), NEW d \in Revisions(doc)
    PROVE  d \in Seq(Lines)
<1>1. Len(doc) \in Nat /\ DOMAIN doc = 1..Len(doc) /\ \A i \in 1..Len(doc) : doc[i] \in Lines
  OBVIOUS
<1>2. ASSUME NEW i \in Int, NEW k \in Int, 1 <= i, k <= Len(doc)
      PROVE  SubSeq(doc, i, k) \in Seq(Lines)
  <2>1. \A j \in i..k : doc[j] \in Lines
    BY <1>1, <1>2
  <2> QED
    BY <2>1, SubSeqProperties
<1> DEFINE removed == {RemoveAt(doc, i) : i \in DOMAIN doc}
           replaced == {[doc EXCEPT ![i] = l] : i \in DOMAIN doc, l \in Lines}
           added == {InsertAt(doc, i, l) : i \in 1..(Len(doc) + 1), l \in Lines}
<1>6. d \in removed \/ d \in replaced \/ d \in added
  BY DEF Revisions
<1>3. CASE d \in removed
  <2>1. PICK i \in DOMAIN doc : d = RemoveAt(doc, i)
    BY <1>3
  <2>2. SubSeq(doc, 1, i - 1) \in Seq(Lines) /\ SubSeq(doc, i + 1, Len(doc)) \in Seq(Lines)
    <3>1. /\ i \in Int /\ i - 1 \in Int /\ i + 1 \in Int /\ Len(doc) \in Int
          /\ i - 1 <= Len(doc) /\ 1 <= i + 1 /\ Len(doc) <= Len(doc)
      BY <1>1
    <3> QED
      BY <1>2, <3>1
  <2> QED
    BY <2>1, <2>2 DEF RemoveAt
<1>4. CASE d \in replaced
  BY <1>4
<1>5. CASE d \in added
  <2>1. PICK i \in 1..(Len(doc) + 1), l \in Lines : d = InsertAt(doc, i, l)
    BY <1>5
  <2>2. SubSeq(doc, 1, i - 1) \in Seq(Lines) /\ SubSeq(doc, i, Len(doc)) \in Seq(Lines)
    <3>1. /\ i \in Int /\ i - 1 \in Int /\ Len(doc) \in Int
          /\ i - 1 <= Len(doc) /\ 1 <= i /\ Len(doc) <= Len(doc)
      BY <1>1
    <3> QED
      BY <1>2, <3>1
  <2>3. <<l>> \in Seq(Lines)
    OBVIOUS
  <2> QED
    BY <2>1, <2>2, <2>3 DEF InsertAt
<1> HIDE DEF removed, replaced, added
<1> QED
  BY <1>3, <1>4, <1>5, <1>6

LEMMA DetectNext == DetectInv /\ [Next]_vars => DetectInv'
<1> SUFFICES ASSUME DetectInv, [Next]_vars PROVE DetectInv'
  OBVIOUS
<1>1. PICK F : findings \in Seq(F) /\ alerts \in Seq(F)
  BY DEF DetectInv, ScanInv
<1>2. /\ versions \in Seq(Seq(Lines)) /\ Len(versions) \in 1..2
      /\ Len(findings) = Len(versions) /\ Len(alerts) = Len(versions)
      /\ \A v \in 1..Len(versions) : Told(versions[v], findings[v], alerts[v])
  BY DEF DetectInv, ScanInv
<1>3. CASE Supersede
  <2>1. PICK d \in Revisions(versions[1]) : versions' = Append(versions, d)
    BY <1>3 DEF Supersede
  <2>2. /\ Len(versions) = 1 /\ findings' = Append(findings, NoFinding)
        /\ alerts' = Append(alerts, NoFinding)
        /\ sourceType' = sourceType /\ diff' = diff /\ bound' = bound /\ boundOf' = boundOf
    BY <1>3 DEF Supersede
  <2>3. d \in Seq(Lines)
    <3>1. versions[1] \in Seq(Lines)
      BY <1>2
    <3> QED
      BY <3>1, RevisionsAre
  <2>4. /\ versions' \in Seq(Seq(Lines)) /\ Len(versions') = 2 /\ versions'[1] = versions[1]
    BY <1>2, <2>1, <2>2, <2>3, SecondIs
  <2>5. /\ findings' \in Seq(F \cup {NoFinding}) /\ alerts' \in Seq(F \cup {NoFinding})
        /\ Len(findings') = 2 /\ Len(alerts') = 2
        /\ findings'[1] = findings[1] /\ alerts'[1] = alerts[1]
        /\ findings'[2] = NoFinding /\ alerts'[2] = NoFinding
    <3>1. findings \in Seq(F \cup {NoFinding}) /\ alerts \in Seq(F \cup {NoFinding})
      BY <1>1
    <3>2. Len(findings) = 1 /\ Len(alerts) = 1
      BY <1>2, <2>2
    <3>3. NoFinding \in F \cup {NoFinding}
      OBVIOUS
    <3> HIDE DEF NoFinding
    <3> QED
      BY <2>2, <3>1, <3>2, <3>3, SecondIs
  <2>6. ASSUME NEW v \in 1..2 PROVE Told(versions'[v], findings'[v], alerts'[v])
    <3>1. CASE v = 1
      BY <1>2, <2>2, <2>4, <2>5, <3>1
    <3>2. CASE v = 2
      BY <2>5, <3>2 DEF Told
    <3> QED
      BY <3>1, <3>2
  <2>7. ScanInv'
    BY <2>4, <2>5, <2>6 DEF ScanInv
  <2>8. DiffInv'
    <3>1. diff = {}
      BY <2>2 DEF DetectInv, DiffInv
    <3> QED
      BY <2>2, <3>1 DEF DiffInv
  <2>9. BoundInv'
    <3>1. CASE bound = NoneBound /\ boundOf = 0
      BY <2>2, <3>1 DEF BoundInv
    <3>2. CASE ~(bound = NoneBound /\ boundOf = 0)
      <4>1. PICK v \in 1..Len(versions) : \E doc : v = boundOf /\ doc = versions[v] /\ bound = Extract(doc, sourceType)
        BY <3>2 DEF DetectInv, BoundInv
      <4>2. v = 1 /\ v \in 1..Len(versions') /\ versions'[v] = versions[v]
        BY <2>2, <2>4
      <4> QED
        BY <2>2, <4>1, <4>2 DEF BoundInv
    <3> QED
      BY <3>1, <3>2
  <2> QED
    BY <2>7, <2>8, <2>9 DEF DetectInv
<1>4. CASE ScanAll
  <2>1. PICK v \in DOMAIN versions : InsertFinding(v) \/ InsertAlert(v)
    BY <1>4 DEF ScanAll
  <2>2. /\ versions' = versions /\ sourceType' = sourceType /\ diff' = diff
        /\ bound' = bound /\ boundOf' = boundOf
    BY <2>1 DEF InsertFinding, InsertAlert
  <2>3. PICK doc, f, a : doc = versions[v] /\ f = findings[v] /\ a = alerts[v] /\ Told(doc, f, a)
    BY <1>2
  <2>4. PICK g, b : /\ findings' = [findings EXCEPT ![v] = g] /\ alerts' = [alerts EXCEPT ![v] = b]
                    /\ Told(doc, g, b)
    <3>1. CASE InsertFinding(v)
      <4>1. /\ findings' = [findings EXCEPT ![v] = ScanText(doc)] /\ alerts' = alerts
            /\ f = NoFinding /\ ScanText(doc) # NoFinding
        BY <2>3, <3>1 DEF InsertFinding
      <4>2. a = NoFinding
        BY <2>3, <4>1 DEF Told
      <4>3. alerts' = [alerts EXCEPT ![v] = a]
        BY <1>1, <2>3, <4>1
      <4>4. Told(doc, ScanText(doc), a)
        BY <4>1, <4>2 DEF Told
      <4> QED
        BY <4>1, <4>3, <4>4
    <3>2. CASE InsertAlert(v)
      <4>1. /\ alerts' = [alerts EXCEPT ![v] = AlertOf(ScanText(doc))] /\ findings' = findings
            /\ f # NoFinding
        BY <2>3, <3>2 DEF InsertAlert
      <4>2. f = ScanText(doc)
        BY <2>3, <4>1 DEF Told
      <4>3. findings' = [findings EXCEPT ![v] = f]
        BY <1>1, <2>3, <4>1
      <4>4. Told(doc, f, AlertOf(ScanText(doc)))
        BY <4>1, <4>2 DEF Told
      <4> QED
        BY <4>1, <4>3, <4>4
    <3> QED
      BY <2>1, <3>1, <3>2
  <2>5. DOMAIN versions = 1..Len(versions) /\ v \in 1..Len(versions)
    BY <1>2
  <2>6. /\ findings' \in Seq(F \cup {g, b}) /\ alerts' \in Seq(F \cup {g, b})
        /\ Len(findings') = Len(versions) /\ Len(alerts') = Len(versions)
        /\ findings'[v] = g /\ alerts'[v] = b
        /\ \A w \in 1..Len(versions) : w # v => findings'[w] = findings[w] /\ alerts'[w] = alerts[w]
    BY <1>1, <1>2, <2>4, <2>5
  <2>7. \A w \in 1..Len(versions) : Told(versions[w], findings'[w], alerts'[w])
    BY <1>2, <2>3, <2>4, <2>6
  <2>8. ScanInv'
    BY <1>2, <2>2, <2>6, <2>7 DEF ScanInv
  <2>9. DiffInv' /\ BoundInv'
    BY <2>2 DEF DetectInv, DiffInv, BoundInv
  <2> QED
    BY <2>8, <2>9 DEF DetectInv
<1>5. CASE PrintDiff
  <2>1. /\ Len(versions) = 2 /\ diff' = Compare(versions[1], versions[2])
        /\ UNCHANGED <<versions, sourceType, findings, alerts, bound, boundOf>>
    BY <1>5 DEF PrintDiff
  <2>2. ScanInv' /\ BoundInv'
    BY <2>1 DEF DetectInv, ScanInv, BoundInv
  <2>3. DiffInv'
    <3>1. PICK old, new : old = versions[1] /\ new = versions[2]
      OBVIOUS
    <3>2. Len(versions') = 2 /\ old = versions'[1] /\ new = versions'[2] /\ diff' = Compare(old, new)
      BY <2>1, <3>1
    <3> QED
      BY <3>2 DEF DiffInv
  <2> QED
    BY <2>2, <2>3 DEF DetectInv
<1>6. CASE BindMatter
  <2>1. /\ bound' = Extract(versions[Len(versions)], sourceType) /\ boundOf' = Len(versions)
        /\ UNCHANGED <<versions, sourceType, findings, alerts, diff>>
    BY <1>6 DEF BindMatter
  <2>2. ScanInv' /\ DiffInv'
    BY <2>1 DEF DetectInv, ScanInv, DiffInv
  <2>3. BoundInv'
    <3>1. PICK v, doc : v = Len(versions) /\ doc = versions[v]
      OBVIOUS
    <3>2. /\ v \in 1..Len(versions') /\ v = boundOf'
          /\ doc = versions'[v] /\ bound' = Extract(doc, sourceType')
      BY <1>2, <2>1, <3>1
    <3> QED
      BY <3>2 DEF BoundInv
  <2> QED
    BY <2>2, <2>3 DEF DetectInv
<1>7. CASE UNCHANGED vars
  BY <1>7 DEF DetectInv, ScanInv, DiffInv, BoundInv, vars
<1> QED
  BY <1>3, <1>4, <1>5, <1>6, <1>7 DEF Next

LEMMA DetectIsInvariant == Spec => []DetectInv
<1>1. Init => DetectInv
  BY DetectInit
<1>2. DetectInv /\ [Next]_vars => DetectInv'
  BY DetectNext
<1> QED
  BY <1>1, <1>2, PTL DEF Spec

\* A stored finding with its version and alert.
LEMMA ToldOf ==
    ASSUME DetectInv, NEW v \in DOMAIN versions, findings[v] # NoFinding
    PROVE  \E doc, f, a : /\ doc = versions[v] /\ f = findings[v] /\ a = alerts[v]
                          /\ doc \in Seq(Lines) /\ f = ScanText(doc) /\ f # NoFinding
                          /\ a \in {NoFinding, AlertOf(f)}
<1>1. v \in 1..Len(versions) /\ versions[v] \in Seq(Lines) /\ Told(versions[v], findings[v], alerts[v])
  BY DEF DetectInv, ScanInv
<1> QED
  BY <1>1 DEF Told

\* `pnull scan` reports a rule if and only if some line of the text is
\* evidence for it, and the alert quotes such a line for every rule.
THEOREM FindingsAreCited == Spec => []MatchesAreCited
<1>1. DetectInv => MatchesAreCited
  <2> SUFFICES ASSUME DetectInv, NEW v \in DOMAIN versions, findings[v] # NoFinding
               PROVE  /\ findings[v].matched =
                           {r \in Rules : \E i \in DOMAIN versions[v] : Evidences(versions[v][i], r)}
                      /\ alerts[v] # NoFinding =>
                           \A r \in findings[v].matched :
                              \E i \in alerts[v].cites : Evidences(versions[v][i], r)
    BY DEF MatchesAreCited
  <2>1. PICK doc, f, a : /\ doc = versions[v] /\ f = findings[v] /\ a = alerts[v]
                         /\ doc \in Seq(Lines) /\ f = ScanText(doc) /\ f # NoFinding
                         /\ a \in {NoFinding, AlertOf(f)}
    BY ToldOf
  <2> QED
    BY <2>1, FindingIsCited
<1> QED
  BY <1>1, DetectIsInvariant, PTL

\* classify_document asserts a state only where the context of a cited term
\* or an Action: field says so undenied, the alert quotes that line, and the
\* context supports no other state.
THEOREM AssertedStatesAreSupported == Spec => []StatesAreSupported
<1>1. DetectInv => StatesAreSupported
  <2> SUFFICES ASSUME DetectInv, NEW v \in DOMAIN versions, findings[v] # NoFinding,
                      findings[v].state \in DOMAIN StatePhrases
               PROVE  /\ findings[v].stateLine \in Context(versions[v], findings[v].terms)
                      /\ alerts[v] # NoFinding => findings[v].stateLine \in alerts[v].cites
                      /\ Supports(versions[v][findings[v].stateLine], findings[v].state)
                      /\ \A i \in Context(versions[v], findings[v].terms), s \in DOMAIN StatePhrases :
                           Supports(versions[v][i], s) => s = findings[v].state
    BY DEF StatesAreSupported, Context
  <2>1. PICK doc, f, a : /\ doc = versions[v] /\ f = findings[v] /\ a = alerts[v]
                         /\ doc \in Seq(Lines) /\ f = ScanText(doc) /\ f # NoFinding
                         /\ a \in {NoFinding, AlertOf(f)}
    BY ToldOf
  <2>2. /\ f.stateLine \in Context(doc, f.terms) \cap AlertOf(f).cites
        /\ Supports(doc[f.stateLine], f.state)
        /\ \A i \in Context(doc, f.terms), s \in DOMAIN StatePhrases :
             Supports(doc[i], s) => s = f.state
    BY <2>1, StateIsSupported
  <2> QED
    BY <2>1, <2>2
<1> QED
  BY <1>1, DetectIsInvariant, PTL

\* `pnull diff` reports the kinds of change it would report of the two
\* versions with every line taken out that says nothing it looks for.
THEOREM IrrelevantLinesAreIgnored == Spec => []OnlyRelevantLinesMatter
<1>1. DetectInv => OnlyRelevantLinesMatter
  <2> SUFFICES ASSUME DetectInv, diff # {}
               PROVE  Kinds(diff) = Kinds(Compare(Relevant(versions[1]), Relevant(versions[2])))
    BY DEF OnlyRelevantLinesMatter, Kinds
  <2>1. PICK old, new : /\ Len(versions) = 2 /\ old = versions[1] /\ new = versions[2]
                        /\ diff = Compare(old, new)
    BY DEF DetectInv, DiffInv
  <2>2. old \in Seq(Lines) /\ new \in Seq(Lines)
    BY <2>1 DEF DetectInv, ScanInv
  <2>3. Relevant(old) \in Seq(Lines) /\ Relevant(new) \in Seq(Lines)
    BY <2>2, KeptSees DEF Sees
  <2>4. Same(old, Relevant(old)) /\ Same(new, Relevant(new))
    BY <2>2, RelevantIsSame
  <2>5. Kinds(Compare(old, new)) = Kinds(Compare(Relevant(old), Relevant(new)))
    BY <2>2, <2>3, <2>4, SameCompare
  <2> QED
    BY <2>1, <2>5
<1> QED
  BY <1>1, DetectIsInvariant, PTL

\* Where classify_document finds an approval or a rejection in the context of a
\* term, classify_matter_actions, which reads the whole text, gives the matter
\* that outcome or none.
THEOREM AlertsAndMattersAgree == Spec => []ReadingsAgree
<1>1. DetectInv => ReadingsAgree
  <2> SUFFICES ASSUME DetectInv, NEW v \in DOMAIN versions, boundOf = v,
                      findings[v] # NoFinding, findings[v].state \in {"Approved", "Rejected"},
                      NEW b \in bound.actions, b[1] = "primary"
               PROVE  b[2] = findings[v].state
    BY DEF ReadingsAgree
  <2>1. PICK doc, f, a : /\ doc = versions[v] /\ f = findings[v] /\ a = alerts[v]
                         /\ doc \in Seq(Lines) /\ f = ScanText(doc) /\ f # NoFinding
                         /\ a \in {NoFinding, AlertOf(f)}
    BY ToldOf
  <2>2. f.state \in DOMAIN StatePhrases
    BY <2>1, StatesAre
  <2>3. /\ f.stateLine \in Context(doc, f.terms)
        /\ Supports(doc[f.stateLine], f.state)
    BY <2>1, <2>2, StateIsSupported
  <2>4. Undenied(doc, f.state)
    BY <2>3 DEF Undenied, Context
  <2>5. bound = Extract(doc, sourceType)
    <3>1. v \in Nat \ {0}
      BY DEF DetectInv, ScanInv
    <3> QED
      BY <2>1, <3>1 DEF DetectInv, BoundInv
  <2>6. b[2] \in MatterActions(doc)
    BY <2>5, PrimaryActionsAre
  <2> QED
    BY <2>1, <2>4, <2>6, MatterFollows
<1> QED
  BY <1>1, DetectIsInvariant, PTL

(***************************************************************************)
(* The stream of words and the whole words of the page.                    *)
(***************************************************************************)

Text == Seq(STRING)
PlacedWord == [text : Text, rect : [x : Int \X Int, y : Int \X Int]]

\* What Joined defines recursively, up to the n-th word.
Joins(f, words, n) ==
    f = [i \in 0..n |-> IF i = 0 THEN <<>> ELSE Join(f[i - 1], words[i])]

LEMMA JoinsExists ==
    ASSUME NEW words, NEW n \in Nat
    PROVE  \E f : Joins(f, words, n)
<1> DEFINE A == {k \in Nat : ~ \E f : Joins(f, words, k)}
<1>1. SUFFICES ASSUME A # {} PROVE FALSE
  OBVIOUS
<1>2. PICK m \in A : \A k \in A : m <= k
  BY <1>1, LeastOfNat
<1>3. m # 0
  <2>1. Joins([i \in 0..0 |-> <<>>], words, 0)
    BY DEF Joins
  <2> QED
    BY <2>1
<1>4. PICK g : Joins(g, words, m - 1)
  <2>1. m - 1 \in Nat /\ m - 1 \notin A
    BY <1>2, <1>3
  <2> QED
    BY <2>1
<1> DEFINE Next1(h, i) == IF i = 0 THEN <<>> ELSE Join(h[i - 1], words[i])
           f == [i \in 0..m |-> IF i < m THEN g[i] ELSE Next1(g, m)]
<1>5. ASSUME NEW i \in 0..m
      PROVE  f[i] = Next1(f, i)
  <2>1. CASE i < m
    <3>1. f[i] = g[i] /\ (i # 0 => f[i - 1] = g[i - 1])
      BY <2>1
    <3>2. i \in 0..(m - 1)
      BY <2>1
    <3>3. \A k \in 0..(m - 1) : g[k] = Next1(g, k)
      BY <1>4 DEF Joins
    <3> HIDE DEF f
    <3> QED
      BY <3>1, <3>2, <3>3
  <2>2. CASE i = m
    <3>1. f[i - 1] = g[i - 1] /\ f[i] = Next1(g, m)
      BY <1>3, <2>2
    <3> HIDE DEF f
    <3> QED
      BY <2>2, <3>1
  <2> QED
    BY <2>1, <2>2
<1>6. f = [i \in 0..m |-> f[i]]
  OBVIOUS
<1> HIDE DEF f
<1>7. Joins(f, words, m)
  BY <1>5, <1>6 DEF Joins
<1> QED
  BY <1>7

LEMMA JoinedIs ==
    ASSUME NEW words, Len(words) \in Nat
    PROVE  \E f : Joins(f, words, Len(words)) /\ Joined(words) = f[Len(words)]
<1> DEFINE g == CHOOSE f : f = [n \in 0..Len(words) |-> IF n = 0 THEN <<>> ELSE Join(f[n - 1], words[n])]
<1>1. Joined(words) = g[Len(words)]
  BY DEF Joined
<1>2. \E f : f = [n \in 0..Len(words) |-> IF n = 0 THEN <<>> ELSE Join(f[n - 1], words[n])]
  BY JoinsExists DEF Joins
<1>3. Joins(g, words, Len(words))
  BY <1>2 DEF Joins
<1> QED
  BY <1>1, <1>3

\* What Spelled defines recursively.
Spells(f, words, a, b) ==
    f = [n \in a..b |-> IF n = a THEN words[a].text
                        ELSE IF words[n].text = <<>> THEN f[n - 1]
                        ELSE Front(f[n - 1]) \o words[n].text]

LEMMA SpellsExists ==
    ASSUME NEW words, NEW a \in Nat, NEW n \in Nat
    PROVE  \E f : Spells(f, words, a, a + n)
<1> DEFINE A == {k \in Nat : ~ \E f : Spells(f, words, a, a + k)}
<1>1. SUFFICES ASSUME A # {} PROVE FALSE
  OBVIOUS
<1>2. PICK m \in A : \A k \in A : m <= k
  BY <1>1, LeastOfNat
<1> DEFINE Next1(h, i) == IF i = a THEN words[a].text
                          ELSE IF words[i].text = <<>> THEN h[i - 1]
                          ELSE Front(h[i - 1]) \o words[i].text
<1>3. m # 0
  <2> DEFINE f == [i \in a..(a + 0) |-> words[a].text]
  <2>1. f = [i \in a..(a + 0) |-> Next1(f, i)]
    BY a..(a + 0) = {a}
  <2>2. Spells(f, words, a, a + 0)
    BY <2>1 DEF Spells
  <2> QED
    BY <2>2
<1>4. PICK g : Spells(g, words, a, a + (m - 1))
  <2>1. m - 1 \in Nat /\ m - 1 \notin A
    BY <1>2, <1>3
  <2> QED
    BY <2>1
<1> DEFINE f == [i \in a..(a + m) |-> IF i < a + m THEN g[i] ELSE Next1(g, a + m)]
<1>5. ASSUME NEW i \in a..(a + m)
      PROVE  f[i] = Next1(f, i)
  <2>1. CASE i < a + m
    <3>1. f[i] = g[i] /\ (i # a => f[i - 1] = g[i - 1])
      BY <2>1
    <3>2. i \in a..(a + (m - 1))
      BY <2>1
    <3>3. \A k \in a..(a + (m - 1)) : g[k] = Next1(g, k)
      BY <1>4 DEF Spells
    <3> HIDE DEF f
    <3> QED
      BY <3>1, <3>2, <3>3
  <2>2. CASE i = a + m
    <3>1. f[i - 1] = g[i - 1] /\ f[i] = Next1(g, a + m)
      BY <1>3, <2>2
    <3> HIDE DEF f
    <3> QED
      BY <2>2, <3>1
  <2> QED
    BY <2>1, <2>2
<1>6. f = [i \in a..(a + m) |-> f[i]]
  OBVIOUS
<1> HIDE DEF f
<1>7. Spells(f, words, a, a + m)
  BY <1>5, <1>6 DEF Spells
<1> QED
  BY <1>7

LEMMA SpelledIs ==
    ASSUME NEW words, NEW a \in Nat, NEW b \in Nat, a <= b
    PROVE  \E f : Spells(f, words, a, b) /\ Spelled(words, a, b) = f[b]
<1> DEFINE g == CHOOSE f : f = [n \in a..b |-> IF n = a THEN words[a].text
                                               ELSE IF words[n].text = <<>> THEN f[n - 1]
                                               ELSE Front(f[n - 1]) \o words[n].text]
<1>1. Spelled(words, a, b) = g[b]
  BY DEF Spelled
<1>2. b - a \in Nat /\ a + (b - a) = b
  OBVIOUS
<1>3. \E f : Spells(f, words, a, b)
  BY <1>2, SpellsExists
<1>4. Spells(g, words, a, b)
  BY <1>3 DEF Spells
<1> QED
  BY <1>1, <1>4

\* The spelling of a stretch is the beginning of the spelling of a longer one.
LEMMA SpellingsAgree ==
    ASSUME NEW words, NEW a \in Nat, NEW b \in Nat, NEW c \in Nat, b <= c, a <= b,
           NEW f, NEW g, Spells(f, words, a, b), Spells(g, words, a, c)
    PROVE  f[b] = g[b]
<1> DEFINE A == {k \in Nat : k \in a..b /\ f[k] # g[k]}
<1>1. SUFFICES ASSUME A # {} PROVE FALSE
  <2>1. b \in Nat /\ b \in a..b
    OBVIOUS
  <2> QED
    BY <2>1
<1>2. PICK m \in A : \A k \in A : m <= k
  BY <1>1, LeastOfNat
<1> DEFINE Next1(h, i) == IF i = a THEN words[a].text
                          ELSE IF words[i].text = <<>> THEN h[i - 1]
                          ELSE Front(h[i - 1]) \o words[i].text
<1>3. f[m] = Next1(f, m) /\ g[m] = Next1(g, m)
  <2>1. m \in a..b /\ m \in a..c
    BY <1>2
  <2> QED
    BY <2>1 DEF Spells
<1>4. CASE m = a
  BY <1>2, <1>3, <1>4
<1>5. CASE m # a
  <2>1. m - 1 \in Nat /\ m - 1 \in a..b /\ m - 1 \notin A
    BY <1>2, <1>5
  <2>2. f[m - 1] = g[m - 1]
    BY <2>1
  <2> QED
    BY <1>2, <1>3, <1>5, <2>2
<1> QED
  BY <1>4, <1>5

LEMMA SpelledOne ==
    ASSUME NEW words, NEW a \in Nat
    PROVE  Spelled(words, a, a) = words[a].text
<1>1. PICK f : Spells(f, words, a, a) /\ Spelled(words, a, a) = f[a]
  BY SpelledIs
<1> QED
  BY <1>1 DEF Spells

LEMMA SpelledNext ==
    ASSUME NEW words, NEW a \in Nat, NEW b \in Nat, a <= b
    PROVE  Spelled(words, a, b + 1) =
             IF words[b + 1].text = <<>> THEN Spelled(words, a, b)
             ELSE Front(Spelled(words, a, b)) \o words[b + 1].text
<1>1. PICK f : Spells(f, words, a, b) /\ Spelled(words, a, b) = f[b]
  BY SpelledIs
<1>2. PICK g : Spells(g, words, a, b + 1) /\ Spelled(words, a, b + 1) = g[b + 1]
  BY SpelledIs
<1>3. f[b] = g[b]
  BY <1>1, <1>2, SpellingsAgree, b + 1 \in Nat, b <= b + 1
<1>4. g[b + 1] = IF words[b + 1].text = <<>> THEN g[b] ELSE Front(g[b]) \o words[b + 1].text
  <2>1. b + 1 \in a..(b + 1) /\ b + 1 # a /\ (b + 1) - 1 = b
    OBVIOUS
  <2> QED
    BY <1>2, <2>1 DEF Spells
<1> QED
  BY <1>1, <1>2, <1>3, <1>4

LEMMA FrontLast ==
    ASSUME NEW S, NEW s \in Seq(S), s # <<>>
    PROVE  /\ Front(s) \in Seq(S) /\ Len(Front(s)) = Len(s) - 1
           /\ \A i \in 1..(Len(s) - 1) : Front(s)[i] = s[i]
           /\ Last(s) = s[Len(s)] /\ Last(s) \in S /\ Len(s) \in Nat \ {0}
<1>1. Len(s) \in Nat \ {0} /\ \A i \in 1..Len(s) : s[i] \in S
  BY EmptySeq, LenProperties, ElementOfSeq
<1>2. /\ SubSeq(s, 1, Len(s) - 1) \in Seq(S)
      /\ Len(SubSeq(s, 1, Len(s) - 1)) = IF 1 <= Len(s) - 1 THEN (Len(s) - 1) - 1 + 1 ELSE 0
      /\ \A i \in 1..((Len(s) - 1) - 1 + 1) : SubSeq(s, 1, Len(s) - 1)[i] = s[1 + i - 1]
  <2>1. 1 \in Int /\ Len(s) - 1 \in Int /\ \A i \in 1..(Len(s) - 1) : s[i] \in S
    BY <1>1
  <2> QED
    BY <2>1, SubSeqProperties
<1>3. /\ Front(s) \in Seq(S) /\ Len(Front(s)) = Len(s) - 1
      /\ \A i \in 1..(Len(s) - 1) : Front(s)[i] = s[i]
  <2> DEFINE r == SubSeq(s, 1, Len(s) - 1)
  <2>1. Front(s) = r
    BY DEF Front
  <2>2. r \in Seq(S) /\ Len(r) = Len(s) - 1 /\ \A i \in 1..(Len(s) - 1) : r[i] = s[i]
    <3>0. ASSUME NEW l \in Nat \ {0}
          PROVE  /\ (l - 1) - 1 + 1 = l - 1
                 /\ (IF 1 <= l - 1 THEN (l - 1) - 1 + 1 ELSE 0) = l - 1
      OBVIOUS
    <3>2. \A i \in 1..(Len(s) - 1) : 1 + i - 1 = i
      OBVIOUS
    <3>1. /\ (Len(s) - 1) - 1 + 1 = Len(s) - 1
          /\ (IF 1 <= Len(s) - 1 THEN (Len(s) - 1) - 1 + 1 ELSE 0) = Len(s) - 1
      BY <1>1, <3>0
    <3> HIDE DEF r
    <3> QED
      BY <1>2, <3>1, <3>2 DEF r
  <2> HIDE DEF r
  <2> QED
    BY <2>1, <2>2
<1> QED
  BY <1>1, <1>3 DEF Last

LEMMA HyphenOfJoined ==
    ASSUME NEW s \in Text, NEW x \in Text, x # <<>>
    PROVE  /\ s \o x \in Text /\ s \o x # <<>>
           /\ EndsInHyphen(s \o x) <=> EndsInHyphen(x)
<1>1. /\ s \o x \in Text /\ Len(s \o x) = Len(s) + Len(x)
      /\ \A i \in 1..(Len(s) + Len(x)) : (s \o x)[i] = IF i <= Len(s) THEN s[i] ELSE x[i - Len(s)]
  BY ConcatProperties DEF Text
<1>2. Len(x) \in Nat \ {0} /\ Len(s) \in Nat
  BY EmptySeq, LenProperties DEF Text
<1>3. s \o x # <<>>
  BY <1>1, <1>2, EmptySeq
<1>4. (s \o x)[Len(s \o x)] = x[Len(x)]
  BY <1>1, <1>2
<1> QED
  BY <1>1, <1>3, <1>4 DEF EndsInHyphen, Last

LEMMA ContinueIs ==
    ASSUME NEW before \in PlacedWord, NEW word \in PlacedWord, before.text # <<>>, word.text # <<>>
    PROVE  /\ Continue(before, word) \in PlacedWord
           /\ Continue(before, word).text = Front(before.text) \o word.text
           /\ EndsInHyphen(Continue(before, word).text) <=> EndsInHyphen(word.text)
<1>1. before.text \in Text /\ word.text \in Text
  BY DEF PlacedWord
<1>2. Front(before.text) \in Text
  BY <1>1, FrontLast DEF Text
<1>3. Continue(before, word).text = Front(before.text) \o word.text
  BY DEF Continue, JoinedText
<1>4. Continue(before, word).text \in Text
  BY <1>1, <1>2, <1>3, HyphenOfJoined
<1>5. EndsInHyphen(Continue(before, word).text) <=> EndsInHyphen(word.text)
  BY <1>1, <1>2, <1>3, HyphenOfJoined
<1>6. Continue(before, word) \in PlacedWord
  <2>1. /\ before.rect.x[1] \in Int /\ before.rect.x[2] \in Int
        /\ before.rect.y[1] \in Int /\ before.rect.y[2] \in Int
        /\ word.rect.x[2] \in Int /\ word.rect.y[1] \in Int /\ word.rect.y[2] \in Int
    BY DEF PlacedWord
  <2>2. \A a \in Int, b \in Int : Upper(a, b) \in Int /\ Lower(a, b) \in Int
    BY DEF Upper, Lower
  <2>3. Upper(before.rect.x[2], word.rect.x[2]) \in Int /\ Lower(before.rect.y[1], word.rect.y[1]) \in Int
        /\ Upper(before.rect.y[2], word.rect.y[2]) \in Int
    BY <2>1, <2>2
  <2> DEFINE text == JoinedText(before, word)
             x == <<before.rect.x[1], Upper(before.rect.x[2], word.rect.x[2])>>
             y == <<Lower(before.rect.y[1], word.rect.y[1]), Upper(before.rect.y[2], word.rect.y[2])>>
  <2>4. x \in Int \X Int /\ y \in Int \X Int
    BY <2>1, <2>3
  <2>5. text \in Text
    BY <1>3, <1>4 DEF JoinedText
  <2>6. Continue(before, word) = [text |-> text, rect |-> [x |-> x, y |-> y]]
    BY DEF Continue
  <2> HIDE DEF text, x, y
  <2> QED
    BY <2>4, <2>5, <2>6 DEF PlacedWord
<1> QED
  BY <1>3, <1>5, <1>6

\* first and last say where in the first n words each word of the stream was
\* printed: in order, all of them, connected by breaks and only by breaks.
Stretches(words, n, stream, first, last) ==
    /\ stream \in Seq(PlacedWord)
    /\ first \in [1..Len(stream) -> 1..n] /\ last \in [1..Len(stream) -> 1..n]
    /\ \A i \in 1..Len(stream) :
         first[i] <= last[i] /\ words[first[i]].text # <<>> /\ words[last[i]].text # <<>>
    /\ \A i \in 1..Len(stream), k \in 1..n :
         first[i] <= k /\ k < last[i] /\ words[k].text # <<>> => Broken(words, k)
    /\ \A i, j \in 1..Len(stream) : i < j => last[i] < first[j]
    /\ \A k \in 1..n : words[k].text # <<>> => \E i \in 1..Len(stream) : first[i] <= k /\ k <= last[i]
    /\ \A i \in 1..Len(stream) : i < Len(stream) => ~Broken(words, last[i])

Tells(words, n, stream, first, last) ==
    /\ \A i \in 1..Len(stream) : stream[i].text = Spelled(words, first[i], last[i])
    /\ stream # <<>> => stream[Len(stream)].text = Spelled(words, first[Len(stream)], n)
    /\ \A i \in 1..Len(stream) : first[i] = last[i] => stream[i] = words[first[i]]
    /\ \A i \in 1..Len(stream) : stream[i].text # <<>> /\ (EndsInHyphen(stream[i].text) <=> Broken(words, last[i]))

LEMMA JoinEmpty ==
    ASSUME NEW words \in Seq(PlacedWord), NEW n \in Nat, n < Len(words), words[n + 1].text = <<>>,
           NEW stream, NEW first, NEW last,
           Stretches(words, n, stream, first, last), Tells(words, n, stream, first, last)
    PROVE  /\ Stretches(words, n + 1, Join(stream, words[n + 1]), first, last)
           /\ Tells(words, n + 1, Join(stream, words[n + 1]), first, last)
<1>1. Join(stream, words[n + 1]) = stream
  BY DEF Join
<1>2. Len(stream) \in Nat /\ (stream # <<>> => Len(stream) \in 1..Len(stream))
  BY LenProperties, EmptySeq DEF Stretches
<1>3. Stretches(words, n + 1, stream, first, last)
  <2>1. first \in [1..Len(stream) -> 1..(n + 1)] /\ last \in [1..Len(stream) -> 1..(n + 1)]
    BY DEF Stretches
  <2>2. ASSUME NEW i \in 1..Len(stream), NEW k \in 1..(n + 1),
               first[i] <= k, k < last[i], words[k].text # <<>>
        PROVE  Broken(words, k)
    BY <2>2 DEF Stretches
  <2>3. ASSUME NEW k \in 1..(n + 1), words[k].text # <<>>
        PROVE  \E i \in 1..Len(stream) : first[i] <= k /\ k <= last[i]
    <3>1. k \in 1..n
      BY <2>3
    <3> QED
      BY <2>3, <3>1 DEF Stretches
  <2> QED
    BY <2>1, <2>2, <2>3 DEF Stretches
<1>4. ASSUME stream # <<>>
      PROVE  stream[Len(stream)].text = Spelled(words, first[Len(stream)], n + 1)
  <2>1. first[Len(stream)] \in 1..n
    BY <1>2, <1>4 DEF Stretches
  <2>2. Spelled(words, first[Len(stream)], n + 1) = Spelled(words, first[Len(stream)], n)
    <3>1. first[Len(stream)] \in Nat /\ first[Len(stream)] <= n
      BY <2>1
    <3> QED
      BY <3>1, SpelledNext
  <2> QED
    BY <1>4, <2>2 DEF Tells
<1>5. Tells(words, n + 1, stream, first, last)
  BY <1>4 DEF Tells
<1> QED
  BY <1>1, <1>3, <1>5

LEMMA JoinAppend ==
    ASSUME NEW words \in Seq(PlacedWord), NEW n \in Nat, n < Len(words), words[n + 1].text # <<>>,
           NEW stream, NEW first, NEW last,
           Stretches(words, n, stream, first, last), Tells(words, n, stream, first, last),
           stream = <<>> \/ ~EndsInHyphen(Last(stream).text)
    PROVE  \E f, l : /\ Stretches(words, n + 1, Join(stream, words[n + 1]), f, l)
                     /\ Tells(words, n + 1, Join(stream, words[n + 1]), f, l)
<1> DEFINE m == Len(stream)
           s == Join(stream, words[n + 1])
           f == [i \in 1..(m + 1) |-> IF i = m + 1 THEN n + 1 ELSE first[i]]
           l == [i \in 1..(m + 1) |-> IF i = m + 1 THEN n + 1 ELSE last[i]]
<1>1. m \in Nat /\ stream \in Seq(PlacedWord) /\ words[n + 1] \in PlacedWord /\ n + 1 \in 1..Len(words)
  <2>1. Len(words) \in Nat /\ n + 1 \in 1..Len(words)
    BY LenProperties
  <2> QED
    BY <2>1, LenProperties, ElementOfSeq DEF Stretches
<1>2. /\ s \in Seq(PlacedWord) /\ Len(s) = m + 1 /\ s # <<>>
      /\ s[m + 1] = words[n + 1] /\ \A i \in 1..m : s[i] = stream[i]
  <2>1. s = Append(stream, words[n + 1])
    BY DEF Join
  <2> QED
    BY <1>1, <2>1, AppendProperties
<1> HIDE DEF s
<1>3. \A i \in 1..m : first[i] \in 1..n /\ last[i] \in 1..n /\ first[i] <= last[i]
  BY DEF Stretches
<1>4. /\ f \in [1..(m + 1) -> 1..(n + 1)] /\ l \in [1..(m + 1) -> 1..(n + 1)]
      /\ f[m + 1] = n + 1 /\ l[m + 1] = n + 1
      /\ \A i \in 1..m : f[i] = first[i] /\ l[i] = last[i]
  BY <1>1, <1>3
<1> HIDE DEF f, l
<1>5. \A i \in 1..(m + 1) : i \in 1..m \/ i = m + 1
  BY <1>1
<1>6. m + 1 \in 1..(m + 1) /\ n + 1 \in 1..(n + 1) /\ \A i \in 1..m : i \in 1..(m + 1) /\ i # m + 1 /\ i < m + 1
  BY <1>1
<1>7. m # 0 => ~Broken(words, last[m])
  <2>1. ASSUME m # 0 PROVE ~Broken(words, last[m])
    <3>1. stream # <<>> /\ m \in 1..m
      BY <1>1, <2>1, EmptySeq
    <3>2. Last(stream) = stream[m]
      BY <1>1, <3>1, FrontLast
    <3> QED
      BY <3>1, <3>2 DEF Tells
  <2> QED
    BY <2>1
<1>8. Stretches(words, n + 1, s, f, l)
  <2>1. \A i \in 1..(m + 1) : f[i] <= l[i] /\ words[f[i]].text # <<>> /\ words[l[i]].text # <<>>
    <3>1. \A i \in 1..m : f[i] <= l[i] /\ words[f[i]].text # <<>> /\ words[l[i]].text # <<>>
      BY <1>4 DEF Stretches
    <3>2. f[m + 1] <= l[m + 1] /\ words[f[m + 1]].text # <<>> /\ words[l[m + 1]].text # <<>>
      BY <1>4
    <3> QED
      BY <1>5, <3>1, <3>2
  <2>2. ASSUME NEW i \in 1..(m + 1), NEW k \in 1..(n + 1), f[i] <= k, k < l[i], words[k].text # <<>>
        PROVE  Broken(words, k)
    <3>1. i \in 1..m
      BY <1>4, <1>5, <2>2
    <3>2. k \in 1..n /\ first[i] <= k /\ k < last[i]
      BY <1>3, <1>4, <2>2, <3>1
    <3> QED
      BY <2>2, <3>1, <3>2 DEF Stretches
  <2>3. ASSUME NEW i \in 1..(m + 1), NEW j \in 1..(m + 1), i < j
        PROVE  l[i] < f[j]
    <3>1. i \in 1..m
      BY <1>1, <2>3
    <3>2. CASE j = m + 1
      BY <1>3, <1>4, <3>1, <3>2
    <3>3. CASE j \in 1..m
      BY <1>4, <2>3, <3>1, <3>3 DEF Stretches
    <3> QED
      BY <1>5, <3>2, <3>3
  <2>4. ASSUME NEW k \in 1..(n + 1), words[k].text # <<>>
        PROVE  \E i \in 1..(m + 1) : f[i] <= k /\ k <= l[i]
    <3>1. CASE k = n + 1
      BY <1>4, <1>6, <3>1
    <3>2. CASE k # n + 1
      <4>1. k \in 1..n
        BY <3>2
      <4>2. PICK i \in 1..m : first[i] <= k /\ k <= last[i]
        BY <2>4, <4>1 DEF Stretches
      <4> QED
        BY <1>4, <1>6, <4>2
    <3> QED
      BY <3>1, <3>2
  <2>5. ASSUME NEW i \in 1..(m + 1), i < m + 1
        PROVE  ~Broken(words, l[i])
    <3>1. i \in 1..m /\ l[i] = last[i]
      BY <1>4, <1>5, <2>5
    <3>2. CASE i = m
      BY <1>1, <1>7, <3>1, <3>2
    <3>3. CASE i # m
      BY <1>1, <3>1, <3>3 DEF Stretches
    <3> QED
      BY <3>2, <3>3
  <2> QED
    BY <1>2, <1>4, <2>1, <2>2, <2>3, <2>4, <2>5 DEF Stretches
<1>9. Tells(words, n + 1, s, f, l)
  <2>1. n + 1 \in Nat /\ Spelled(words, n + 1, n + 1) = words[n + 1].text
    BY SpelledOne
  <2>2. \A i \in 1..(m + 1) : s[i].text = Spelled(words, f[i], l[i])
    <3>1. \A i \in 1..m : s[i].text = Spelled(words, f[i], l[i])
      BY <1>2, <1>4 DEF Tells
    <3>2. s[m + 1].text = Spelled(words, f[m + 1], l[m + 1])
      BY <1>2, <1>4, <2>1
    <3> QED
      BY <1>5, <3>1, <3>2
  <2>3. \A i \in 1..(m + 1) : f[i] = l[i] => s[i] = words[f[i]]
    <3>1. \A i \in 1..m : f[i] = l[i] => s[i] = words[f[i]]
      BY <1>2, <1>4 DEF Tells
    <3> QED
      BY <1>2, <1>4, <1>5, <3>1
  <2>4. \A i \in 1..(m + 1) : s[i].text # <<>> /\ (EndsInHyphen(s[i].text) <=> Broken(words, l[i]))
    <3>1. \A i \in 1..m : s[i].text # <<>> /\ (EndsInHyphen(s[i].text) <=> Broken(words, l[i]))
      BY <1>2, <1>4 DEF Tells
    <3>2. s[m + 1].text # <<>> /\ (EndsInHyphen(s[m + 1].text) <=> Broken(words, l[m + 1]))
      BY <1>2, <1>4 DEF Broken
    <3> QED
      BY <1>5, <3>1, <3>2
  <2>5. s[m + 1].text = Spelled(words, f[m + 1], n + 1)
    BY <1>2, <1>4, <2>1
  <2> QED
    BY <1>2, <2>2, <2>3, <2>4, <2>5 DEF Tells
<1> QED
  BY <1>8, <1>9 DEF s

LEMMA JoinContinue ==
    ASSUME NEW words \in Seq(PlacedWord), NEW n \in Nat, n < Len(words), words[n + 1].text # <<>>,
           NEW stream, NEW first, NEW last,
           Stretches(words, n, stream, first, last), Tells(words, n, stream, first, last),
           stream # <<>>, EndsInHyphen(Last(stream).text)
    PROVE  \E f, l : /\ Stretches(words, n + 1, Join(stream, words[n + 1]), f, l)
                     /\ Tells(words, n + 1, Join(stream, words[n + 1]), f, l)
<1> DEFINE m == Len(stream)
           s == Join(stream, words[n + 1])
           l == [last EXCEPT ![m] = n + 1]
<1>1. /\ m \in Nat \ {0} /\ stream \in Seq(PlacedWord) /\ words[n + 1] \in PlacedWord
      /\ Last(stream) = stream[m] /\ stream[m] \in PlacedWord /\ stream[m].text # <<>> /\ m \in 1..m
  <2>1. Len(words) \in Nat /\ n + 1 \in 1..Len(words)
    BY LenProperties
  <2>2. words[n + 1] \in PlacedWord /\ stream \in Seq(PlacedWord)
    BY <2>1, ElementOfSeq DEF Stretches
  <2>3. m \in Nat \ {0} /\ Last(stream) = stream[m] /\ stream[m] \in PlacedWord
    BY <2>2, FrontLast
  <2>4. m \in 1..m
    BY <2>3
  <2> QED
    BY <2>2, <2>3, <2>4 DEF Tells
<1>2. /\ Continue(stream[m], words[n + 1]) \in PlacedWord
      /\ Continue(stream[m], words[n + 1]).text = Front(stream[m].text) \o words[n + 1].text
      /\ EndsInHyphen(Continue(stream[m], words[n + 1]).text) <=> EndsInHyphen(words[n + 1].text)
  BY <1>1, ContinueIs
<1>3. /\ s \in Seq(PlacedWord) /\ Len(s) = m /\ s # <<>>
      /\ s[m] = Continue(stream[m], words[n + 1]) /\ \A i \in 1..(m - 1) : s[i] = stream[i]
  <2>1. s = Append(Front(stream), Continue(stream[m], words[n + 1]))
    BY <1>1 DEF Join
  <2>2. /\ Front(stream) \in Seq(PlacedWord) /\ Len(Front(stream)) = m - 1
        /\ \A i \in 1..(m - 1) : Front(stream)[i] = stream[i]
    BY <1>1, FrontLast
  <2> HIDE DEF s, m
  <2>3. /\ s \in Seq(PlacedWord) /\ s # <<>> /\ Len(s) = (m - 1) + 1
        /\ \A i \in 1..(m - 1) : s[i] = Front(stream)[i]
        /\ s[(m - 1) + 1] = Continue(stream[m], words[n + 1])
    BY <1>2, <2>1, <2>2, AppendProperties
  <2>4. (m - 1) + 1 = m
    BY <1>1
  <2> QED
    BY <2>2, <2>3, <2>4
<1> HIDE DEF s
<1>4. \A i \in 1..m : first[i] \in 1..n /\ last[i] \in 1..n /\ first[i] <= last[i]
  BY DEF Stretches
<1>5. /\ first \in [1..m -> 1..(n + 1)] /\ l \in [1..m -> 1..(n + 1)] /\ l[m] = n + 1
      /\ \A i \in 1..(m - 1) : i \in 1..m /\ i # m /\ l[i] = last[i]
  BY <1>1, <1>4 DEF Stretches
<1> HIDE DEF l
<1>6. \A i \in 1..m : i \in 1..(m - 1) \/ i = m
  BY <1>1
<1>7. Broken(words, last[m])
  BY <1>1 DEF Tells
<1>10. first[m] \in Int /\ first[m] <= n /\ last[m] \in Int /\ last[m] <= n
  BY <1>1, <1>4
<1>11. \A i \in 1..m : last[i] <= l[i]
  <2>1. ASSUME NEW i \in 1..(m - 1)
        PROVE  last[i] <= l[i]
    <3>1. l[i] = last[i] /\ last[i] \in 1..n
      BY <1>4, <1>5
    <3> QED
      BY <3>1
  <2>2. last[m] <= l[m]
    BY <1>5, <1>10
  <2> QED
    BY <1>6, <2>1, <2>2
<1>8. Stretches(words, n + 1, s, first, l)
  <2>1. \A i \in 1..m : first[i] <= l[i] /\ words[first[i]].text # <<>> /\ words[l[i]].text # <<>>
    <3>1. \A i \in 1..(m - 1) : first[i] <= l[i] /\ words[first[i]].text # <<>> /\ words[l[i]].text # <<>>
      BY <1>5 DEF Stretches
    <3>2. first[m] <= l[m] /\ words[first[m]].text # <<>> /\ words[l[m]].text # <<>>
      <4>1. first[m] <= l[m] /\ words[l[m]].text # <<>>
        BY <1>5, <1>10
      <4>2. words[first[m]].text # <<>>
        BY <1>1 DEF Stretches
      <4> QED
        BY <4>1, <4>2
    <3> QED
      BY <1>6, <3>1, <3>2
  <2>2. ASSUME NEW i \in 1..m, NEW k \in 1..(n + 1), first[i] <= k, k < l[i], words[k].text # <<>>
        PROVE  Broken(words, k)
    <3>1. CASE i \in 1..(m - 1)
      <4>2. l[i] = last[i] /\ last[i] \in 1..n
        BY <1>4, <1>5, <3>1
      <4>3. k < last[i]
        BY <2>2, <4>2
      <4>1. k \in 1..n /\ k < last[i]
        BY <4>2, <4>3
      <4> QED
        BY <2>2, <4>1 DEF Stretches
    <3>2. CASE i = m
      <4>1. k \in 1..n
        BY <1>5, <2>2, <3>2
      <4>2. CASE k < last[m]
        BY <2>2, <3>2, <4>1, <4>2 DEF Stretches
      <4>3. CASE k = last[m]
        BY <1>7, <4>3
      <4>4. ASSUME k > last[m] PROVE FALSE
        <5>1. PICK j \in 1..m : first[j] <= k /\ k <= last[j]
          BY <2>2, <4>1 DEF Stretches
        <5>2. j # m /\ j < m
          BY <1>1, <1>4, <4>1, <4>4, <5>1
        <5>3. last[j] < first[m] /\ first[m] <= last[m]
          BY <1>1, <1>4, <5>2 DEF Stretches
        <5> QED
          BY <1>1, <1>4, <4>1, <4>4, <5>1, <5>3
      <4> QED
        BY <1>1, <1>4, <4>1, <4>2, <4>3, <4>4
    <3> QED
      BY <1>6, <3>1, <3>2
  <2>3. ASSUME NEW i \in 1..m, NEW j \in 1..m, i < j
        PROVE  l[i] < first[j]
    <3>1. i \in 1..(m - 1)
      BY <1>1, <2>3
    <3> QED
      BY <1>5, <2>3, <3>1 DEF Stretches
  <2>4. ASSUME NEW k \in 1..(n + 1), words[k].text # <<>>
        PROVE  \E i \in 1..m : first[i] <= k /\ k <= l[i]
    <3>1. CASE k = n + 1
      <4>1. m \in 1..m /\ first[m] <= k /\ k <= l[m]
        BY <1>1, <1>5, <1>10, <3>1
      <4> QED
        BY <4>1
    <3>2. CASE k # n + 1
      <4>1. k \in 1..n
        BY <3>2
      <4>2. PICK i \in 1..m : first[i] <= k /\ k <= last[i]
        BY <2>4, <4>1 DEF Stretches
      <4>3. last[i] <= l[i]
        BY <1>11
      <4>4. last[i] \in Int /\ l[i] \in Int
        BY <1>4, <1>5
      <4> QED
        BY <4>1, <4>2, <4>3, <4>4
    <3> QED
      BY <3>1, <3>2
  <2>5. ASSUME NEW i \in 1..m, i < m
        PROVE  ~Broken(words, l[i])
    <3>1. i \in 1..(m - 1)
      BY <1>1, <2>5
    <3> QED
      BY <1>5, <2>5, <3>1 DEF Stretches
  <2> QED
    BY <1>3, <1>5, <2>1, <2>2, <2>3, <2>4, <2>5 DEF Stretches
<1>9. Tells(words, n + 1, s, first, l)
  <2>1. s[m].text = Spelled(words, first[m], n + 1)
    <3>1. first[m] \in Nat /\ first[m] <= n
      BY <1>1, <1>4
    <3>2. Spelled(words, first[m], n + 1) = Front(Spelled(words, first[m], n)) \o words[n + 1].text
      BY <3>1, SpelledNext
    <3>3. stream[m].text = Spelled(words, first[m], n)
      BY DEF Tells
    <3> QED
      BY <1>2, <1>3, <3>2, <3>3
  <2>2. \A i \in 1..m : s[i].text = Spelled(words, first[i], l[i])
    <3>1. \A i \in 1..(m - 1) : s[i].text = Spelled(words, first[i], l[i])
      BY <1>3, <1>5 DEF Tells
    <3>2. s[m].text = Spelled(words, first[m], l[m])
      BY <1>5, <2>1
    <3> QED
      BY <1>6, <3>1, <3>2
  <2>3. \A i \in 1..m : first[i] = l[i] => s[i] = words[first[i]]
    <3>1. \A i \in 1..(m - 1) : first[i] = l[i] => s[i] = words[first[i]]
      BY <1>3, <1>5 DEF Tells
    <3>2. first[m] # l[m]
      BY <1>5, <1>10
    <3> QED
      BY <1>6, <3>1, <3>2
  <2>4. \A i \in 1..m : s[i].text # <<>> /\ (EndsInHyphen(s[i].text) <=> Broken(words, l[i]))
    <3>1. \A i \in 1..(m - 1) : s[i].text # <<>> /\ (EndsInHyphen(s[i].text) <=> Broken(words, l[i]))
      BY <1>3, <1>5 DEF Tells
    <3>2. s[m].text # <<>>
      <4>1. Front(stream[m].text) \in Text /\ words[n + 1].text \in Text
        BY <1>1, FrontLast DEF PlacedWord, Text
      <4> QED
        BY <1>2, <1>3, <4>1, HyphenOfJoined
    <3>3. EndsInHyphen(s[m].text) <=> Broken(words, l[m])
      BY <1>2, <1>3, <1>5 DEF Broken
    <3> QED
      BY <1>6, <3>1, <3>2, <3>3
  <2> QED
    BY <1>3, <2>1, <2>2, <2>3, <2>4 DEF Tells
<1> QED
  BY <1>8, <1>9 DEF s

\* The stream of a page and where its words were printed.
LEMMA JoinedTells ==
    ASSUME NEW words \in Seq(PlacedWord)
    PROVE  \E f, l : /\ Stretches(words, Len(words), Joined(words), f, l)
                     /\ Tells(words, Len(words), Joined(words), f, l)
<1>1. Len(words) \in Nat
  BY LenProperties
<1>2. PICK g : Joins(g, words, Len(words)) /\ Joined(words) = g[Len(words)]
  BY <1>1, JoinedIs
<1>3. /\ g[0] = <<>>
      /\ \A n \in 0..(Len(words) - 1) : g[n + 1] = Join(g[n], words[n + 1])
  <2>1. g[0] = <<>>
    BY <1>1, <1>2 DEF Joins
  <2>2. ASSUME NEW n \in 0..(Len(words) - 1)
        PROVE  g[n + 1] = Join(g[n], words[n + 1])
    <3>1. n + 1 \in 0..Len(words) /\ n + 1 # 0 /\ (n + 1) - 1 = n
      BY <1>1
    <3> QED
      BY <1>2, <3>1 DEF Joins
  <2> QED
    BY <2>1, <2>2
<1> DEFINE Good(n) == \E f, l : Stretches(words, n, g[n], f, l) /\ Tells(words, n, g[n], f, l)
           A == {n \in Nat : n <= Len(words) /\ ~Good(n)}
<1>4. Good(0)
  <2>1. Len(<<>>) = 0 /\ <<>> \in Seq(PlacedWord) /\ 1..0 = {}
    BY EmptySeq
  <2>2. Stretches(words, 0, <<>>, [i \in 1..0 |-> 0], [i \in 1..0 |-> 0])
    BY <2>1 DEF Stretches
  <2>3. Tells(words, 0, <<>>, [i \in 1..0 |-> 0], [i \in 1..0 |-> 0])
    BY <2>1 DEF Tells
  <2> QED
    BY <1>3, <2>2, <2>3
<1>5. ASSUME NEW n \in Nat, n < Len(words), Good(n)
      PROVE  Good(n + 1)
  <2>1. PICK f, l : Stretches(words, n, g[n], f, l) /\ Tells(words, n, g[n], f, l)
    BY <1>5
  <2>2. g[n + 1] = Join(g[n], words[n + 1])
    BY <1>1, <1>3, <1>5
  <2>3. CASE words[n + 1].text = <<>>
    <3>1. /\ Stretches(words, n + 1, Join(g[n], words[n + 1]), f, l)
          /\ Tells(words, n + 1, Join(g[n], words[n + 1]), f, l)
      BY <1>5, <2>1, <2>3, JoinEmpty
    <3> QED
      BY <2>2, <3>1
  <2>4. CASE words[n + 1].text # <<>> /\ (g[n] = <<>> \/ ~EndsInHyphen(Last(g[n]).text))
    <3>1. \E f2, l2 : /\ Stretches(words, n + 1, Join(g[n], words[n + 1]), f2, l2)
                      /\ Tells(words, n + 1, Join(g[n], words[n + 1]), f2, l2)
      BY <1>5, <2>1, <2>4, JoinAppend
    <3> QED
      BY <2>2, <3>1
  <2>5. CASE words[n + 1].text # <<>> /\ g[n] # <<>> /\ EndsInHyphen(Last(g[n]).text)
    <3>1. \E f2, l2 : /\ Stretches(words, n + 1, Join(g[n], words[n + 1]), f2, l2)
                      /\ Tells(words, n + 1, Join(g[n], words[n + 1]), f2, l2)
      BY <1>5, <2>1, <2>5, JoinContinue
    <3> QED
      BY <2>2, <3>1
  <2> QED
    BY <2>3, <2>4, <2>5
<1>6. Good(Len(words))
  <2>1. SUFFICES ASSUME A # {} PROVE FALSE
    BY <1>1
  <2> HIDE DEF Good
  <2>2. PICK m \in A : \A k \in A : m <= k
    BY <2>1, LeastOfNat
  <2>3. m # 0 /\ m \in Nat /\ m <= Len(words) /\ ~Good(m)
    BY <1>4, <2>2
  <2>4. m - 1 \in Nat /\ m - 1 < Len(words) /\ m - 1 \notin A /\ (m - 1) + 1 = m
    BY <1>1, <2>2, <2>3
  <2>5. Good(m - 1)
    BY <2>4
  <2> QED
    BY <1>5, <2>3, <2>4, <2>5
<1> QED
  BY <1>2, <1>6

\* Every nonempty set of numbers up to n has a greatest element.
LEMMA GreatestOf ==
    ASSUME NEW n \in Nat, NEW S \in SUBSET (0..n), S # {}
    PROVE  \E m \in S : \A k \in S : k <= m
<1> DEFINE A == {n - x : x \in S}
<1>1. A \in SUBSET Nat /\ A # {}
  <2>1. \A x \in 0..n : n - x \in Nat
    OBVIOUS
  <2> QED
    BY <2>1
<1>2. PICK m \in A : \A k \in A : m <= k
  <2> HIDE DEF A
  <2> QED
    BY <1>1, LeastOfNat
<1>3. PICK x \in S : m = n - x
  BY <1>2
<1>4. \A k \in S : n - x <= n - k
  BY <1>2, <1>3
<1>5. \A k \in S : k <= x
  <2>1. \A k \in S : k \in Int /\ x \in Int
    OBVIOUS
  <2> QED
    BY <1>4, <2>1
<1> QED
  BY <1>5

\* The stretches are the whole words of the page.
LEMMA StretchesAreWhole ==
    ASSUME NEW words \in Seq(PlacedWord), NEW stream, NEW first, NEW last,
           Stretches(words, Len(words), stream, first, last)
    PROVE  /\ \A i \in 1..Len(stream) : <<first[i], last[i]>> \in WholeWords(words)
           /\ \A w \in WholeWords(words) : \E i \in 1..Len(stream) : w = <<first[i], last[i]>>
<1> DEFINE N == Len(words)
           m == Len(stream)
<1>1. N \in Nat /\ DOMAIN words = 1..N /\ m \in Nat
  BY LenProperties DEF Stretches
<1>2. Printed(words) = {k \in 1..N : words[k].text # <<>>}
  BY <1>1 DEF Printed
<1>3. \A i \in 1..m : /\ first[i] \in Printed(words) /\ last[i] \in Printed(words)
                      /\ first[i] \in 1..N /\ last[i] \in 1..N /\ first[i] <= last[i]
  BY <1>1, <1>2 DEF Stretches
<1>4. ASSUME NEW i \in 1..m
      PROVE  IsWholeWord(words, first[i], last[i])
  <2>1. first[i] <= last[i]
    BY <1>3
  <2>2. \A n \in Printed(words) : n \in first[i]..(last[i] - 1) => Broken(words, n)
    BY <1>2, <1>3 DEF Stretches
  <2>3. ASSUME NEW n \in Printed(words), n < first[i], Broken(words, n)
        PROVE  \E o \in Printed(words) : n < o /\ o < first[i]
    <3>1. n \in 1..N /\ words[n].text # <<>>
      BY <1>2
    <3>2. PICK j \in 1..m : first[j] <= n /\ n <= last[j]
      BY <3>1 DEF Stretches
    <3>3. j < i
      <4>1. i # j
        BY <1>3, <2>3, <3>1, <3>2
      <4>2. ASSUME i < j PROVE FALSE
        <5>1. last[i] < first[j]
          BY <4>2 DEF Stretches
        <5>2. first[i] \in Int /\ last[i] \in Int /\ first[j] \in Int /\ n \in Int /\ first[i] <= last[i]
          BY <1>3, <3>1
        <5> QED
          BY <2>3, <3>2, <5>1, <5>2
      <4> QED
        BY <4>1, <4>2
    <3>4. last[j] < first[i] /\ ~Broken(words, last[j])
      BY <1>1, <3>3 DEF Stretches
    <3>5. last[j] # n /\ last[j] \in Int
      BY <1>3, <2>3, <3>4
    <3>6. n < last[j]
      BY <3>1, <3>2, <3>5
    <3> QED
      BY <1>3, <3>4, <3>6
  <2>4. ASSUME Broken(words, last[i]), NEW n \in Printed(words)
        PROVE  n <= last[i]
    <3>1. i = m
      BY <1>1, <2>4 DEF Stretches
    <3>2. n \in 1..N /\ words[n].text # <<>>
      BY <1>2
    <3>3. PICK j \in 1..m : first[j] <= n /\ n <= last[j]
      BY <3>2 DEF Stretches
    <3>4. CASE j = i
      BY <3>3, <3>4
    <3>5. CASE j # i
      <4>1. j < i
        BY <1>1, <3>1, <3>5
      <4>2. last[j] < first[i]
        BY <4>1 DEF Stretches
      <4>3. first[i] \in Int /\ last[i] \in Int /\ last[j] \in Int /\ n \in Int /\ first[i] <= last[i]
        BY <1>3, <3>2
      <4> QED
        BY <3>3, <4>2, <4>3
    <3> QED
      BY <3>4, <3>5
  <2> QED
    BY <2>1, <2>2, <2>3, <2>4 DEF IsWholeWord
<1>5. \A i \in 1..m : <<first[i], last[i]>> \in WholeWords(words)
  BY <1>3, <1>4 DEF WholeWords
<1>6. ASSUME NEW a \in Printed(words), NEW b \in Printed(words), IsWholeWord(words, a, b)
      PROVE  \E i \in 1..m : a = first[i] /\ b = last[i]
  <2>1. a \in 1..N /\ b \in 1..N /\ words[a].text # <<>> /\ words[b].text # <<>>
    BY <1>2
  <2>2. PICK i \in 1..m : first[i] <= a /\ a <= last[i]
    BY <2>1 DEF Stretches
  <2>3. first[i] \in 1..N /\ last[i] \in 1..N /\ first[i] \in Printed(words) /\ last[i] \in Printed(words)
    BY <1>3
  <2>4. a <= b
    BY <1>6 DEF IsWholeWord
  <2>5. ASSUME first[i] < a PROVE FALSE
    <3> DEFINE S == {k \in Printed(words) : k < a}
    <3>1. S \in SUBSET (0..N) /\ S # {}
      BY <1>2, <2>3, <2>5
    <3>2. PICK k \in S : \A o \in S : o <= k
      <4> HIDE DEF S
      <4> QED
        BY <1>1, <3>1, GreatestOf
    <3>3. k \in Printed(words) /\ k < a /\ k \in 1..N /\ words[k].text # <<>> /\ first[i] <= k
      BY <1>2, <2>3, <2>5, <3>2
    <3>4. k < last[i]
      BY <2>1, <2>2, <2>3, <3>3
    <3>5. Broken(words, k)
      BY <3>3, <3>4 DEF Stretches
    <3>6. PICK o \in Printed(words) : k < o /\ o < a
      BY <1>6, <3>3, <3>5 DEF IsWholeWord
    <3>7. o \in S /\ o \in Int
      BY <1>2, <3>6
    <3>8. o <= k
      BY <3>2, <3>7
    <3> QED
      BY <3>3, <3>6, <3>7, <3>8
  <2>6. ASSUME b < last[i] PROVE FALSE
    <3>1. Broken(words, b)
      <4>1. first[i] <= b
        BY <2>1, <2>2, <2>3, <2>4
      <4> QED
        BY <2>1, <2>6, <4>1 DEF Stretches
    <3>2. last[i] <= b
      BY <1>6, <2>3, <3>1 DEF IsWholeWord
    <3> QED
      BY <2>1, <2>3, <2>6, <3>2
  <2>7. ASSUME last[i] < b PROVE FALSE
    <3>1. last[i] \in a..(b - 1)
      BY <2>1, <2>2, <2>3, <2>7
    <3>2. Broken(words, last[i])
      BY <1>6, <2>3, <3>1 DEF IsWholeWord
    <3>3. i = m
      BY <1>1, <3>2 DEF Stretches
    <3>4. PICK j \in 1..m : first[j] <= b /\ b <= last[j]
      BY <2>1 DEF Stretches
    <3>5. j # i
      BY <2>1, <2>3, <2>7, <3>4
    <3>6. j < i
      BY <1>1, <3>3, <3>5
    <3>7. last[j] < first[i] /\ first[i] <= last[i]
      BY <1>3, <3>6 DEF Stretches
    <3>8. last[j] \in Int
      BY <1>3
    <3> QED
      BY <2>1, <2>3, <2>7, <3>4, <3>7, <3>8
  <2> QED
    BY <2>1, <2>2, <2>3, <2>5, <2>6, <2>7
<1>7. ASSUME NEW w \in WholeWords(words)
      PROVE  \E i \in 1..m : w = <<first[i], last[i]>>
  <2>1. w \in Printed(words) \X Printed(words) /\ IsWholeWord(words, w[1], w[2])
    BY DEF WholeWords
  <2>2. w[1] \in Printed(words) /\ w[2] \in Printed(words) /\ w = <<w[1], w[2]>>
    BY <2>1
  <2> QED
    BY <1>6, <2>1, <2>2
<1> QED
  BY <1>5, <1>7

(***************************************************************************)
(* What find_occurrences finds.                                            *)
(***************************************************************************)

MatchingStarts(stream, quote) == {s \in Starts(stream, quote) : Matches(stream, quote, s)}

\* What Occurrences defines recursively, up to the start n.
Finds(f, stream, quote, n) ==
    f = [s \in 0..n |->
            IF s = 0 THEN <<>>
            ELSE IF s \in Starts(stream, quote) /\ Matches(stream, quote, s)
            THEN Append(f[s - 1], RectsAt(stream, quote, s))
            ELSE f[s - 1]]

LEMMA FindsExists ==
    ASSUME NEW stream, NEW quote, NEW n \in Nat
    PROVE  \E f : Finds(f, stream, quote, n)
<1> DEFINE A == {k \in Nat : ~ \E f : Finds(f, stream, quote, k)}
<1>1. SUFFICES ASSUME A # {} PROVE FALSE
  OBVIOUS
<1>2. PICK m \in A : \A k \in A : m <= k
  BY <1>1, LeastOfNat
<1>3. m # 0
  <2>1. Finds([i \in 0..0 |-> <<>>], stream, quote, 0)
    BY DEF Finds
  <2> QED
    BY <2>1
<1>4. PICK g : Finds(g, stream, quote, m - 1)
  <2>1. m - 1 \in Nat /\ m - 1 \notin A
    BY <1>2, <1>3
  <2> QED
    BY <2>1
<1> DEFINE Next1(h, s) == IF s = 0 THEN <<>>
                          ELSE IF s \in Starts(stream, quote) /\ Matches(stream, quote, s)
                          THEN Append(h[s - 1], RectsAt(stream, quote, s))
                          ELSE h[s - 1]
           f == [i \in 0..m |-> IF i < m THEN g[i] ELSE Next1(g, m)]
<1>5. ASSUME NEW i \in 0..m
      PROVE  f[i] = Next1(f, i)
  <2>1. CASE i < m
    <3>1. f[i] = g[i] /\ (i # 0 => f[i - 1] = g[i - 1])
      BY <2>1
    <3>2. i \in 0..(m - 1)
      BY <2>1
    <3>3. \A k \in 0..(m - 1) : g[k] = Next1(g, k)
      BY <1>4 DEF Finds
    <3> HIDE DEF f
    <3> QED
      BY <3>1, <3>2, <3>3
  <2>2. CASE i = m
    <3>1. f[i - 1] = g[i - 1] /\ f[i] = Next1(g, m)
      BY <1>3, <2>2
    <3> HIDE DEF f
    <3> QED
      BY <2>2, <3>1
  <2> QED
    BY <2>1, <2>2
<1>6. f = [i \in 0..m |-> f[i]]
  OBVIOUS
<1> HIDE DEF f
<1>7. Finds(f, stream, quote, m)
  BY <1>5, <1>6 DEF Finds
<1> QED
  BY <1>7

LEMMA OccurrencesIs ==
    ASSUME NEW map, NEW quote, Len(Joined(map.words)) \in Nat
    PROVE  \E f : /\ Finds(f, Joined(map.words), quote, Len(Joined(map.words)))
                  /\ Occurrences(map, quote) = f[Len(Joined(map.words))]
<1> DEFINE stream == Joined(map.words)
           g == CHOOSE f : f = [s \in 0..Len(stream) |->
                    IF s = 0 THEN <<>>
                    ELSE IF s \in Starts(stream, quote) /\ Matches(stream, quote, s)
                    THEN Append(f[s - 1], RectsAt(stream, quote, s))
                    ELSE f[s - 1]]
<1>1. Occurrences(map, quote) = g[Len(stream)]
  BY DEF Occurrences
<1> HIDE DEF stream
<1>2. Len(stream) \in Nat
  BY DEF stream
<1>3. \E f : Finds(f, stream, quote, Len(stream))
  BY <1>2, FindsExists
<1>4. Finds(g, stream, quote, Len(stream))
  BY <1>3 DEF Finds
<1> QED
  BY <1>1, <1>4 DEF stream

\* As many as the starts at which the stream has the quote, each with the
\* rectangles of the words there.
LEMMA FoundAre ==
    ASSUME NEW map, NEW quote, NEW L \in Nat, L = Len(Joined(map.words)), quote \in Seq(Text)
    PROVE  /\ Len(Occurrences(map, quote)) \in Nat
           /\ IsFiniteSet(MatchingStarts(Joined(map.words), quote))
           /\ Len(Occurrences(map, quote)) = Cardinality(MatchingStarts(Joined(map.words), quote))
           /\ \A i \in 1..Len(Occurrences(map, quote)) : \E s \in MatchingStarts(Joined(map.words), quote) :
                Occurrences(map, quote)[i] = RectsAt(Joined(map.words), quote, s)
<1> DEFINE stream == Joined(map.words)
           M == MatchingStarts(stream, quote)
           V == {RectsAt(stream, quote, s) : s \in M}
           Upto(n) == {s \in M : s <= n}
<1>1. PICK f : Finds(f, stream, quote, L) /\ Occurrences(map, quote) = f[L]
  BY OccurrencesIs
<1> HIDE DEF stream
<1>2. /\ f[0] = <<>>
      /\ \A n \in 1..L : f[n] = IF n \in M THEN Append(f[n - 1], RectsAt(stream, quote, n)) ELSE f[n - 1]
  <2>1. f[0] = <<>>
    BY <1>1 DEF Finds
  <2>2. \A n \in 1..L : n \in M <=> n \in Starts(stream, quote) /\ Matches(stream, quote, n)
    BY DEF MatchingStarts
  <2> HIDE DEF M
  <2>3. ASSUME NEW n \in 1..L
        PROVE  f[n] = IF n \in M THEN Append(f[n - 1], RectsAt(stream, quote, n)) ELSE f[n - 1]
    <3>1. n \in 0..L /\ n # 0
      OBVIOUS
    <3> QED
      BY <1>1, <2>2, <3>1 DEF Finds
  <2> QED
    BY <2>1, <2>3
<1>3. \A s \in M : s \in 1..L
  <2>1. ASSUME NEW s \in Starts(stream, quote)
        PROVE  s \in 1..L
    <3>1. s \in 1..(Len(stream) - Len(quote) + 1) /\ quote # <<>>
      BY DEF Starts
    <3>2. Len(stream) = L
      BY DEF stream
    <3>3. Len(quote) \in Nat \ {0}
      BY <3>1, EmptySeq
    <3> QED
      BY <3>1, <3>2, <3>3
  <2> QED
    BY <2>1 DEF MatchingStarts
<1> HIDE DEF M
<1> DEFINE Good(n) == /\ f[n] \in Seq(V)
                      /\ IsFiniteSet(Upto(n)) /\ Len(f[n]) = Cardinality(Upto(n))
           A == {n \in Nat : n <= L /\ ~Good(n)}
<1>4. Good(0)
  <2>1. Upto(0) = {}
    BY <1>3
  <2> HIDE DEF V
  <2> QED
    BY <1>2, <2>1, EmptySeq, FS_EmptySet
<1>5. ASSUME NEW n \in 1..L, Good(n - 1)
      PROVE  Good(n)
  <2>1. CASE n \in M
    <3>1. RectsAt(stream, quote, n) \in V
      BY <2>1
    <3>7. \A s \in M : s <= n <=> s <= n - 1 \/ s = n
      BY <1>3
    <3>2. Upto(n) = Upto(n - 1) \cup {n} /\ n \notin Upto(n - 1)
      <4>1. ~(n <= n - 1) /\ n <= n
        OBVIOUS
      <4> QED
        BY <2>1, <3>7, <4>1, Zenon
    <3>3. f[n] = Append(f[n - 1], RectsAt(stream, quote, n))
      BY <1>2, <2>1
    <3> HIDE DEF V, Upto
    <3>4. f[n] \in Seq(V) /\ Len(f[n]) = Len(f[n - 1]) + 1
      BY <1>5, <3>1, <3>3, AppendProperties
    <3>6. IsFiniteSet(Upto(n - 1))
      BY <1>5
    <3>5. IsFiniteSet(Upto(n)) /\ Cardinality(Upto(n)) = Cardinality(Upto(n - 1)) + 1
      BY <3>2, <3>6, FS_AddElement
    <3> QED
      BY <1>5, <3>4, <3>5
  <2>2. CASE n \notin M
    <3>1. Upto(n) = Upto(n - 1)
      BY <1>3, <2>2
    <3>2. f[n] = f[n - 1]
      BY <1>2, <2>2
    <3> HIDE DEF V, Upto
    <3> QED
      BY <1>5, <3>1, <3>2
  <2> QED
    BY <2>1, <2>2
<1>6. Good(L)
  <2> HIDE DEF Good
  <2>1. SUFFICES ASSUME A # {} PROVE FALSE
    OBVIOUS
  <2>2. PICK m \in A : \A k \in A : m <= k
    BY <2>1, LeastOfNat
  <2>3. m # 0 /\ m \in Nat /\ m <= L /\ ~Good(m)
    BY <1>4, <2>2
  <2>4. m - 1 \in Nat /\ m - 1 < L /\ m - 1 \notin A /\ m \in 1..L
    BY <2>2, <2>3
  <2>5. Good(m - 1)
    BY <2>4
  <2> QED
    BY <1>5, <2>3, <2>4, <2>5
<1>7. Upto(L) = M
  BY <1>3
<1>8. f[L] \in Seq(V) /\ IsFiniteSet(M) /\ Len(f[L]) = Cardinality(M)
  <2> HIDE DEF V, Upto
  <2> QED
    BY <1>6, <1>7
<1>9. Len(f[L]) \in Nat /\ \A i \in 1..Len(f[L]) : f[L][i] \in V
  <2> HIDE DEF V
  <2> QED
    BY <1>8, LenProperties, ElementOfSeq
<1>10. \A i \in 1..Len(f[L]) : \E s \in M : f[L][i] = RectsAt(stream, quote, s)
  BY <1>9
<1> QED
  BY <1>1, <1>8, <1>9, <1>10 DEF M, stream

\* What the start s reads.
ReadAt(quote, first, last, s) == [k \in DOMAIN quote |-> <<first[s + k - 1], last[s + k - 1]>>]

LEMMA StretchesRise ==
    ASSUME NEW words \in Seq(PlacedWord), NEW n \in Nat, NEW stream, NEW first, NEW last,
           Stretches(words, n, stream, first, last)
    PROVE  /\ Len(stream) \in Nat
           /\ \A i \in 1..Len(stream) : first[i] \in Nat /\ last[i] \in Nat /\ first[i] <= last[i]
           /\ \A i, j \in 1..Len(stream) : i < j => last[i] < first[j] /\ first[i] < first[j] /\ last[i] < last[j]
           /\ \A i, j \in 1..Len(stream) : first[i] = first[j] => i = j
           /\ \A i, j \in 1..Len(stream) : last[i] < first[j] => i < j
<1>1. Len(stream) \in Nat
  BY LenProperties DEF Stretches
<1>2. \A i \in 1..Len(stream) : first[i] \in 1..n /\ last[i] \in 1..n /\ first[i] <= last[i]
  BY DEF Stretches
<1>3. \A i \in 1..Len(stream) : first[i] \in Nat /\ last[i] \in Nat /\ first[i] <= last[i]
  BY <1>2
<1>4. ASSUME NEW i \in 1..Len(stream), NEW j \in 1..Len(stream), i < j
      PROVE  last[i] < first[j] /\ first[i] < first[j] /\ last[i] < last[j]
  <2>1. last[i] < first[j]
    BY <1>4 DEF Stretches
  <2>2. first[i] <= last[i] /\ first[j] <= last[j]
    BY <1>3
  <2>3. first[i] \in Nat /\ last[i] \in Nat /\ first[j] \in Nat /\ last[j] \in Nat
    BY <1>3
  <2> QED
    BY <2>1, <2>2, <2>3
<1>5. ASSUME NEW i \in 1..Len(stream), NEW j \in 1..Len(stream), first[i] = first[j]
      PROVE  i = j
  <2>1. ~(first[i] < first[j]) /\ ~(first[j] < first[i])
    BY <1>3, <1>5
  <2>2. ~(i < j) /\ ~(j < i)
    BY <1>4, <2>1
  <2> QED
    BY <2>2
<1>6. ASSUME NEW i \in 1..Len(stream), NEW j \in 1..Len(stream), last[i] < first[j]
      PROVE  i < j
  <2>1. i # j
    BY <1>3, <1>6
  <2>2. ASSUME j < i PROVE FALSE
    <3>1. last[j] < first[i]
      BY <1>4, <2>2
    <3>2. first[i] \in Nat /\ last[i] \in Nat /\ first[j] \in Nat /\ last[j] \in Nat
          /\ first[i] <= last[i] /\ first[j] <= last[j]
      BY <1>3
    <3> QED
      BY <1>6, <3>1, <3>2
  <2> QED
    BY <2>1, <2>2
<1> QED
  BY <1>1, <1>3, <1>4, <1>5, <1>6

LEMMA StartsRead ==
    ASSUME NEW words \in Seq(PlacedWord), NEW stream, NEW first, NEW last,
           Stretches(words, Len(words), stream, first, last),
           Tells(words, Len(words), stream, first, last),
           NEW quote \in Seq(Text), NEW s \in MatchingStarts(stream, quote)
    PROVE  /\ ReadAt(quote, first, last, s) \in Readings(words, quote)
           /\ \A k \in DOMAIN quote : s + k - 1 \in 1..Len(stream)
           /\ 1 \in DOMAIN quote
<1> DEFINE w == ReadAt(quote, first, last, s)
           L == Len(stream)
           m == Len(quote)
<1>1. L \in Nat /\ m \in Nat \ {0} /\ DOMAIN quote = 1..m /\ quote # <<>>
      /\ s \in 1..(L - m + 1) /\ Matches(stream, quote, s)
  <2>1. s \in 1..(L - m + 1) /\ quote # <<>> /\ Matches(stream, quote, s)
    BY DEF MatchingStarts, Starts
  <2> QED
    BY <2>1, EmptySeq, LenProperties DEF Stretches
<1>2. \A k \in 1..m : s + k - 1 \in 1..L
  BY <1>1
<1>3. Len(words) \in Nat
  BY LenProperties
<1>4. /\ \A i \in 1..L : first[i] \in Nat /\ last[i] \in Nat /\ first[i] <= last[i]
      /\ \A i, j \in 1..L : i < j => last[i] < first[j]
  BY <1>3, StretchesRise
<1>5. w \in [DOMAIN quote -> WholeWords(words)]
  <2>1. \A i \in 1..L : <<first[i], last[i]>> \in WholeWords(words)
    BY StretchesAreWhole
  <2> QED
    BY <1>1, <1>2, <2>1 DEF ReadAt
<1>6. \A k \in 1..m : w[k] = <<first[s + k - 1], last[s + k - 1]>> /\ w[k][1] = first[s + k - 1] /\ w[k][2] = last[s + k - 1]
  BY <1>1 DEF ReadAt
<1> HIDE DEF w
<1>7. \A k \in DOMAIN quote : Spelled(words, w[k][1], w[k][2]) = quote[k]
  <2>1. \A i \in 1..L : stream[i].text = Spelled(words, first[i], last[i])
    BY DEF Tells
  <2>2. \A k \in 1..m : stream[s + k - 1].text = quote[k]
    BY <1>1 DEF Matches
  <2>3. ASSUME NEW k \in 1..m
        PROVE  Spelled(words, w[k][1], w[k][2]) = quote[k]
    <3>1. s + k - 1 \in 1..L /\ w[k][1] = first[s + k - 1] /\ w[k][2] = last[s + k - 1]
      BY <1>2, <1>6
    <3>2. stream[s + k - 1].text = Spelled(words, first[s + k - 1], last[s + k - 1])
      BY <2>1, <3>1
    <3> QED
      BY <2>2, <3>1, <3>2
  <2> QED
    BY <1>1, <2>3
<1>8. ASSUME NEW k \in DOMAIN quote \ {1}
      PROVE  /\ w[k - 1][2] < w[k][1]
             /\ \A n \in Printed(words) : ~(w[k - 1][2] < n /\ n < w[k][1])
  <2> DEFINE i == s + k - 1
             j == s + (k - 1) - 1
  <2>1. k \in 1..m /\ k - 1 \in 1..m
    BY <1>1
  <2>5. i \in 1..L /\ j \in 1..L
    BY <1>2, <2>1
  <2>6. w[k][1] = first[i] /\ w[k - 1][2] = last[j]
    BY <1>6, <2>1
  <2>7. j + 1 = i
    BY <1>1, <2>1
  <2>2. i \in 1..L /\ j \in 1..L /\ j + 1 = i /\ w[k][1] = first[i] /\ w[k - 1][2] = last[j]
    BY <2>5, <2>6, <2>7
  <2> HIDE DEF i, j
  <2>3. last[j] < first[i]
    <3>1. j < i
      BY <2>2
    <3> QED
      BY <1>4, <2>2, <3>1
  <2>4. ASSUME NEW n \in Printed(words), last[j] < n, n < first[i]
        PROVE  FALSE
    <3>1. n \in 1..Len(words) /\ words[n].text # <<>>
      BY LenProperties DEF Printed
    <3>2. PICK o \in 1..L : first[o] <= n /\ n <= last[o]
      BY <3>1 DEF Stretches
    <3>3. first[o] \in Nat /\ last[o] \in Nat /\ first[i] \in Nat /\ last[j] \in Nat /\ n \in Nat
          /\ first[j] <= last[j] /\ first[i] <= last[i] /\ first[j] \in Nat /\ last[i] \in Nat
      BY <1>4, <2>2, <3>1
    <3>4. o # i /\ o # j
      BY <2>4, <3>2, <3>3
    <3>5. CASE o > i
      <4>1. last[i] < first[o]
        BY <1>4, <2>2, <3>5
      <4> QED
        BY <2>4, <3>2, <3>3, <4>1
    <3>6. CASE o < j
      <4>1. last[o] < first[j]
        BY <1>4, <2>2, <3>6
      <4> QED
        BY <2>4, <3>2, <3>3, <4>1
    <3> QED
      BY <2>2, <3>4, <3>5, <3>6
  <2> QED
    BY <2>2, <2>3, <2>4
<1>9. 1 \in DOMAIN quote
  BY <1>1
<1>10. w \in Readings(words, quote)
  BY <1>1, <1>5, <1>7, <1>8 DEF Readings
<1> QED
  BY <1>1, <1>2, <1>9, <1>10 DEF w

\* Every reading starts somewhere in the stream.
LEMMA ReadingsStart ==
    ASSUME NEW words \in Seq(PlacedWord), NEW stream, NEW first, NEW last,
           Stretches(words, Len(words), stream, first, last),
           Tells(words, Len(words), stream, first, last),
           NEW quote \in Seq(Text), NEW w \in Readings(words, quote)
    PROVE  \E s \in MatchingStarts(stream, quote) : w = ReadAt(quote, first, last, s)
<1> DEFINE L == Len(stream)
           m == Len(quote)
<1>1. /\ m \in Nat \ {0} /\ DOMAIN quote = 1..m /\ quote # <<>>
      /\ w \in [1..m -> WholeWords(words)]
      /\ \A k \in 1..m : Spelled(words, w[k][1], w[k][2]) = quote[k]
      /\ \A k \in (1..m) \ {1} : /\ w[k - 1][2] < w[k][1]
                                 /\ \A n \in Printed(words) : ~(w[k - 1][2] < n /\ n < w[k][1])
  <2>1. quote # <<>>
    BY DEF Readings
  <2>2. m \in Nat \ {0} /\ DOMAIN quote = 1..m
    BY <2>1, EmptySeq, LenProperties
  <2> QED
    BY <2>1, <2>2 DEF Readings
<1>2. /\ L \in Nat
      /\ \A i \in 1..L : first[i] \in Nat /\ last[i] \in Nat /\ first[i] <= last[i]
      /\ \A i, j \in 1..L : i < j => last[i] < first[j] /\ first[i] < first[j] /\ last[i] < last[j]
      /\ \A i, j \in 1..L : last[i] < first[j] => i < j
  <2>1. Len(words) \in Nat
    BY LenProperties
  <2> QED
    BY <2>1, StretchesRise
<1>3. /\ \A v \in WholeWords(words) : \E i \in 1..L : v = <<first[i], last[i]>>
      /\ \A i \in 1..L : <<first[i], last[i]>> \in WholeWords(words)
  BY StretchesAreWhole
<1>4. \A k \in 1..m : \E i \in 1..L : w[k] = <<first[i], last[i]>>
  BY <1>1, <1>3
<1> DEFINE at == [k \in 1..m |-> CHOOSE i \in 1..L : w[k] = <<first[i], last[i]>>]
<1>5. \A k \in 1..m : at[k] \in 1..L /\ w[k] = <<first[at[k]], last[at[k]]>>
  BY <1>4
<1> HIDE DEF at
<1>6. \A k \in 1..m : w[k][1] = first[at[k]] /\ w[k][2] = last[at[k]]
  BY <1>5
<1>7. ASSUME NEW k \in (1..m) \ {1}
      PROVE  at[k] = at[k - 1] + 1
  <2> DEFINE i == at[k - 1]
             j == at[k]
  <2>1. k \in 1..m /\ k - 1 \in 1..m
    BY <1>1
  <2>2. /\ i \in 1..L /\ j \in 1..L /\ last[i] < first[j]
        /\ \A n \in Printed(words) : ~(last[i] < n /\ n < first[j])
    BY <1>1, <1>5, <1>6, <2>1
  <2> HIDE DEF i, j
  <2>3. i < j
    BY <1>2, <2>2
  <2>4. ASSUME i + 1 < j PROVE FALSE
    <3>1. i + 1 \in 1..L /\ i < i + 1
      BY <1>2, <2>2, <2>4
    <3>2. last[i] < first[i + 1] /\ first[i + 1] < first[j]
      BY <1>2, <2>2, <2>4, <3>1
    <3>3. first[i + 1] \in Printed(words)
      <4>1. <<first[i + 1], last[i + 1]>> \in WholeWords(words)
        BY <1>3, <3>1
      <4> QED
        BY <4>1 DEF WholeWords
    <3> QED
      BY <2>2, <3>2, <3>3
  <2>5. j = i + 1
    BY <2>2, <2>3, <2>4
  <2> QED
    BY <2>5 DEF i, j
<1> DEFINE s == at[1]
           A == {k \in Nat : k \in 1..m /\ at[k] # s + k - 1}
<1>8. \A k \in 1..m : at[k] = s + k - 1
  <2>1. SUFFICES ASSUME A # {} PROVE FALSE
    OBVIOUS
  <2>2. PICK k \in A : \A o \in A : k <= o
    BY <2>1, LeastOfNat
  <2>3. s \in 1..L /\ 1 \in 1..m
    BY <1>1, <1>5
  <2>4. k # 1
    BY <2>2, <2>3
  <2>5. k - 1 \in 1..m /\ k - 1 \notin A /\ k \in (1..m) \ {1}
    BY <2>2, <2>4
  <2>6. at[k - 1] = s + (k - 1) - 1
    BY <2>5
  <2>7. at[k] = at[k - 1] + 1
    BY <1>7, <2>5
  <2>8. at[k] # s + k - 1
    BY <2>2
  <2> HIDE DEF s, A
  <2> QED
    BY <2>3, <2>5, <2>6, <2>7, <2>8
<1>9. s \in 1..L /\ 1 \in 1..m /\ m \in 1..m /\ at[m] \in 1..L /\ at[m] = s + m - 1
  BY <1>1, <1>5, <1>8
<1> HIDE DEF s
<1>10. s \in MatchingStarts(stream, quote)
  <2>1. s \in Starts(stream, quote)
    BY <1>1, <1>2, <1>9 DEF Starts
  <2>2. ASSUME NEW k \in 1..m
        PROVE  stream[s + k - 1].text = quote[k]
    <3>1. at[k] = s + k - 1 /\ at[k] \in 1..L
      BY <1>5, <1>8
    <3>2. stream[at[k]].text = Spelled(words, first[at[k]], last[at[k]])
      BY <3>1 DEF Tells
    <3> QED
      BY <1>1, <1>6, <3>1, <3>2
  <2> QED
    BY <1>1, <2>1, <2>2 DEF MatchingStarts, Matches
<1>11. w = ReadAt(quote, first, last, s)
  <2>1. w = [k \in 1..m |-> w[k]]
    BY <1>1
  <2>2. \A k \in 1..m : w[k] = <<first[s + k - 1], last[s + k - 1]>>
    BY <1>5, <1>8
  <2> QED
    BY <1>1, <2>1, <2>2 DEF ReadAt
<1> QED
  BY <1>10, <1>11

\* There are as many readings of a quote as there are starts.
LEMMA ReadingsCount ==
    ASSUME NEW words \in Seq(PlacedWord), NEW quote \in Seq(Text),
           IsFiniteSet(MatchingStarts(Joined(words), quote))
    PROVE  Cardinality(Readings(words, quote)) = Cardinality(MatchingStarts(Joined(words), quote))
<1>1. PICK first, last : /\ Stretches(words, Len(words), Joined(words), first, last)
                         /\ Tells(words, Len(words), Joined(words), first, last)
  BY JoinedTells
<1> DEFINE M == MatchingStarts(Joined(words), quote)
           R == Readings(words, quote)
           F == [s \in M |-> ReadAt(quote, first, last, s)]
<1>2. \A s \in M : /\ ReadAt(quote, first, last, s) \in R
                   /\ \A k \in DOMAIN quote : s + k - 1 \in 1..Len(Joined(words))
                   /\ 1 \in DOMAIN quote
  BY <1>1, StartsRead
<1>3. \A w \in R : \E s \in M : w = ReadAt(quote, first, last, s)
  BY <1>1, ReadingsStart
<1>4. ASSUME NEW s \in M, NEW t \in M, ReadAt(quote, first, last, s) = ReadAt(quote, first, last, t)
      PROVE  s = t
  <2>1. ReadAt(quote, first, last, s)[1] = <<first[s + 1 - 1], last[s + 1 - 1]>>
        /\ ReadAt(quote, first, last, t)[1] = <<first[t + 1 - 1], last[t + 1 - 1]>>
    BY <1>2 DEF ReadAt
  <2>2. s + 1 - 1 = s /\ t + 1 - 1 = t
    BY DEF MatchingStarts, Starts
  <2>3. s \in 1..Len(Joined(words)) /\ t \in 1..Len(Joined(words))
    <3>1. s + 1 - 1 \in 1..Len(Joined(words)) /\ t + 1 - 1 \in 1..Len(Joined(words))
      BY <1>2
    <3> QED
      BY <2>2, <3>1
  <2>4. first[s] = first[t]
    <3>1. <<first[s], last[s]>> = <<first[t], last[t]>>
      BY <1>4, <2>1, <2>2
    <3> QED
      BY <3>1
  <2>5. Len(words) \in Nat
    BY LenProperties
  <2> QED
    BY <1>1, <2>3, <2>4, <2>5, StretchesRise
<1> HIDE DEF M, R
<1>5. F \in Bijection(M, R)
  <2>1. F \in [M -> R]
    BY <1>2
  <2>2. \A s, t \in M : F[s] = F[t] => s = t
    BY <1>4
  <2>3. \A w \in R : \E s \in M : F[s] = w
    BY <1>3
  <2> HIDE DEF F
  <2> QED
    BY <2>1, <2>2, <2>3 DEF Bijection, Injection, Surjection, IsInjective
<1>6. ExistsBijection(M, R)
  BY <1>5 DEF ExistsBijection
<1>7. IsFiniteSet(M)
  BY DEF M
<1>8. Cardinality(R) = Cardinality(M)
  BY <1>6, <1>7, FS_Bijection
<1> QED
  BY <1>8 DEF M, R

\* find_occurrences is exact on every page.
LEMMA OccurrencesAre ==
    ASSUME NEW map, map.words \in Seq(PlacedWord), NEW quote \in Seq(Text)
    PROVE  Len(Occurrences(map, quote)) = Cardinality(Readings(map.words, quote))
<1>1. PICK first, last : Stretches(map.words, Len(map.words), Joined(map.words), first, last)
  BY JoinedTells
<1> DEFINE L == Len(Joined(map.words))
<1>2. L \in Nat
  BY <1>1, LenProperties DEF Stretches
<1>3. /\ IsFiniteSet(MatchingStarts(Joined(map.words), quote))
      /\ Len(Occurrences(map, quote)) = Cardinality(MatchingStarts(Joined(map.words), quote))
  BY <1>2, FoundAre
<1> QED
  BY <1>3, ReadingsCount

(***************************************************************************)
(* What a highlight covers.                                                *)
(***************************************************************************)

LEMMA Scaled ==
    ASSUME NEW a \in Int, NEW w \in Nat \ {0}, NEW z \in Nat
    PROVE  (a * (w * z)) \div w = a * z
<1> DEFINE c == a * z
<1>1. a * (w * z) = w * c /\ c \in Int
  OBVIOUS
<1>2. \A i \in Int, v \in Nat \ {0} : (v * i) \div v = i
  OBVIOUS
<1> HIDE DEF c
<1>3. (w * c) \div w = c
  BY <1>1, <1>2
<1> QED
  BY <1>1, <1>3 DEF c

LEMMA Monotone ==
    ASSUME NEW a \in Int, NEW b \in Int, a <= b, NEW z \in Nat
    PROVE  a * z <= b * z
  OBVIOUS

\* A span of whole units covers its pixels.
LEMMA SpanCovers ==
    ASSUME NEW low \in Nat, NEW high \in Nat, NEW size \in Nat \ {0}, NEW z \in Nat \ {0},
           low < high, high <= size
    PROVE  (low * z)..(high * z - 1) \subseteq Span(low, high, size * z, size, size * z)
<1> DEFINE l == low * z
           h == high * z
           d == size * z
<1>1. (low * d) \div size = l /\ (high * d) \div size = h
  BY Scaled
<1>2. l \in Int /\ h \in Int /\ d \in Int /\ 0 <= l /\ h <= d /\ l <= d - 1
  <2>1. l \in Int /\ h \in Int /\ d \in Int /\ 0 <= l
    OBVIOUS
  <2>2. h <= d
    BY Monotone
  <2>3. (low + 1) * z <= d
    BY low + 1 \in Int, low + 1 <= size, Monotone
  <2>4. (low + 1) * z = l + z
    OBVIOUS
  <2> HIDE DEF l, h, d
  <2> QED
    BY <2>1, <2>2, <2>3, <2>4
<1> HIDE DEF l, h, d
<1>3. ClampPixel(l, d) <= l /\ h - 1 <= ClampPixel(h, d) /\ ClampPixel(l, d) \in Int /\ ClampPixel(h, d) \in Int
  BY <1>2 DEF ClampPixel, Upper, Lower
<1>4. l..(h - 1) \subseteq ClampPixel(l, d)..ClampPixel(h, d)
  BY <1>2, <1>3
<1>5. Span(low, high, d, size, d) = ClampPixel(l, d)..ClampPixel(h, d)
  BY <1>1 DEF Span
<1>6. l..(h - 1) \subseteq Span(low, high, d, size, d)
  BY <1>4, <1>5
<1> QED
  BY <1>6 DEF l, h, d

\* The rectangle a map stores is that of the box where the map puts it.
LEMMA PlacedIs ==
    ASSUME NEW page \in Page, NEW box \in Box
    PROVE  Placed(page, box) \in Box /\ PageRect(page, box) = FlippedRect(page.height, Placed(page, box))
<1>1. page.height \in Int
  BY DEF Page
<1>2. box.left \in Int /\ box.top \in Int /\ box.right \in Int /\ box.bottom \in Int
  BY DEF Box
<1>3. CASE page.by = "tesseract"
  BY <1>3 DEF Placed, PageRect
<1>4. CASE page.by # "tesseract"
  <2> DEFINE placed == Placed(page, box)
  <2>1. /\ placed = [left |-> box.left, top |-> page.height - box.bottom, right |-> box.right,
                     bottom |-> page.height - box.top]
    BY <1>4 DEF Placed, Box
  <2>2. page.height - box.bottom \in Int /\ page.height - box.top \in Int
    BY <1>1, <1>2
  <2>3. placed \in Box
    BY <1>2, <2>1, <2>2 DEF Box
  <2>4. /\ placed.left = box.left /\ placed.right = box.right
        /\ page.height - placed.bottom = box.top /\ page.height - placed.top = box.bottom
    BY <1>1, <1>2, <2>1
  <2>5. FlippedRect(page.height, placed) = PlainRect(box)
    BY <2>4 DEF FlippedRect, PlainRect
  <2> QED
    BY <1>4, <2>3, <2>5 DEF PageRect
<1> QED
  BY <1>3, <1>4

LEMMA HighlightCoversBox ==
    ASSUME NEW page \in Page, IsDefault(page), NEW box \in Box,
           ValidRect(FlippedRect(page.height, box), page.width, page.height)
    PROVE  PixelsOf(box) \subseteq DrawHighlight(page, FlippedRect(page.height, box), RenderDims)
<1> DEFINE W == page.width
           H == page.height
           r == FlippedRect(H, box)
<1>1. W \in Nat \ {0} /\ H \in Nat \ {0} /\ Zoom \in Nat \ {0} /\ RenderDims[1] = W /\ RenderDims[2] = H
  BY SizeAssumption DEF Page, IsDefault, RenderDims
<1>2. box.left \in Int /\ box.top \in Int /\ box.right \in Int /\ box.bottom \in Int
  BY DEF Box
<1>3. r.x[1] = box.left /\ r.x[2] = box.right /\ r.y[1] = H - box.bottom /\ r.y[2] = H - box.top
  BY DEF FlippedRect
<1>4. /\ r.x[1] >= 0 /\ r.y[1] >= 0 /\ r.x[1] < r.x[2] /\ r.y[1] < r.y[2]
      /\ r.x[2] <= W /\ r.y[2] <= H
  BY DEF ValidRect
<1> HIDE DEF W, H, r
<1>5. /\ box.left \in Nat /\ box.right \in Nat /\ box.left < box.right /\ box.right <= W
      /\ box.top \in Nat /\ box.bottom \in Nat /\ box.top < box.bottom /\ box.bottom <= H
      /\ H - r.y[2] = box.top /\ H - r.y[1] = box.bottom
  BY <1>1, <1>2, <1>3, <1>4
<1>6. (box.left * Zoom)..(box.right * Zoom - 1) \subseteq Span(box.left, box.right, W * Zoom, W, W * Zoom)
  BY <1>1, <1>5, SpanCovers
<1>7. (box.top * Zoom)..(box.bottom * Zoom - 1) \subseteq Span(box.top, box.bottom, H * Zoom, H, H * Zoom)
  BY <1>1, <1>5, SpanCovers
<1>8. DrawHighlight(page, r, RenderDims) =
        Span(box.left, box.right, W * Zoom, W, W * Zoom) \X Span(box.top, box.bottom, H * Zoom, H, H * Zoom)
  BY <1>1, <1>3, <1>5 DEF DrawHighlight, Columns, W, H
<1>9. PixelsOf(box) \subseteq Span(box.left, box.right, W * Zoom, W, W * Zoom) \X Span(box.top, box.bottom, H * Zoom, H, H * Zoom)
  BY <1>6, <1>7 DEF PixelsOf
<1> QED
  BY <1>8, <1>9 DEF r, H

\* Only the texts of words say how they are read.
LEMMA SameTextsSpell ==
    ASSUME NEW words, NEW others, NEW a \in Nat, NEW b \in Nat, a <= b,
           \A n \in a..b : words[n].text = others[n].text
    PROVE  Spelled(words, a, b) = Spelled(others, a, b)
<1>1. PICK f : Spells(f, words, a, b) /\ Spelled(words, a, b) = f[b]
  BY SpelledIs
<1>2. PICK g : Spells(g, others, a, b) /\ Spelled(others, a, b) = g[b]
  BY SpelledIs
<1>3. Spells(f, others, a, b)
  <2> DEFINE Next1(i) == IF i = a THEN words[a].text
                         ELSE IF words[i].text = <<>> THEN f[i - 1]
                         ELSE Front(f[i - 1]) \o words[i].text
             Other1(i) == IF i = a THEN others[a].text
                          ELSE IF others[i].text = <<>> THEN f[i - 1]
                          ELSE Front(f[i - 1]) \o others[i].text
  <2>1. f = [i \in a..b |-> Next1(i)]
    BY <1>1 DEF Spells
  <2>2. \A i \in a..b : Next1(i) = Other1(i)
    OBVIOUS
  <2> HIDE DEF Next1
  <2>3. f = [i \in a..b |-> Other1(i)]
    BY <2>1, <2>2
  <2> QED
    BY <2>3 DEF Spells
<1> QED
  BY <1>1, <1>2, <1>3, SpellingsAgree

LEMMA SameTextsRead ==
    ASSUME NEW words, NEW others, NEW N \in Nat, DOMAIN words = 1..N, DOMAIN others = 1..N,
           \A n \in 1..N : words[n].text = others[n].text,
           NEW quote, NEW w \in Readings(words, quote)
    PROVE  w \in Readings(others, quote)
<1>1. Printed(words) = Printed(others) /\ Printed(words) \subseteq 1..N
  BY DEF Printed
<1>2. \A n \in Printed(words) : Broken(words, n) <=> Broken(others, n)
  BY <1>1 DEF Broken
<1>3. ASSUME NEW v \in WholeWords(words)
      PROVE  v \in WholeWords(others) /\ Spelled(words, v[1], v[2]) = Spelled(others, v[1], v[2])
  <2>1. v \in Printed(words) \X Printed(words) /\ IsWholeWord(words, v[1], v[2])
    BY DEF WholeWords
  <2>2. v[1] \in Printed(words) /\ v[2] \in Printed(words)
    BY <2>1
  <2>3. IsWholeWord(others, v[1], v[2])
    BY <1>1, <1>2, <2>1, <2>2 DEF IsWholeWord
  <2>4. v[1] \in Nat /\ v[2] \in Nat /\ v[1] <= v[2] /\ v[1] \in 1..N /\ v[2] \in 1..N
    BY <1>1, <2>1, <2>2 DEF IsWholeWord
  <2>5. \A n \in v[1]..v[2] : words[n].text = others[n].text
    BY <2>4
  <2>6. Spelled(words, v[1], v[2]) = Spelled(others, v[1], v[2])
    BY <2>4, <2>5, SameTextsSpell
  <2> QED
    BY <1>1, <2>1, <2>3, <2>6 DEF WholeWords
<1>4. /\ w \in [DOMAIN quote -> WholeWords(words)] /\ quote # <<>>
      /\ \A k \in DOMAIN quote : Spelled(words, w[k][1], w[k][2]) = quote[k]
      /\ \A k \in DOMAIN quote \ {1} : /\ w[k - 1][2] < w[k][1]
                                       /\ \A n \in Printed(words) : ~(w[k - 1][2] < n /\ n < w[k][1])
  BY DEF Readings
<1>5. w \in [DOMAIN quote -> WholeWords(others)]
  BY <1>3, <1>4
<1>6. \A k \in DOMAIN quote : Spelled(others, w[k][1], w[k][2]) = quote[k]
  BY <1>3, <1>4
<1> QED
  BY <1>1, <1>4, <1>5, <1>6 DEF Readings

(***************************************************************************)
(* The state.                                                              *)
(***************************************************************************)

\* Whatever is stored was made from what the document shows; a citation keeps
\* the rectangles of an occurrence; the image is the one of a citation.
GeometryTypes ==
    /\ DOMAIN pages = Number /\ DOMAIN maps = Number /\ DOMAIN citations = Quote \X Number
    /\ \A p \in Number : maps[p] # None =>
         pages[p] # None /\ pages[p] \in Page /\ maps[p] = TextMap(pages[p])

CitationsHold ==
    \A id \in Quote \X Number : citations[id] # None =>
        /\ maps[id[2]] # None /\ ValidMap(maps[id[2]])
        /\ \E n \in 1..Len(Occurrences(maps[id[2]], id[1])) :
             citations[id].rects = Occurrences(maps[id[2]], id[1])[n]

ImageHolds ==
    image # None =>
        /\ image.of \in Quote \X Number /\ citations[image.of] # None
        /\ image.pixels = UNION {DrawHighlight(pages[image.of[2]], r, RenderDims) :
                                     r \in Range(citations[image.of].rects)}

GeometryInv == GeometryTypes /\ CitationsHold /\ ImageHolds

LEMMA GeometryStarts == GeometryInit => GeometryInv
  BY DEF GeometryInit, GeometryInv, GeometryTypes, CitationsHold, ImageHolds

LEMMA PageIsSome ==
    ASSUME NEW page \in Page
    PROVE  page # None
<1>1. DOMAIN page = {"by", "width", "height", "words"}
  BY DEF Page
<1>2. DOMAIN None = {"none"}
  BY DEF None
<1> QED
  BY <1>1, <1>2

\* The words of a map.
LEMMA MapOf ==
    ASSUME NEW page \in Page
    PROVE  /\ TextMap(page).words \in Seq(PlacedWord)
           /\ TextMap(page).width = page.width /\ TextMap(page).height = page.height
           /\ page.words \in Seq([text : Seq(STRING), box : Box])
           /\ Len(page.words) \in Nat /\ DOMAIN page.words = 1..Len(page.words)
           /\ DOMAIN TextMap(page).words = 1..Len(page.words)
           /\ \A i \in 1..Len(page.words) :
                /\ page.words[i].box \in Box
                /\ TextMap(page).words[i].text = page.words[i].text
                /\ TextMap(page).words[i].rect = PageRect(page, page.words[i].box)
<1> DEFINE ws == page.words
           N == Len(ws)
           made(i) == [text |-> ws[i].text, rect |-> PageRect(page, ws[i].box)]
<1>1. ws \in Seq([text : Seq(STRING), box : Box]) /\ page.height \in Int
  BY DEF Page
<1>2. N \in Nat /\ DOMAIN ws = 1..N /\ \A i \in 1..N : ws[i] \in [text : Seq(STRING), box : Box]
  BY <1>1, LenProperties, ElementOfSeq
<1>3. TextMap(page).words = [i \in 1..N |-> made(i)]
  BY <1>2 DEF TextMap
<1>4. ASSUME NEW i \in 1..N
      PROVE  made(i) \in PlacedWord
  <2>1. ws[i].text \in Text /\ ws[i].box \in Box
    BY <1>2 DEF Text
  <2>2. PageRect(page, ws[i].box) \in [x : Int \X Int, y : Int \X Int]
    <3> DEFINE box == Placed(page, ws[i].box)
               low == page.height - box.bottom
               high == page.height - box.top
    <3>0. box \in Box /\ PageRect(page, ws[i].box) = FlippedRect(page.height, box)
      BY <2>1, PlacedIs
    <3>1. box.left \in Int /\ box.right \in Int /\ box.top \in Int /\ box.bottom \in Int
      BY <3>0 DEF Box
    <3>2. low \in Int /\ high \in Int
      BY <1>1, <3>1
    <3>3. FlippedRect(page.height, box) = [x |-> <<box.left, box.right>>, y |-> <<low, high>>]
      BY DEF FlippedRect
    <3> HIDE DEF low, high, box
    <3>4. FlippedRect(page.height, box) \in [x : Int \X Int, y : Int \X Int]
      BY <3>1, <3>2, <3>3
    <3> QED
      BY <3>0, <3>4
  <2> QED
    BY <2>1, <2>2 DEF PlacedWord
<1>5. [i \in 1..N |-> made(i)] \in Seq(PlacedWord)
  <2> HIDE DEF made
  <2> QED
    BY <1>2, <1>4, IsASeq
<1> QED
  BY <1>1, <1>2, <1>3, <1>5 DEF TextMap

LEMMA GeometryKeeps == GeometryInv /\ [GeometryNext]_geometryVars => GeometryInv'
<1> SUFFICES ASSUME GeometryInv, [GeometryNext]_geometryVars PROVE GeometryInv'
  OBVIOUS
<1> USE DEF GeometryInv
<1>1. CASE StoreMap
  <2>0. PICK p \in Number : \E layout \in Layout[p] :
          /\ pages[p] = None
          /\ pages' = [pages EXCEPT ![p] = layout]
          /\ maps' = [maps EXCEPT ![p] = TextMap(layout)]
          /\ UNCHANGED <<citations, image>>
    BY <1>1 DEF StoreMap
  <2>1. PICK layout \in Layout[p] :
          /\ pages[p] = None
          /\ pages' = [pages EXCEPT ![p] = layout]
          /\ maps' = [maps EXCEPT ![p] = TextMap(layout)]
          /\ UNCHANGED <<citations, image>>
    BY <2>0
  <2>2. layout \in Page /\ layout # None
    BY PagesAssumption, PageIsSome
  <2>3. /\ pages'[p] = layout /\ maps'[p] = TextMap(layout)
        /\ DOMAIN pages' = Number /\ DOMAIN maps' = Number
        /\ \A o \in Number : o # p => pages'[o] = pages[o] /\ maps'[o] = maps[o]
    BY <2>1 DEF GeometryTypes
  <2>4. \A o \in Number : maps[o] # None => o # p
    BY <2>1 DEF GeometryTypes
  <2>5. GeometryTypes'
    <3>1. \A o \in Number : maps'[o] # None =>
            pages'[o] # None /\ pages'[o] \in Page /\ maps'[o] = TextMap(pages'[o])
      BY <2>2, <2>3 DEF GeometryTypes
    <3> QED
      BY <2>1, <2>3, <3>1 DEF GeometryTypes
  <2>6. ASSUME NEW id \in Quote \X Number, citations[id] # None
        PROVE  maps'[id[2]] = maps[id[2]] /\ pages'[id[2]] = pages[id[2]]
    <3>1. id[2] \in Number /\ maps[id[2]] # None
      BY <2>6 DEF CitationsHold
    <3> QED
      BY <2>3, <2>4, <3>1
  <2>7. CitationsHold'
    <3>1. ASSUME NEW id \in Quote \X Number, citations'[id] # None
          PROVE  /\ maps'[id[2]] # None /\ ValidMap(maps'[id[2]])
                 /\ \E n \in 1..Len(Occurrences(maps'[id[2]], id[1])) :
                      citations'[id].rects = Occurrences(maps'[id[2]], id[1])[n]
      <4>1. citations' = citations /\ maps'[id[2]] = maps[id[2]]
        BY <2>1, <2>6, <3>1
      <4> QED
        BY <3>1, <4>1 DEF CitationsHold
    <3> QED
      BY <3>1 DEF CitationsHold
  <2>8. ImageHolds'
    <3>1. ASSUME image # None
          PROVE  /\ image.of \in Quote \X Number /\ citations[image.of] # None
                 /\ image.pixels = UNION {DrawHighlight(pages'[image.of[2]], r, RenderDims) :
                                              r \in Range(citations[image.of].rects)}
      <4>1. image.of \in Quote \X Number /\ citations[image.of] # None
        BY <3>1 DEF ImageHolds
      <4>2. pages'[image.of[2]] = pages[image.of[2]]
        BY <2>6, <4>1
      <4> QED
        BY <3>1, <4>1, <4>2 DEF ImageHolds
    <3>2. image' = image /\ citations' = citations
      BY <2>1
    <3> QED
      BY <3>1, <3>2 DEF ImageHolds
  <2> QED
    BY <2>5, <2>7, <2>8
<1>2. CASE Cite
  <2>1. PICK quote \in Quote, n \in 1..2, p \in Number :
          /\ Holds(p, quote, n)
          /\ \A o \in Number : o <= p /\ maps[o] # None => ValidMap(maps[o])
          /\ citations[<<quote, p>>] = None
          /\ citations' = [citations EXCEPT ![<<quote, p>>] =
                              [nth |-> n, rects |-> Occurrences(maps[p], quote)[n]]]
          /\ UNCHANGED <<pages, maps, image>>
    BY <1>2 DEF Cite
  <2> DEFINE here == <<quote, p>>
             found == Occurrences(maps[p], quote)
             cited == [nth |-> n, rects |-> found[n]]
  <2>2. here \in Quote \X Number /\ here[1] = quote /\ here[2] = p
    OBVIOUS
  <2>3. /\ DOMAIN citations' = Quote \X Number /\ citations'[here] = cited
        /\ \A id \in Quote \X Number : id # here => citations'[id] = citations[id]
    <3>1. citations' = [citations EXCEPT ![here] = cited] /\ DOMAIN citations = Quote \X Number
      BY <2>1 DEF GeometryTypes
    <3> HIDE DEF here, cited
    <3> QED
      BY <2>2, <3>1
  <2>4. maps[p] # None /\ ValidMap(maps[p]) /\ n \in 1..Len(found) /\ cited.rects = found[n]
    <3>1. maps[p] # None /\ n <= Len(found)
      BY <2>1 DEF Holds
    <3>2. Len(found) \in Nat
      <4>1. pages[p] \in Page /\ maps[p] = TextMap(pages[p])
        BY <3>1 DEF GeometryTypes
      <4>2. maps[p].words \in Seq(PlacedWord) /\ quote \in Seq(Text)
        BY <4>1, MapOf, QuoteAssumption DEF Text
      <4>3. Len(Joined(maps[p].words)) \in Nat
        BY <4>2, JoinedTells, LenProperties DEF Stretches
      <4> QED
        BY <4>2, <4>3, FoundAre
    <3>3. ValidMap(maps[p])
      <4>1. p <= p
        BY PagesAssumption
      <4> QED
        BY <2>1, <3>1, <4>1
    <3> QED
      BY <3>1, <3>2, <3>3
  <2> HIDE DEF here, cited, found
  <2>5. GeometryTypes'
    BY <2>1, <2>3 DEF GeometryTypes
  <2>6. CitationsHold'
    <3>1. ASSUME NEW id \in Quote \X Number, citations'[id] # None
          PROVE  /\ maps[id[2]] # None /\ ValidMap(maps[id[2]])
                 /\ \E k \in 1..Len(Occurrences(maps[id[2]], id[1])) :
                      citations'[id].rects = Occurrences(maps[id[2]], id[1])[k]
      <4>1. CASE id = here
        BY <2>2, <2>3, <2>4, <4>1 DEF found
      <4>2. CASE id # here
        BY <2>3, <3>1, <4>2 DEF CitationsHold
      <4> QED
        BY <4>1, <4>2
    <3>2. maps' = maps
      BY <2>1
    <3> QED
      BY <3>1, <3>2 DEF CitationsHold
  <2>7. ImageHolds'
    <3>1. ASSUME image # None
          PROVE  /\ image.of \in Quote \X Number /\ citations'[image.of] # None
                 /\ citations'[image.of] = citations[image.of]
      <4>1. image.of \in Quote \X Number /\ citations[image.of] # None
        BY <3>1 DEF ImageHolds
      <4>2. image.of # here
        BY <2>1, <4>1 DEF here
      <4> QED
        BY <2>3, <4>1, <4>2
    <3>2. image' = image /\ pages' = pages
      BY <2>1
    <3> QED
      BY <3>1, <3>2 DEF ImageHolds
  <2> QED
    BY <2>5, <2>6, <2>7
<1>3. CASE Render
  <2>1. PICK id \in Quote \X Number :
          /\ citations[id] # None
          /\ image' = [of |-> id, pixels |-> UNION {DrawHighlight(pages[id[2]], r, RenderDims) :
                                                        r \in Range(citations[id].rects)}]
          /\ UNCHANGED <<pages, maps, citations>>
    BY <1>3 DEF Render
  <2>2. image'.of = id /\ image'.pixels = UNION {DrawHighlight(pages[id[2]], r, RenderDims) :
                                                     r \in Range(citations[id].rects)}
    BY <2>1
  <2>3. ImageHolds'
    BY <2>1, <2>2 DEF ImageHolds
  <2>4. GeometryTypes' /\ CitationsHold'
    BY <2>1 DEF GeometryTypes, CitationsHold
  <2> QED
    BY <2>3, <2>4
<1>4. CASE UNCHANGED geometryVars
  BY <1>4 DEF geometryVars, GeometryTypes, CitationsHold, ImageHolds
<1> QED
  BY <1>1, <1>2, <1>3, <1>4 DEF GeometryNext

LEMMA GeometryIsInvariant == GeometrySpec => []GeometryInv
<1>1. GeometryInit => GeometryInv
  BY GeometryStarts
<1>2. GeometryInv /\ [GeometryNext]_geometryVars => GeometryInv'
  BY GeometryKeeps
<1> QED
  BY <1>1, <1>2, PTL DEF GeometrySpec

\* On every page ever stored, for any layout and any quote, the search finds
\* the quote exactly as often as it can be read there.
THEOREM SearchIsExact == GeometrySpec => []OccurrencesAreExact
<1>1. GeometryInv => OccurrencesAreExact
  <2> SUFFICES ASSUME GeometryInv, NEW p \in Number, NEW quote \in Quote, maps[p] # None
               PROVE  Len(Occurrences(maps[p], quote)) = Cardinality(Readings(maps[p].words, quote))
    BY DEF OccurrencesAreExact
  <2>1. pages[p] \in Page /\ maps[p] = TextMap(pages[p])
    BY DEF GeometryInv, GeometryTypes
  <2>2. maps[p].words \in Seq(PlacedWord) /\ quote \in Seq(Text)
    BY <2>1, MapOf, QuoteAssumption DEF Text
  <2> QED
    BY <2>2, OccurrencesAre
<1> QED
  BY <1>1, GeometryIsInvariant, PTL

\* Every reviewer image of a page of the default size has a reading of its
\* quote, each unbroken word of which is highlighted completely where the map
\* puts it: in its place on a page tesseract read, upside down on one pdftotext
\* read.
THEOREM HighlightsCover == GeometrySpec => []HighlightCoversQuote
<1>1. GeometryInv => HighlightCoversQuote
  <2> DEFINE page == pages[image.of[2]]
             quote == image.of[1]
             map == maps[image.of[2]]
  <2> SUFFICES ASSUME GeometryInv, image # None, IsDefault(page)
               PROVE  \E w \in Readings(page.words, quote) : \A k \in DOMAIN quote :
                        w[k][1] = w[k][2] =>
                            PixelsOf(Placed(page, page.words[w[k][1]].box)) \subseteq image.pixels
    BY DEF HighlightCoversQuote
  <2>1. /\ image.of \in Quote \X Number /\ citations[image.of] # None
        /\ image.pixels = UNION {DrawHighlight(page, r, RenderDims) : r \in Range(citations[image.of].rects)}
    BY DEF GeometryInv, ImageHolds
  <2> DEFINE rects == citations[image.of].rects
             stream == Joined(map.words)
  <2>2. /\ map # None /\ ValidMap(map)
        /\ \E n \in 1..Len(Occurrences(map, quote)) : rects = Occurrences(map, quote)[n]
    BY <2>1 DEF GeometryInv, CitationsHold
  <2>3. page \in Page /\ map = TextMap(page)
    BY <2>1, <2>2 DEF GeometryInv, GeometryTypes
  <2>4. quote \in Seq(Text)
    BY <2>1, QuoteAssumption DEF Text
  <2> HIDE DEF page, map, quote, rects
  <2>5. /\ map.words \in Seq(PlacedWord)
        /\ map.width = page.width /\ map.height = page.height
        /\ Len(page.words) \in Nat /\ DOMAIN page.words = 1..Len(page.words)
        /\ DOMAIN map.words = 1..Len(page.words)
        /\ \A i \in 1..Len(page.words) :
             /\ page.words[i].box \in Box
             /\ map.words[i].text = page.words[i].text
             /\ map.words[i].rect = PageRect(page, page.words[i].box)
    BY <2>3, MapOf
  <2>6. PICK first, last : /\ Stretches(map.words, Len(map.words), stream, first, last)
                           /\ Tells(map.words, Len(map.words), stream, first, last)
    BY <2>5, JoinedTells
  <2>7. PICK s \in MatchingStarts(stream, quote) : rects = RectsAt(stream, quote, s)
    <3>1. Len(stream) \in Nat
      BY <2>6, LenProperties DEF Stretches
    <3>2. \A n \in 1..Len(Occurrences(map, quote)) : \E s \in MatchingStarts(stream, quote) :
             Occurrences(map, quote)[n] = RectsAt(stream, quote, s)
      BY <2>4, <3>1, FoundAre
    <3> QED
      BY <2>2, <3>2
  <2> DEFINE w == ReadAt(quote, first, last, s)
  <2>8. w \in Readings(map.words, quote) /\ \A k \in DOMAIN quote : s + k - 1 \in 1..Len(stream)
    BY <2>4, <2>5, <2>6, <2>7, StartsRead
  <2>9. w \in Readings(page.words, quote)
    BY <2>5, <2>8, SameTextsRead
  <2>10. ASSUME NEW k \in DOMAIN quote, w[k][1] = w[k][2]
         PROVE  PixelsOf(Placed(page, page.words[w[k][1]].box)) \subseteq image.pixels
    <3> DEFINE i == s + k - 1
               a == first[i]
               box == Placed(page, page.words[a].box)
               r == FlippedRect(page.height, box)
    <3>1. i \in 1..Len(stream) /\ w[k][1] = a /\ w[k][2] = last[i]
      BY <2>8 DEF ReadAt
    <3>2. stream[i] = map.words[a] /\ a \in 1..Len(map.words)
      BY <2>6, <2>10, <3>1 DEF Stretches, Tells
    <3>3. Len(map.words) = Len(page.words)
      BY <2>5, LenProperties
    <3>4. stream[i].rect = r /\ box \in Box
      BY <2>3, <2>5, <3>2, <3>3, PlacedIs
    <3>5. r \in Range(rects)
      <4>1. RectsAt(stream, quote, s)[k] = stream[i].rect /\ k \in DOMAIN RectsAt(stream, quote, s)
        BY DEF RectsAt
      <4> QED
        BY <2>7, <3>4, <4>1 DEF Range
    <3>6. ValidRect(r, page.width, page.height)
      <4>1. a \in DOMAIN map.words /\ map.words[a].rect = r
        BY <2>5, <3>2, <3>3, <3>4
      <4> QED
        BY <2>2, <2>5, <4>1 DEF ValidMap
    <3>7. PixelsOf(box) \subseteq DrawHighlight(page, r, RenderDims)
      <4>1. IsDefault(page)
        BY DEF page
      <4> QED
        BY <2>3, <3>4, <3>6, <4>1, HighlightCoversBox
    <3> HIDE DEF a, r, box
    <3>8. DrawHighlight(page, r, RenderDims) \subseteq image.pixels
      BY <2>1, <3>5 DEF page, rects
    <3> QED
      BY <3>1, <3>7, <3>8 DEF box
  <2> HIDE DEF w
  <2> QED
    BY <2>9, <2>10
<1> QED
  BY <1>1, GeometryIsInvariant, PTL
=============================================================================
