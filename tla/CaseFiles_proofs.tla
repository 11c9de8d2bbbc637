-------------------------- MODULE CaseFiles_proofs --------------------------
(***************************************************************************)
(* Proofs about CaseFiles, for any workers, pages, rows and number of      *)
(* commands: what events and relationships cite, that an ingest which      *)
(* ended well left every row reachable, that a written case file stays     *)
(* true, and which events a chain link is drawn between.                   *)
(***************************************************************************)
EXTENDS CaseFiles, FiniteSetTheorems, WellFoundedInduction, TLAPS

(***************************************************************************)
(* Sequences.  A sequence is taken as one of its own elements, so that     *)
(* nothing has to be said of what the statements of a command are.         *)
(***************************************************************************)

IsSeq(s) == s \in Seq(Range(s))

LEMMA SeqIs ==
    ASSUME NEW S, NEW s \in Seq(S)
    PROVE  IsSeq(s) /\ Range(s) \subseteq S
<1>1. s \in [1..Len(s) -> Range(s)] /\ Len(s) \in Nat
  BY DEF Range
<1> QED
  BY <1>1 DEF IsSeq, Range

LEMMA ConcatIs ==
    ASSUME NEW s, NEW t, IsSeq(s), IsSeq(t)
    PROVE  /\ IsSeq(s \o t)
           /\ Range(s \o t) = Range(s) \cup Range(t)
           /\ Len(s \o t) = Len(s) + Len(t)
           /\ \A i \in 1..Len(s) : (s \o t)[i] = s[i]
<1> DEFINE S == Range(s) \cup Range(t)
<1>1. s \in Seq(S) /\ t \in Seq(S)
  <2>1. s \in [1..Len(s) -> S] /\ t \in [1..Len(t) -> S] /\ Len(s) \in Nat /\ Len(t) \in Nat
    BY DEF IsSeq, Range
  <2> QED
    BY <2>1
<1>2. s \o t \in Seq(S) /\ Len(s \o t) = Len(s) + Len(t)
  BY <1>1
<1>3. \A i \in 1..Len(s) + Len(t) : (s \o t)[i] = IF i <= Len(s) THEN s[i] ELSE t[i - Len(s)]
  BY <1>1
<1>4. Len(s) \in Nat /\ Len(t) \in Nat /\ DOMAIN s = 1..Len(s) /\ DOMAIN t = 1..Len(t)
        /\ DOMAIN (s \o t) = 1..Len(s) + Len(t)
  BY <1>1, <1>2
<1>5. Range(s \o t) \subseteq S
  BY <1>2, SeqIs
<1>6. ASSUME NEW x \in Range(s) PROVE x \in Range(s \o t)
  <2>1. PICK i \in 1..Len(s) : x = s[i]
    BY <1>4, <1>6 DEF Range
  <2>2. i \in 1..Len(s) + Len(t) /\ (s \o t)[i] = x
    BY <1>3, <1>4, <2>1
  <2> QED
    BY <1>4, <2>2 DEF Range
<1>7. ASSUME NEW x \in Range(t) PROVE x \in Range(s \o t)
  <2>1. PICK i \in 1..Len(t) : x = t[i]
    BY <1>4, <1>7 DEF Range
  <2>2. i + Len(s) \in 1..Len(s) + Len(t) /\ (s \o t)[i + Len(s)] = x
    BY <1>3, <1>4, <2>1
  <2> QED
    BY <1>4, <2>2 DEF Range
<1>8. \A i \in 1..Len(s) : (s \o t)[i] = s[i]
  BY <1>3, <1>4
<1> QED
  BY <1>2, <1>5, <1>6, <1>7, <1>8, SeqIs

LEMMA ShortSeqs ==
    /\ IsSeq(<<>>) /\ Range(<<>>) = {}
    /\ \A a : IsSeq(<<a>>) /\ Range(<<a>>) = {a} /\ Len(<<a>>) = 1
    /\ \A a, b : IsSeq(<<a, b>>) /\ Range(<<a, b>>) = {a, b} /\ Len(<<a, b>>) = 2
    /\ \A a, b, c : IsSeq(<<a, b, c>>) /\ Range(<<a, b, c>>) = {a, b, c}
<1>1. IsSeq(<<>>) /\ Range(<<>>) = {}
  BY DEF IsSeq, Range
<1>2. ASSUME NEW a PROVE IsSeq(<<a>>) /\ Range(<<a>>) = {a} /\ Len(<<a>>) = 1
  BY DEF IsSeq, Range
<1>3. ASSUME NEW a, NEW b PROVE IsSeq(<<a, b>>) /\ Range(<<a, b>>) = {a, b} /\ Len(<<a, b>>) = 2
  <2>1. Range(<<a, b>>) = {a, b}
    BY DEF Range
  <2> QED
    BY <2>1 DEF IsSeq
<1>4. ASSUME NEW a, NEW b, NEW c PROVE IsSeq(<<a, b, c>>) /\ Range(<<a, b, c>>) = {a, b, c}
  <2>1. Range(<<a, b, c>>) = {a, b, c}
    BY DEF Range
  <2> QED
    BY <2>1 DEF IsSeq
<1> QED
  BY <1>1, <1>2, <1>3, <1>4

LEMMA FunSeq ==
    ASSUME NEW n \in Nat, NEW f, DOMAIN f = 1..n, f = [i \in 1..n |-> f[i]]
    PROVE  IsSeq(f) /\ Len(f) = n
<1>1. f \in [1..n -> Range(f)]
  BY DEF Range
<1>2. f \in Seq(Range(f))
  BY <1>1
<1> QED
  BY <1>1, <1>2 DEF IsSeq

LEMMA TailIs ==
    ASSUME NEW s, IsSeq(s), s # <<>>
    PROVE  /\ IsSeq(Tail(s))
           /\ Len(s) \in Nat /\ Len(s) > 0 /\ Len(Tail(s)) = Len(s) - 1
           /\ Head(s) = s[1]
           /\ \A i \in 1..Len(s) - 1 : Tail(s)[i] = s[i + 1]
           /\ Range(s) = {Head(s)} \cup Range(Tail(s))
<1>1. /\ s \in Seq(Range(s)) /\ Len(s) \in Nat /\ Len(s) > 0
      /\ DOMAIN s = 1..Len(s)
  BY DEF IsSeq
<1>2. /\ Tail(s) \in Seq(Range(s)) /\ Len(Tail(s)) = Len(s) - 1 /\ Head(s) = s[1]
      /\ \A i \in 1..Len(s) - 1 : Tail(s)[i] = s[i + 1]
      /\ DOMAIN Tail(s) = 1..Len(s) - 1
  BY <1>1
<1>3. Range(s) \subseteq {Head(s)} \cup Range(Tail(s))
  <2>1. SUFFICES ASSUME NEW i \in 1..Len(s) PROVE s[i] \in {Head(s)} \cup Range(Tail(s))
    BY <1>1 DEF Range
  <2>2. CASE i = 1
    BY <1>2, <2>2
  <2>3. CASE i # 1
    <3>1. i - 1 \in 1..Len(s) - 1 /\ Tail(s)[i - 1] = s[i]
      BY <1>1, <1>2, <2>3
    <3> QED
      BY <1>2, <3>1 DEF Range
  <2> QED
    BY <2>2, <2>3
<1>4. {Head(s)} \cup Range(Tail(s)) \subseteq Range(s)
  <2>1. s[1] \in Range(s)
    BY <1>1 DEF Range
  <2> QED
    BY <1>2, <2>1, SeqIs
<1> QED
  BY <1>1, <1>2, <1>3, <1>4, SeqIs

\* Every nonempty set of naturals has a least element: induction over numbers
\* as the search for a smallest counterexample.
LEMMA LeastOfNat ==
    ASSUME NEW A \in SUBSET Nat, A # {}
    PROVE  \E m \in A : \A k \in A : m <= k
<1> DEFINE U == {0..i : i \in A}
           R == StrictSubsetOrdering(Nat)
           F == FiniteSubsetsOf(Nat)
<1>1. IsWellFoundedOn(R, F)
  BY FS_StrictSubsetOrderingWellFounded
<1>2. U \subseteq F /\ U # {}
  <2>1. \A i \in A : 0..i \in SUBSET Nat /\ IsFiniteSet(0..i)
    BY FS_Interval
  <2> QED
    BY <2>1 DEF FiniteSubsetsOf
<1>3. \E x \in U : \A y \in U : ~(<<y, x>> \in R)
  <2> HIDE DEF U, R, F
  <2> QED
    BY <1>1, <1>2, WFMin
<1>4. PICK m \in A : \A k \in A : ~(<<0..k, 0..m>> \in R)
  <2> HIDE DEF R
  <2> QED
    BY <1>3
<1>5. ASSUME NEW k \in A, k < m PROVE FALSE
  <2>1. 0..k \subseteq 0..m /\ m \in 0..m /\ m \notin 0..k /\ 0..k \in SUBSET Nat /\ 0..m \in SUBSET Nat
    BY <1>5
  <2>2. <<0..k, 0..m>> \in R
    BY <2>1 DEF StrictSubsetOrdering
  <2> QED
    BY <1>4, <2>2
<1> QED
  BY <1>5

\* What FlattenSeq defines recursively, up to the n-th sequence.
Flattens(f, ss, n) == f = [i \in 1..n |-> IF i = 1 THEN ss[i] ELSE f[i-1] \o ss[i]]

LEMMA FlattenExists ==
    ASSUME NEW ss, NEW n \in Nat
    PROVE  \E f : Flattens(f, ss, n)
<1> DEFINE A == {k \in Nat : ~ \E f : Flattens(f, ss, k)}
<1>1. SUFFICES ASSUME A # {} PROVE FALSE
  OBVIOUS
<1>2. PICK m \in A : \A k \in A : m <= k
  BY <1>1, LeastOfNat
<1>3. m # 0
  <2>1. Flattens([i \in 1..0 |-> 0], ss, 0)
    BY DEF Flattens
  <2> QED
    BY <2>1
<1>4. PICK g : Flattens(g, ss, m - 1)
  <2>1. m - 1 \in Nat /\ m - 1 \notin A
    BY <1>2, <1>3
  <2> QED
    BY <2>1
<1> DEFINE f == [i \in 1..m |-> IF i < m THEN g[i] ELSE IF i = 1 THEN ss[i] ELSE g[m-1] \o ss[i]]
<1>5. ASSUME NEW i \in 1..m
      PROVE  f[i] = IF i = 1 THEN ss[i] ELSE f[i-1] \o ss[i]
  <2>1. CASE i < m
    <3>1. f[i] = g[i] /\ (i # 1 => f[i-1] = g[i-1])
      BY <2>1
    <3>2. i \in 1..(m - 1)
      BY <2>1
    <3>3. \A k \in 1..(m - 1) : g[k] = IF k = 1 THEN ss[k] ELSE g[k-1] \o ss[k]
      BY <1>4 DEF Flattens
    <3> HIDE DEF f
    <3> QED
      BY <3>1, <3>2, <3>3
  <2>2. CASE i = m
    <3>1. i # 1 => f[i-1] = g[i-1]
      BY <2>2
    <3> QED
      BY <2>2, <3>1
  <2> QED
    BY <2>1, <2>2
<1>6. f = [i \in 1..m |-> f[i]]
  OBVIOUS
<1> HIDE DEF f
<1>7. Flattens(f, ss, m)
  BY <1>5, <1>6 DEF Flattens
<1> QED
  BY <1>7

LEMMA FlattenIs ==
    ASSUME NEW ss, Len(ss) \in Nat, Len(ss) # 0
    PROVE  \E f : Flattens(f, ss, Len(ss)) /\ FlattenSeq(ss) = f[Len(ss)]
<1> DEFINE g == CHOOSE f : f = [i \in 1..Len(ss) |-> IF i = 1 THEN ss[i] ELSE f[i-1] \o ss[i]]
<1>1. FlattenSeq(ss) = g[Len(ss)]
  BY DEF FlattenSeq
<1>2. \E f : f = [i \in 1..Len(ss) |-> IF i = 1 THEN ss[i] ELSE f[i-1] \o ss[i]]
  BY FlattenExists DEF Flattens
<1>3. g = [i \in 1..Len(ss) |-> IF i = 1 THEN ss[i] ELSE g[i-1] \o ss[i]]
  BY <1>2
<1> HIDE DEF g
<1> QED
  BY <1>1, <1>3 DEF Flattens

\* A flattened sequence has the elements of its sequences.
LEMMA FlattenRange ==
    ASSUME NEW ss, IsSeq(ss), \A i \in DOMAIN ss : IsSeq(ss[i])
    PROVE  /\ IsSeq(FlattenSeq(ss))
           /\ \A x : x \in Range(FlattenSeq(ss)) <=> \E i \in DOMAIN ss : x \in Range(ss[i])
<1>1. Len(ss) \in Nat /\ DOMAIN ss = 1..Len(ss)
  BY DEF IsSeq
<1>2. CASE Len(ss) = 0
  <2>1. ss = <<>> /\ FlattenSeq(ss) = ss
    BY <1>2 DEF FlattenSeq, IsSeq
  <2> QED
    BY <1>1, <1>2, <2>1, ShortSeqs
<1>3. CASE Len(ss) # 0
  <2>1. PICK f : Flattens(f, ss, Len(ss)) /\ FlattenSeq(ss) = f[Len(ss)]
    BY <1>1, <1>3, FlattenIs
  <2>2. \A k \in 1..Len(ss) : f[k] = IF k = 1 THEN ss[k] ELSE f[k-1] \o ss[k]
    BY <2>1 DEF Flattens
  <2> DEFINE Good(n) == IsSeq(f[n]) /\ \A x : x \in Range(f[n]) <=> \E i \in 1..n : x \in Range(ss[i])
             A == {n \in 1..Len(ss) : ~Good(n)}
  <2>3. A = {}
    <3>1. SUFFICES ASSUME A # {} PROVE FALSE
      OBVIOUS
    <3>2. PICK m \in A : \A k \in A : m <= k
      <4>1. A \in SUBSET Nat
        BY <1>1
      <4> HIDE DEF A
      <4> QED
        BY <3>1, <4>1, LeastOfNat
    <3>3. m \in 1..Len(ss) /\ IsSeq(ss[m])
      BY <1>1
    <3>4. CASE m = 1
      <4>1. f[1] = ss[1]
        BY <2>2, <3>3, <3>4
      <4>2. Good(1)
        BY <3>3, <3>4, <4>1
      <4> QED
        BY <3>4, <4>2
    <3>5. CASE m # 1
      <4>1. m - 1 \in 1..Len(ss) /\ m - 1 \notin A
        BY <1>1, <3>2, <3>3, <3>5
      <4>2. Good(m - 1)
        BY <4>1
      <4>3. f[m] = f[m-1] \o ss[m]
        BY <2>2, <3>3, <3>5
      <4>4. IsSeq(f[m]) /\ Range(f[m]) = Range(f[m-1]) \cup Range(ss[m])
        BY <3>3, <4>2, <4>3, ConcatIs
      <4>5. ASSUME NEW x PROVE x \in Range(f[m]) <=> \E i \in 1..m : x \in Range(ss[i])
        <5>1. 1..m = 1..(m-1) \cup {m}
          BY <3>3
        <5> QED
          BY <4>2, <4>4, <5>1
      <4>6. Good(m)
        BY <4>4, <4>5
      <4> QED
        BY <4>6
    <3> QED
      BY <3>4, <3>5
  <2>4. Good(Len(ss))
    <3>1. Len(ss) \in 1..Len(ss)
      BY <1>1, <1>3
    <3> QED
      BY <2>3, <3>1
  <2> QED
    BY <1>1, <2>1, <2>4
<1> QED
  BY <1>2, <1>3
(***************************************************************************)
(* The writes of a command.                                                *)
(***************************************************************************)

\* A write that tells of a page, and the page.
Tells(x) == x.op = "relate" \/ (x.op = "event" /\ x.event.kind \in {"award", "solicitation"})
PageOf(x) == IF x.op = "relate" THEN x.page ELSE x.event.evidence

\* The page of an award or a solicitation has the row it tells of.
CitesRow(e) ==
    e.kind \in {"award", "solicitation"} =>
        \E i \in DOMAIN RowsOf[e.evidence] :
            LET row == RowsOf[e.evidence][i]
            IN  /\ row.raw \in e.raws
                /\ e.summary \in {<<row.raw, row.text>>, <<row.raw, row.text, "demo">>, <<row.text>>, <<"published">>}

IsIdentifier(i) == i = [matter |-> i.matter, raw |-> i.raw]

\* What dates and kinds of events tell of their matters: an award is dated and
\* no award is of the matter of the demo's two dated solicitation events; every
\* other solicitation is undated, which sorts before any date.
Dated(kind, date, m) ==
    /\ kind \in DOMAIN Stage /\ date \in Nat
    /\ kind = "award" => date # NoDate /\ m # TransitMatter
    /\ kind = "solicitation" => date = NoDate \/ m = TransitMatter
    /\ kind = "answers" => m = TransitMatter

WellMade(x) ==
    /\ x.op = "event" => CitesRow(x.event) /\ Dated(x.event.kind, x.event.date, x.event.matter)
    /\ x.op = "identifier" => IsIdentifier(x.identifier)

Fine(x, pages) == WellMade(x) /\ (Tells(x) => PageOf(x) \in pages)
FineWrites(s, pages) == IsSeq(s) /\ \A x \in Range(s) : Fine(x, pages)

LEMMA FineConcat ==
    ASSUME NEW s, NEW t, NEW pages, FineWrites(s, pages), FineWrites(t, pages)
    PROVE  FineWrites(s \o t, pages) /\ Range(s \o t) = Range(s) \cup Range(t)
  BY ConcatIs DEF FineWrites

LEMMA PlainWrites ==
    ASSUME NEW x, NEW pages, x.op \notin {"event", "identifier", "relate"}
    PROVE  Fine(x, pages)
  BY DEF Fine, WellMade, Tells

LEMMA OrganizationWritesAre ==
    ASSUME NEW m, NEW names, NEW pages, IsSeq(names)
    PROVE  FineWrites(OrganizationWrites(m, names), pages)
<1> DEFINE s == OrganizationWrites(m, names)
<1>1. DOMAIN names = 1..Len(names) /\ Len(names) \in Nat
  BY DEF IsSeq
<1>2. DOMAIN s = 1..Len(names) /\ s = [i \in 1..Len(names) |-> s[i]]
  BY <1>1 DEF OrganizationWrites
<1>3. \A i \in 1..Len(names) : s[i].op = "organization"
  BY <1>1 DEF OrganizationWrites
<1> HIDE DEF s
<1>4. IsSeq(s)
  BY <1>1, <1>2, FunSeq
<1>5. \A x \in Range(s) : x.op = "organization"
  BY <1>2, <1>3 DEF Range
<1> QED
  BY <1>4, <1>5, PlainWrites DEF FineWrites, s

LEMMA EventWriteIs ==
    ASSUME NEW m, NEW kind, NEW date, NEW summary, NEW raws, NEW page, NEW pages,
           Dated(kind, date, m),
           kind \in {"award", "solicitation"} =>
             /\ page \in pages
             /\ \E i \in DOMAIN RowsOf[page] :
                  LET row == RowsOf[page][i]
                  IN  /\ row.raw \in raws
                      /\ summary \in {<<row.raw, row.text>>, <<row.raw, row.text, "demo">>, <<row.text>>, <<"published">>}
    PROVE  LET x == EventWrite(m, kind, date, summary, raws, page)
           IN  /\ Fine(x, pages) /\ x.op = "event"
               /\ x.event.matter = m /\ x.event.summary = summary
<1> DEFINE x == EventWrite(m, kind, date, summary, raws, page)
<1>1. /\ x.op = "event" /\ x.event.matter = m /\ x.event.summary = summary
      /\ x.event.kind = kind /\ x.event.raws = raws /\ x.event.evidence = page
      /\ x.event.date = date
  BY DEF EventWrite
<1> HIDE DEF x
<1>2. CitesRow(x.event)
  BY <1>1 DEF CitesRow
<1>3. Tells(x) => PageOf(x) \in pages
  BY <1>1 DEF Tells, PageOf
<1>4. Fine(x, pages)
  BY <1>1, <1>2, <1>3 DEF Fine, WellMade
<1> QED
  BY <1>1, <1>4 DEF x

LEMMA MatterWritesAre ==
    ASSUME NEW m, NEW raw, NEW pages
    PROVE  FineWrites(<<MatterWrite(m), IdentifierWrite(m, raw)>>, pages)
<1>1. MatterWrite(m).op = "matter"
  BY DEF MatterWrite
<1>2. IdentifierWrite(m, raw).op = "identifier" /\ IdentifierWrite(m, raw).identifier = [matter |-> m, raw |-> raw]
  BY DEF IdentifierWrite
<1>3. Fine(MatterWrite(m), pages)
  BY <1>1, PlainWrites
<1>4. IsIdentifier([matter |-> m, raw |-> raw])
  BY DEF IsIdentifier
<1>5. Fine(IdentifierWrite(m, raw), pages)
  BY <1>2, <1>4 DEF Fine, WellMade, Tells
<1> QED
  BY <1>3, <1>5, ShortSeqs DEF FineWrites

\* The rows of a page reach a matter through these writes.
Reaches(s, row) ==
    Norm[row.raw] # None =>
        LET m == MatterFor(Norm[row.raw])
        IN  /\ \E x \in Range(s) : x.op = "matter" /\ x.matter = m
            /\ \E x \in Range(s) : x.op = "identifier" /\ x.identifier = [matter |-> m, raw |-> row.raw]
            /\ \E x \in Range(s) : x.op = "event" /\ x.event.matter = m /\ Last(x.event.summary) = row.text

LEMMA LastIs == \A a, b : Last(<<a>>) = a /\ Last(<<a, b>>) = b
  BY DEF Last

LEMMA RowWritesAre ==
    ASSUME NEW page \in Page, NEW i \in DOMAIN RowsOf[page]
    PROVE  /\ FineWrites(RowWrites(page, RowsOf[page][i]), {page})
           /\ Reaches(RowWrites(page, RowsOf[page][i]), RowsOf[page][i])
<1> DEFINE row == RowsOf[page][i]
<1>0. IsSeq(row.org)
  BY RowsAssumption DEF IsSeq, Range
<1>1. CASE SourceOf[page] = "awards"
  <2> DEFINE m == MatterFor(IF Norm[row.raw] = None THEN row.raw ELSE Norm[row.raw])
             e == EventWrite(m, "award", row.date, <<row.raw, row.text>>, {row.raw}, page)
             a == <<MatterWrite(m), IdentifierWrite(m, row.raw)>>
             b == OrganizationWrites(m, row.org)
  <2>1. RowWrites(page, row) = a \o b \o <<e>>
    BY <1>1 DEF RowWrites, AwardWrites
  <2>0. row.raw \in {row.raw}
          /\ <<row.raw, row.text>> \in {<<row.raw, row.text>>, <<row.raw, row.text, "demo">>, <<row.text>>, <<"published">>}
    OBVIOUS
  <2>2. Fine(e, {page}) /\ e.op = "event" /\ e.event.matter = m /\ e.event.summary = <<row.raw, row.text>>
    <3> DEFINE su == <<row.raw, row.text>>
               raws == {row.raw}
               date == row.date
               pages == {page}
    <3>1. /\ page \in pages
          /\ \E k \in DOMAIN RowsOf[page] :
               LET r == RowsOf[page][k]
               IN  /\ r.raw \in raws
                   /\ su \in {<<r.raw, r.text>>, <<r.raw, r.text, "demo">>, <<r.text>>, <<"published">>}
      BY <2>0
    <3>4. Dated("award", date, m)
      <4>1. row \in Range(RowsOf[page])
        BY DEF Range
      <4>2. row.raw \in DOMAIN Norm /\ date \in Nat \ {0}
        BY <1>1, <4>1, RowsAssumption
      <4>3. (IF Norm[row.raw] = None THEN row.raw ELSE Norm[row.raw]) # Transit
        BY <4>2, TransitAssumption
      <4>4. m # TransitMatter
        BY <4>3 DEF MatterFor, TransitMatter
      <4> QED
        BY <4>2, <4>4 DEF Dated, NoDate, Stage
    <3>2. e = EventWrite(m, "award", date, su, raws, page)
      OBVIOUS
    <3> DEFINE kind == "award"
    <3>5. Dated(kind, date, m) /\ e = EventWrite(m, kind, date, su, raws, page)
      BY <3>2, <3>4
    <3> HIDE DEF m, su, raws, date, pages, kind, e, row
    <3>3. Fine(e, pages) /\ e.op = "event" /\ e.event.matter = m /\ e.event.summary = su
      BY <3>1, <3>5, EventWriteIs
    <3> QED
      BY <3>3 DEF su, pages
  <2> HIDE DEF e
  <2>3. FineWrites(a, {page}) /\ Range(a) = {MatterWrite(m), IdentifierWrite(m, row.raw)}
    BY MatterWritesAre, ShortSeqs
  <2>4. FineWrites(b, {page})
    BY <1>0, OrganizationWritesAre
  <2>5. FineWrites(<<e>>, {page}) /\ Range(<<e>>) = {e}
    BY <2>2, ShortSeqs DEF FineWrites
  <2>6. /\ MatterWrite(m).op = "matter" /\ MatterWrite(m).matter = m
        /\ IdentifierWrite(m, row.raw).op = "identifier"
        /\ IdentifierWrite(m, row.raw).identifier = [matter |-> m, raw |-> row.raw]
    BY DEF MatterWrite, IdentifierWrite
  <2>7. Norm[row.raw] # None => m = MatterFor(Norm[row.raw])
    OBVIOUS
  <2>8. Last(e.event.summary) = row.text
    BY <2>2, LastIs
  <2> HIDE DEF m, a, b, row
  <2>9. FineWrites(a \o b, {page}) /\ Range(a \o b) = Range(a) \cup Range(b)
    BY <2>3, <2>4, FineConcat
  <2>10. FineWrites(a \o b \o <<e>>, {page}) /\ Range(a \o b \o <<e>>) = Range(a) \cup Range(b) \cup {e}
    BY <2>5, <2>9, FineConcat
  <2>11. Reaches(RowWrites(page, row), row)
    BY <2>1, <2>2, <2>3, <2>6, <2>7, <2>8, <2>10 DEF Reaches
  <2> QED
    BY <2>1, <2>10, <2>11 DEF row
<1>2. CASE SourceOf[page] # "awards" /\ Norm[row.raw] = None
  <2>1. RowWrites(page, row) = <<>>
    BY <1>2 DEF RowWrites, SolicitationWrites
  <2> QED
    BY <1>2, <2>1, ShortSeqs DEF FineWrites, Reaches
<1>3. CASE SourceOf[page] # "awards" /\ Norm[row.raw] # None
  <2> DEFINE m == MatterFor(Norm[row.raw])
             e == EventWrite(m, "solicitation", SolicitationDate(row), <<row.text>>, {row.raw}, page)
             a == <<MatterWrite(m), IdentifierWrite(m, row.raw)>>
  <2>1. RowWrites(page, row) = <<MatterWrite(m), IdentifierWrite(m, row.raw), e>>
    BY <1>3 DEF RowWrites, SolicitationWrites
  <2>0. row.raw \in {row.raw}
          /\ <<row.text>> \in {<<row.raw, row.text>>, <<row.raw, row.text, "demo">>, <<row.text>>, <<"published">>}
    OBVIOUS
  <2>2. Fine(e, {page}) /\ e.op = "event" /\ e.event.matter = m /\ e.event.summary = <<row.text>>
    <3> DEFINE su == <<row.text>>
               raws == {row.raw}
               date == SolicitationDate(row)
               pages == {page}
    <3>1. /\ page \in pages
          /\ \E k \in DOMAIN RowsOf[page] :
               LET r == RowsOf[page][k]
               IN  /\ r.raw \in raws
                   /\ su \in {<<r.raw, r.text>>, <<r.raw, r.text, "demo">>, <<r.text>>, <<"published">>}
      BY <2>0
    <3>4. Dated("solicitation", date, m)
      BY DEF Dated, SolicitationDate, NoDate, Stage
    <3>2. e = EventWrite(m, "solicitation", date, su, raws, page)
      OBVIOUS
    <3> DEFINE kind == "solicitation"
    <3>5. Dated(kind, date, m) /\ e = EventWrite(m, kind, date, su, raws, page)
      BY <3>2, <3>4
    <3> HIDE DEF m, su, raws, date, pages, kind, e, row
    <3>3. Fine(e, pages) /\ e.op = "event" /\ e.event.matter = m /\ e.event.summary = su
      BY <3>1, <3>5, EventWriteIs
    <3> QED
      BY <3>3 DEF su, pages
  <2> HIDE DEF e
  <2>3. FineWrites(a, {page}) /\ Range(a) = {MatterWrite(m), IdentifierWrite(m, row.raw)}
    BY MatterWritesAre, ShortSeqs
  <2>4. /\ MatterWrite(m).op = "matter" /\ MatterWrite(m).matter = m
        /\ IdentifierWrite(m, row.raw).op = "identifier"
        /\ IdentifierWrite(m, row.raw).identifier = [matter |-> m, raw |-> row.raw]
    BY DEF MatterWrite, IdentifierWrite
  <2>5. Last(e.event.summary) = row.text
    BY <2>2, LastIs
  <2>6. IsSeq(RowWrites(page, row)) /\ Range(RowWrites(page, row)) = {MatterWrite(m), IdentifierWrite(m, row.raw), e}
    <3> DEFINE u == MatterWrite(m)
               v == IdentifierWrite(m, row.raw)
    <3>1. RowWrites(page, row) = <<u, v, e>>
      BY <2>1
    <3> HIDE DEF u, v
    <3>2. IsSeq(<<u, v, e>>) /\ Range(<<u, v, e>>) = {u, v, e}
      BY ShortSeqs
    <3> HIDE DEF m, row
    <3>3. IsSeq(RowWrites(page, row)) /\ Range(RowWrites(page, row)) = {u, v, e}
      BY <3>1, <3>2
    <3> QED
      BY <3>3 DEF u, v
  <2> HIDE DEF m, a, row
  <2>7. FineWrites(RowWrites(page, row), {page})
    BY <2>2, <2>3, <2>6 DEF FineWrites
  <2>8. Reaches(RowWrites(page, row), row)
    BY <2>2, <2>4, <2>5, <2>6 DEF Reaches, m
  <2> QED
    BY <2>7, <2>8 DEF row
<1> QED
  BY <1>1, <1>2, <1>3

\* An ingest first preserves its page, then attaches its rows.
LEMMA IngestWritesAre ==
    ASSUME NEW page \in Page
    PROVE  /\ FineWrites(IngestWrites(page), {page})
           /\ IngestWrites(page)[1] = SnapshotWrite(page) /\ Len(IngestWrites(page)) >= 1
           /\ \A i \in DOMAIN RowsOf[page] : Reaches(IngestWrites(page), RowsOf[page][i])
<1> DEFINE n == Len(RowsOf[page])
           ss == [i \in DOMAIN RowsOf[page] |-> RowWrites(page, RowsOf[page][i])]
           first == <<SnapshotWrite(page)>>
<1>1. n \in Nat /\ DOMAIN RowsOf[page] = 1..n
  BY RowsAssumption
<1>2. DOMAIN ss = 1..n /\ ss = [i \in 1..n |-> ss[i]]
  BY <1>1
<1>3. \A i \in 1..n : FineWrites(ss[i], {page}) /\ Reaches(ss[i], RowsOf[page][i])
  BY <1>1, RowWritesAre
<1>4. AttachWrites(page) = FlattenSeq(ss)
  BY DEF AttachWrites
<1> HIDE DEF ss, n
<1>5. IsSeq(ss) /\ \A i \in DOMAIN ss : IsSeq(ss[i])
  BY <1>1, <1>2, <1>3, FunSeq DEF FineWrites
<1>6. /\ IsSeq(FlattenSeq(ss))
      /\ \A x : x \in Range(FlattenSeq(ss)) <=> \E i \in 1..n : x \in Range(ss[i])
  BY <1>2, <1>5, FlattenRange
<1>7. FineWrites(FlattenSeq(ss), {page})
  BY <1>3, <1>6 DEF FineWrites
<1>8. FineWrites(first, {page}) /\ Len(first) = 1 /\ first[1] = SnapshotWrite(page)
  <2>1. SnapshotWrite(page).op = "snapshot"
    BY DEF SnapshotWrite
  <2> QED
    BY <2>1, ShortSeqs, PlainWrites DEF FineWrites
<1> HIDE DEF first
<1>9. IngestWrites(page) = first \o FlattenSeq(ss)
  BY <1>4 DEF IngestWrites, first
<1>10. /\ FineWrites(IngestWrites(page), {page})
       /\ Range(IngestWrites(page)) = Range(first) \cup Range(FlattenSeq(ss))
  BY <1>7, <1>8, <1>9, FineConcat
<1>11. IngestWrites(page)[1] = SnapshotWrite(page) /\ Len(IngestWrites(page)) >= 1
  <2>1. Len(FlattenSeq(ss)) \in Nat
    BY <1>6 DEF IsSeq
  <2> QED
    <3>1. IsSeq(first) /\ IsSeq(FlattenSeq(ss))
      BY <1>6, <1>8 DEF FineWrites
    <3>2. /\ Len(first \o FlattenSeq(ss)) = Len(first) + Len(FlattenSeq(ss))
          /\ \A i \in 1..Len(first) : (first \o FlattenSeq(ss))[i] = first[i]
      BY <3>1, ConcatIs
    <3> QED
      BY <1>8, <1>9, <2>1, <3>2
<1>12. ASSUME NEW i \in DOMAIN RowsOf[page] PROVE Reaches(IngestWrites(page), RowsOf[page][i])
  <2>1. Range(ss[i]) \subseteq Range(IngestWrites(page))
    BY <1>1, <1>6, <1>10
  <2> QED
    BY <1>1, <1>3, <2>1 DEF Reaches
<1> QED
  BY <1>10, <1>11, <1>12
(***************************************************************************)
(* The script of the demo.                                                 *)
(***************************************************************************)

DemoPages == {Mirror, Awards}

\* It preserves its two pages before it writes what tells of them.
Begins(s) ==
    /\ FineWrites(s, DemoPages)
    /\ Len(s) >= 2 /\ s[1] = SnapshotWrite(Mirror) /\ s[2] = SnapshotWrite(Awards)

LEMMA BeginsConcat ==
    ASSUME NEW s, NEW t, Begins(s), FineWrites(t, DemoPages)
    PROVE  Begins(s \o t)
<1>1. FineWrites(s \o t, DemoPages)
  BY FineConcat DEF Begins
<1>2. IsSeq(s) /\ IsSeq(t) /\ Len(s) \in Nat /\ Len(t) \in Nat /\ Len(s) >= 2
  BY DEF Begins, FineWrites, IsSeq
<1>3. Len(s \o t) = Len(s) + Len(t) /\ \A i \in 1..Len(s) : (s \o t)[i] = s[i]
  BY <1>2, ConcatIs
<1> QED
  BY <1>1, <1>2, <1>3 DEF Begins

LEMMA IdentitiesFinite == ASSUME NEW page \in Page PROVE IsFiniteSet(Identities(page))
<1> DEFINE S == DOMAIN RowsOf[page]
           f == [i \in S |-> Identity(RowsOf[page][i])]
           V == Identities(page)
<1>1. IsFiniteSet(S)
  <2>1. S = 1..Len(RowsOf[page]) /\ Len(RowsOf[page]) \in Nat
    BY RowsAssumption
  <2> QED
    BY <2>1, FS_Interval
<1>2. f \in Surjection(S, V)
  <2>1. f \in [S -> V] /\ \A v \in V : \E i \in S : f[i] = v
    BY DEF Identities
  <2> HIDE DEF f, V, S
  <2> QED
    BY <2>1 DEF Surjection
<1>3. IsFiniteSet(V)
  <2> HIDE DEF f, V, S
  <2> QED
    BY <1>1, <1>2, FS_Surjection
<1> QED
  BY <1>3

LEMMA OneFine ==
    ASSUME NEW x, NEW pages, Fine(x, pages)
    PROVE  FineWrites(<<x>>, pages)
  BY ShortSeqs DEF FineWrites

LEMMA TwoFine ==
    ASSUME NEW x, NEW y, NEW pages, Fine(x, pages), Fine(y, pages)
    PROVE  FineWrites(<<x, y>>, pages)
  BY ShortSeqs DEF FineWrites

LEMMA ThreeFine ==
    ASSUME NEW x, NEW y, NEW z, NEW pages, Fine(x, pages), Fine(y, pages), Fine(z, pages)
    PROVE  FineWrites(<<x, y, z>>, pages)
  BY ShortSeqs DEF FineWrites

LEMMA PlainOnes ==
    ASSUME NEW a, NEW b, NEW pages
    PROVE  /\ Fine(MatterWrite(a), pages) /\ Fine(SnapshotWrite(a), pages)
           /\ Fine(ItemWrite(a, b), pages)
           /\ Fine(GenerateWrite(a), pages) /\ Fine(FileWrite(a), pages)
<1>1. /\ MatterWrite(a).op = "matter" /\ SnapshotWrite(a).op = "snapshot"
      /\ ItemWrite(a, b).op = "item"
      /\ GenerateWrite(a).op = "generate" /\ FileWrite(a).op = "file"
  BY DEF MatterWrite, SnapshotWrite, ItemWrite, GenerateWrite, FileWrite
<1> QED
  BY <1>1, PlainWrites

LEMMA TransitWritesAre == FineWrites(TransitWrites, DemoPages)
<1> DEFINE x == EventWrite(TransitMatter, "solicitation", 2, <<"published">>, {Transit}, Mirror)
           y == EventWrite(TransitMatter, "answers", 3, <<"answers">>, {Transit}, Mirror)
           z == ItemWrite(TransitMatter, <<"missing documents">>)
           a == <<MatterWrite(TransitMatter), IdentifierWrite(TransitMatter, Transit)>>
           b == OrganizationWrites(TransitMatter, <<"department">>)
<1>1. Fine(x, DemoPages)
  <2>1. PICK i \in DOMAIN RowsOf[Mirror] : RowsOf[Mirror][i].raw = Transit
    BY FixtureAssumption
  <2>2. /\ Mirror \in DemoPages
        /\ \E k \in DOMAIN RowsOf[Mirror] :
             LET r == RowsOf[Mirror][k]
             IN  /\ r.raw \in {Transit}
                 /\ <<"published">> \in {<<r.raw, r.text>>, <<r.raw, r.text, "demo">>, <<r.text>>, <<"published">>}
    BY <2>1 DEF DemoPages
  <2>3. Dated("solicitation", 2, TransitMatter)
    BY DEF Dated, Stage
  <2> QED
    BY <2>2, <2>3, EventWriteIs
<1>2. Fine(y, DemoPages)
  <2>1. Dated("answers", 3, TransitMatter)
    BY DEF Dated, Stage
  <2> QED
    BY <2>1, EventWriteIs
<1>3. Fine(z, DemoPages)
  BY PlainOnes
<1>4. FineWrites(a, DemoPages)
  BY MatterWritesAre
<1>5. FineWrites(b, DemoPages)
  BY ShortSeqs, OrganizationWritesAre
<1>6. TransitWrites = a \o b \o <<x, y, z>>
  BY DEF TransitWrites
<1> HIDE DEF x, y, z, a, b
<1>7. FineWrites(<<x, y, z>>, DemoPages)
  BY <1>1, <1>2, <1>3, ThreeFine
<1>8. FineWrites(a \o b, DemoPages)
  BY <1>4, <1>5, FineConcat
<1> QED
  BY <1>6, <1>7, <1>8, FineConcat

LEMMA ControlWritesAre == FineWrites(ControlWrites, DemoPages)
<1> DEFINE n == CHOOSE i \in DOMAIN RowsOf[Awards] : RowsOf[Awards][i].raw = Control
           row == RowsOf[Awards][n]
           x == EventWrite(ControlMatter, "award", row.date, <<row.raw, row.text, "demo">>, {Control}, Awards)
           z == ItemWrite(ControlMatter, <<"vendor aliases">>)
           a == <<MatterWrite(ControlMatter), IdentifierWrite(ControlMatter, Control)>>
           b == OrganizationWrites(ControlMatter, row.org)
<1>1. n \in DOMAIN RowsOf[Awards] /\ row.raw = Control
  BY FixtureAssumption
<1>2. RowOf(Awards, Control) = row
  BY DEF RowOf
<1> HIDE DEF n
<1>3. Fine(x, DemoPages)
  <2> DEFINE su == <<row.raw, row.text, "demo">>
             date == row.date
  <2>1. /\ Awards \in DemoPages
        /\ \E k \in DOMAIN RowsOf[Awards] :
             LET r == RowsOf[Awards][k]
             IN  /\ r.raw \in {Control}
                 /\ su \in {<<r.raw, r.text>>, <<r.raw, r.text, "demo">>, <<r.text>>, <<"published">>}
    BY <1>1 DEF DemoPages
  <2>2. x = EventWrite(ControlMatter, "award", date, su, {Control}, Awards)
    OBVIOUS
  <2>3. Dated("award", date, ControlMatter)
    <3>1. row \in Range(RowsOf[Awards])
      BY <1>1 DEF Range
    <3>2. date \in Nat \ {0}
      BY <3>1, PageAssumption, RowsAssumption
    <3>3. ControlMatter # TransitMatter
      BY TransitAssumption DEF ControlMatter, TransitMatter, MatterFor
    <3> QED
      BY <3>2, <3>3 DEF Dated, NoDate, Stage
  <2> HIDE DEF su, date, x
  <2> QED
    BY <2>1, <2>2, <2>3, EventWriteIs
<1>4. Fine(z, DemoPages)
  BY PlainOnes
<1>5. FineWrites(a, DemoPages)
  BY MatterWritesAre
<1>6. FineWrites(b, DemoPages)
  <2>1. IsSeq(row.org)
    BY <1>1, PageAssumption, RowsAssumption DEF IsSeq, Range
  <2> QED
    BY <2>1, OrganizationWritesAre
<1>7. ControlWrites = a \o b \o <<x, z>>
  BY <1>2 DEF ControlWrites
<1> HIDE DEF x, z, a, b, row
<1>8. FineWrites(<<x, z>>, DemoPages)
  BY <1>3, <1>4, TwoFine
<1>9. FineWrites(a \o b, DemoPages)
  BY <1>5, <1>6, FineConcat
<1> QED
  BY <1>7, <1>8, <1>9, FineConcat

LEMMA ChangeWritesAre == FineWrites(ChangeWrites, DemoPages)
<1> DEFINE D == Removed \cup Corrected \cup Added
           n == Cardinality(D)
           event(id) == EventWrite(MatterFor(id), IF id \in Removed THEN "removed" ELSE "corrected", 4,
                                   <<id>>, {}, AwardsLater)
           change(id) == <<MatterWrite(MatterFor(id))>> \o (IF id \in Added THEN <<>> ELSE <<event(id)>>)
           ss == [i \in 1..n |-> change(SetToSeq(D)[i])]
<1>1. n \in Nat
  <2>1. IsFiniteSet(Identities(Awards)) /\ IsFiniteSet(Identities(AwardsLater))
    BY PageAssumption, IdentitiesFinite
  <2>2. IsFiniteSet(Identities(Awards) \cup Identities(AwardsLater))
    BY <2>1, FS_Union
  <2>3. D \in SUBSET (Identities(Awards) \cup Identities(AwardsLater))
    BY DEF Removed, Corrected, Added
  <2> HIDE DEF D
  <2>4. IsFiniteSet(D)
    BY <2>2, <2>3, FS_Subset
  <2> QED
    BY <2>4, FS_CardinalityType
<1>2. ASSUME NEW id PROVE FineWrites(change(id), DemoPages)
  <2>1. FineWrites(<<MatterWrite(MatterFor(id))>>, DemoPages)
    BY PlainOnes, OneFine
  <2>2. Fine(event(id), DemoPages)
    <3> DEFINE kind == IF id \in Removed THEN "removed" ELSE "corrected"
               su == <<id>>
    <3>1. kind \notin {"award", "solicitation"}
      OBVIOUS
    <3>2. event(id) = EventWrite(MatterFor(id), kind, 4, su, {}, AwardsLater)
      OBVIOUS
    <3>3. Dated(kind, 4, MatterFor(id))
      BY DEF Dated, Stage
    <3> HIDE DEF kind, su, event
    <3> QED
      BY <3>1, <3>2, <3>3, EventWriteIs
  <2> HIDE DEF event
  <2>3. FineWrites(IF id \in Added THEN <<>> ELSE <<event(id)>>, DemoPages)
    <3>1. FineWrites(<<>>, DemoPages)
      BY ShortSeqs DEF FineWrites
    <3>2. FineWrites(<<event(id)>>, DemoPages)
      BY <2>2, OneFine
    <3> QED
      BY <3>1, <3>2
  <2> QED
    BY <2>1, <2>3, FineConcat
<1>3. ChangeWrites = <<SnapshotWrite(AwardsLater)>> \o FlattenSeq(ss)
  BY DEF ChangeWrites
<1>4. DOMAIN ss = 1..n /\ ss = [i \in 1..n |-> ss[i]]
  OBVIOUS
<1> HIDE DEF n, change
<1>5. \A i \in DOMAIN ss : FineWrites(ss[i], DemoPages)
  BY <1>2
<1> HIDE DEF ss
<1>6. IsSeq(ss) /\ \A i \in DOMAIN ss : IsSeq(ss[i])
  BY <1>1, <1>4, <1>5, FunSeq DEF FineWrites
<1>7. FineWrites(FlattenSeq(ss), DemoPages)
  BY <1>5, <1>6, FlattenRange DEF FineWrites
<1>8. FineWrites(<<SnapshotWrite(AwardsLater)>>, DemoPages)
  BY PlainOnes, OneFine
<1> QED
  BY <1>3, <1>7, <1>8, FineConcat

LEMMA RelateWritesAre == ASSUME NEW page \in DemoPages PROVE FineWrites(RelateWrites(page), DemoPages)
<1> DEFINE owner(row) == MatterFor(IF page = Mirror \/ Norm[row.raw] = None THEN row.raw ELSE Norm[row.raw])
           relate(row) == [op |-> "relate", matter |-> owner(row), page |-> page, refs |-> row.refs]
           n == Len(RowsOf[page])
           ss == [i \in DOMAIN RowsOf[page] |->
                    IF RowsOf[page][i].refs = <<>> THEN <<>> ELSE <<relate(RowsOf[page][i])>>]
<1>1. n \in Nat /\ DOMAIN RowsOf[page] = 1..n
  BY PageAssumption, RowsAssumption DEF DemoPages
<1>2. RelateWrites(page) = FlattenSeq(ss)
  BY DEF RelateWrites
<1>3. ASSUME NEW row PROVE Fine(relate(row), DemoPages)
  <2>1. relate(row).op = "relate" /\ relate(row).page = page
    OBVIOUS
  <2> HIDE DEF relate
  <2> QED
    BY <2>1 DEF Fine, WellMade, Tells, PageOf
<1> HIDE DEF relate
<1>4. FineWrites(<<>>, DemoPages)
  BY ShortSeqs DEF FineWrites
<1>5. DOMAIN ss = 1..n /\ ss = [i \in 1..n |-> ss[i]]
  BY <1>1
<1>6. \A i \in DOMAIN ss : FineWrites(ss[i], DemoPages)
  BY <1>3, <1>4, OneFine
<1> HIDE DEF ss, n
<1>7. IsSeq(ss) /\ \A i \in DOMAIN ss : IsSeq(ss[i])
  BY <1>1, <1>5, <1>6, FunSeq DEF FineWrites
<1>8. FineWrites(FlattenSeq(ss), DemoPages)
  BY <1>6, <1>7, FlattenRange DEF FineWrites
<1> QED
  BY <1>2, <1>8

LEMMA DemoWritesAre == Begins(DemoWrites)
<1> DEFINE s == <<SnapshotWrite(Mirror), SnapshotWrite(Awards)>>
           t == <<GenerateWrite(TransitMatter), GenerateWrite(ControlMatter)>>
           u == <<FileWrite(TransitMatter), FileWrite(ControlMatter)>>
<1>1. Begins(s)
  <2>1. FineWrites(s, DemoPages)
    BY PlainOnes, TwoFine
  <2> QED
    BY <2>1 DEF Begins
<1>2. FineWrites(t, DemoPages) /\ FineWrites(u, DemoPages) /\ FineWrites(<<IndexWrite>>, DemoPages)
  <2>1. Fine(IndexWrite, DemoPages)
    BY PlainWrites DEF IndexWrite
  <2> QED
    BY <2>1, PlainOnes, OneFine, TwoFine
<1>3. FineWrites(RelateWrites(Awards), DemoPages) /\ FineWrites(RelateWrites(Mirror), DemoPages)
  BY RelateWritesAre DEF DemoPages
<1>4. DemoWrites = s \o TransitWrites \o ControlWrites \o ChangeWrites \o <<IndexWrite>>
                     \o RelateWrites(Awards) \o RelateWrites(Mirror) \o t \o u
  BY DEF DemoWrites
<1> HIDE DEF s, t, u
<1>5. Begins(s \o TransitWrites)
  BY <1>1, TransitWritesAre, BeginsConcat
<1>6. Begins(s \o TransitWrites \o ControlWrites)
  BY <1>5, ControlWritesAre, BeginsConcat
<1>7. Begins(s \o TransitWrites \o ControlWrites \o ChangeWrites)
  BY <1>6, ChangeWritesAre, BeginsConcat
<1>8. PICK v : v = s \o TransitWrites \o ControlWrites \o ChangeWrites \o <<IndexWrite>>
  OBVIOUS
<1>9. Begins(v)
  BY <1>2, <1>7, <1>8, BeginsConcat
<1>10. Begins(v \o RelateWrites(Awards))
  BY <1>3, <1>9, BeginsConcat
<1>11. Begins(v \o RelateWrites(Awards) \o RelateWrites(Mirror))
  BY <1>3, <1>10, BeginsConcat
<1>12. Begins(v \o RelateWrites(Awards) \o RelateWrites(Mirror) \o t)
  BY <1>2, <1>11, BeginsConcat
<1>13. Begins(v \o RelateWrites(Awards) \o RelateWrites(Mirror) \o t \o u)
  BY <1>2, <1>12, BeginsConcat
<1> QED
  BY <1>4, <1>8, <1>13
(***************************************************************************)
(* The steps.                                                              *)
(***************************************************************************)

\* The write has been made, now or earlier, by whatever command.
Kept(x) ==
    /\ x.op = "snapshot" => x.page \in Preserved
    /\ x.op = "matter" => x.matter \in matters
    /\ x.op = "identifier" => x.identifier \in identifiers
    /\ x.op = "event" => \E f \in events : EventId(f) = EventId(x.event)

\* What tells of a page comes after the page is preserved.
Prefaced(s) ==
    \A k \in DOMAIN s : Tells(s[k]) =>
        \/ PageOf(s[k]) \in Preserved
        \/ \E h \in 1..k-1 : s[h].op = "snapshot" /\ s[h].page = PageOf(s[k])

\* A command has well made writes before it, and of an ingest every write is
\* ahead or made.
JobOk(j) ==
    /\ {"todo", "page", "index"} \subseteq DOMAIN j
    /\ IsSeq(j.todo)
    /\ \A x \in Range(j.todo) : WellMade(x)
    /\ Prefaced(j.todo)
    /\ j.index \subseteq identifiers
    /\ j.page # None =>
         /\ j.page \in Page
         /\ \A x \in Range(IngestWrites(j.page)) : x \in Range(j.todo) \/ Kept(x)

JobsInv == DOMAIN job = Worker /\ \A w \in Worker : \E j : j = job[w] /\ JobOk(j)

EventsInv ==
    \A e \in events :
        /\ CitesRow(e) /\ Dated(e.kind, e.date, e.matter)
        /\ e.kind \in {"award", "solicitation"} => e.evidence \in Preserved

IngestedInv ==
    \A page \in ingested : page \in Page /\ \A x \in Range(IngestWrites(page)) : Kept(x)

StoreInv ==
    /\ IsSeq(snapshots)
    /\ EventsInv
    /\ \A i \in identifiers : IsIdentifier(i)
    /\ IngestedInv

Grows ==
    /\ Preserved \subseteq Preserved' /\ matters \subseteq matters'
    /\ identifiers \subseteq identifiers' /\ events \subseteq events'

LEMMA KeptStays == ASSUME Grows, NEW x, Kept(x) PROVE Kept(x)'
  BY DEF Grows, Kept

\* A statement goes on to the next.
LEMMA ProceedIs ==
    ASSUME JobsInv, NEW w \in Worker, job[w].todo # <<>>, Proceed(w)
    PROVE  /\ DOMAIN job' = Worker /\ \A o \in Worker \ {w} : job'[o] = job[o]
           /\ {"todo", "page", "index"} \subseteq DOMAIN job'[w]
           /\ job'[w].todo = Tail(job[w].todo)
           /\ job'[w].page = IF Tail(job[w].todo) = <<>> THEN None ELSE job[w].page
           /\ job'[w].index = IF Tail(job[w].todo) = <<>> THEN {} ELSE job[w].index
           /\ ingested' = IF Tail(job[w].todo) = <<>> THEN ingested \cup ({job[w].page} \ {None}) ELSE ingested
<1> DEFINE rest == Tail(job[w].todo)
           next == IF rest = <<>> THEN Idle ELSE [job[w] EXCEPT !.todo = rest]
<1>1. job' = [job EXCEPT ![w] = next]
  BY DEF Proceed
<1>2. ingested' = IF rest = <<>> THEN ingested \cup ({job[w].page} \ {None}) ELSE ingested
  BY DEF Proceed
<1>3. {"todo", "page", "index"} \subseteq DOMAIN job[w]
  BY DEF JobsInv, JobOk
<1>4. /\ {"todo", "page", "index"} \subseteq DOMAIN next /\ next.todo = rest
      /\ next.page = IF rest = <<>> THEN None ELSE job[w].page
      /\ next.index = IF rest = <<>> THEN {} ELSE job[w].index
  <2>1. CASE rest = <<>>
    BY <2>1 DEF Idle
  <2>2. CASE rest # <<>>
    BY <1>3, <2>2
  <2> QED
    BY <2>1, <2>2
<1> HIDE DEF next, rest
<1>5. job'[w] = next /\ DOMAIN job' = Worker /\ \A o \in Worker \ {w} : job'[o] = job[o]
  BY <1>1 DEF JobsInv
<1> QED
  BY <1>2, <1>4, <1>5 DEF rest

LEMMA JobOkStays == ASSUME Grows, NEW j, JobOk(j) PROVE JobOk(j)'
<1>1. \A x : Kept(x) => Kept(x)'
  BY KeptStays
<1>2. Prefaced(j.todo) => Prefaced(j.todo)'
  BY DEF Prefaced, Grows
<1> QED
  BY <1>1, <1>2 DEF JobOk, Grows

\* What is left of a command after its first write.
LEMMA JobOkProceeds ==
    ASSUME Grows, NEW j, NEW k, JobOk(j), j.todo # <<>>, Kept(j.todo[1])',
           {"todo", "page", "index"} \subseteq DOMAIN k, k.todo = Tail(j.todo), k.page \in {None, j.page},
           k.index \subseteq identifiers'
    PROVE  JobOk(k)'
<1> DEFINE s == j.todo
           t == Tail(s)
<1>1. IsSeq(s) /\ s # <<>>
  BY DEF JobOk
<1>2. /\ IsSeq(t) /\ Len(s) \in Nat /\ Len(s) > 0 /\ Len(t) = Len(s) - 1 /\ Head(s) = s[1]
      /\ \A i \in 1..Len(s) - 1 : t[i] = s[i + 1]
      /\ Range(s) = {s[1]} \cup Range(t)
  BY <1>1, TailIs
<1>3. DOMAIN s = 1..Len(s) /\ DOMAIN t = 1..Len(s) - 1
  BY <1>1, <1>2 DEF IsSeq
<1>4. \A x : Kept(x) => Kept(x)'
  BY KeptStays
<1>5. \A x \in Range(t) : WellMade(x)
  BY <1>2 DEF JobOk
<1>6. Kept(s[1])' /\ Prefaced(s) /\ k.todo = t
  BY DEF JobOk
<1>7. k.page # None => /\ k.page \in Page
                       /\ \A x \in Range(IngestWrites(k.page)) : x \in Range(s) \/ Kept(x)
  BY DEF JobOk
<1> HIDE DEF s, t
<1>8. ASSUME NEW i \in DOMAIN t, Tells(t[i])
      PROVE  \/ PageOf(t[i]) \in Preserved'
             \/ \E h \in 1..i-1 : t[h].op = "snapshot" /\ t[h].page = PageOf(t[i])
  <2>1. i \in 1..Len(s) - 1 /\ t[i] = s[i + 1] /\ i + 1 \in DOMAIN s
    BY <1>2, <1>3
  <2>2. CASE PageOf(s[i + 1]) \in Preserved
    BY <2>1, <2>2 DEF Grows
  <2>3. CASE \E h \in 1..i : s[h].op = "snapshot" /\ s[h].page = PageOf(s[i + 1])
    <3>1. PICK h \in 1..i : s[h].op = "snapshot" /\ s[h].page = PageOf(s[i + 1])
      BY <2>3
    <3>2. CASE h = 1
      <4>1. s[1].page \in Preserved'
        BY <1>6, <3>1, <3>2 DEF Kept
      <4> QED
        BY <2>1, <3>1, <3>2, <4>1
    <3>3. CASE h # 1
      <4>1. h - 1 \in 1..i-1 /\ h - 1 \in 1..Len(s) - 1
        BY <1>2, <2>1, <3>3
      <4>2. t[h - 1] = s[h]
        BY <1>2, <4>1
      <4> QED
        BY <2>1, <3>1, <4>1, <4>2
    <3> QED
      BY <3>2, <3>3
  <2>4. Tells(s[i + 1]) /\ (i + 1) - 1 = i
    BY <1>8, <2>1, <1>2
  <2> QED
    BY <1>6, <2>1, <2>2, <2>3, <2>4 DEF Prefaced
<1>9. Prefaced(t)'
  BY <1>8 DEF Prefaced
<1>10. ASSUME k.page # None, NEW x \in Range(IngestWrites(k.page)) PROVE x \in Range(t) \/ Kept(x)'
  <2>1. x \in Range(s) \/ Kept(x)
    BY <1>7, <1>10
  <2> QED
    BY <1>2, <1>4, <1>6, <2>1
<1> QED
  BY <1>2, <1>5, <1>6, <1>7, <1>9, <1>10 DEF JobOk

\* The invariant of the commands over a statement, from what it writes.
LEMMA JobsProceed ==
    ASSUME JobsInv, StoreInv, NEW w \in Worker, job[w].todo # <<>>, Proceed(w), Grows,
           NEW h, h = Head(job[w].todo), Kept(h)'
    PROVE  JobsInv' /\ IngestedInv'
<1>1. PICK j : j = job[w] /\ JobOk(j)
  BY DEF JobsInv
<1>2. PICK k : k = job'[w]
  OBVIOUS
<1>3. IsSeq(j.todo) /\ j.todo # <<>>
  BY <1>1 DEF JobOk
<1>4. j.todo[1] = h
  BY <1>1, <1>3, TailIs
<1>5. {"todo", "page", "index"} \subseteq DOMAIN k /\ k.todo = Tail(j.todo) /\ k.page \in {None, j.page}
        /\ k.index \in {{}, j.index}
  BY <1>1, <1>2, ProceedIs
<1>6. k.index \subseteq identifiers'
  BY <1>1, <1>5 DEF JobOk, Grows
<1>7. JobOk(k)'
  BY <1>1, <1>3, <1>4, <1>5, <1>6, JobOkProceeds
<1>8. ASSUME NEW o \in Worker PROVE \E i : i = job'[o] /\ JobOk(i)'
  <2>1. CASE o = w
    BY <1>2, <1>7, <2>1
  <2>2. CASE o # w
    <3>1. PICK i : i = job[o] /\ JobOk(i)
      BY DEF JobsInv
    <3>2. i = job'[o]
      BY <2>2, <3>1, ProceedIs
    <3> QED
      BY <3>1, <3>2, JobOkStays
  <2> QED
    BY <2>1, <2>2
<1>9. JobsInv'
  BY <1>8, ProceedIs DEF JobsInv
<1>10. \A x : Kept(x) => Kept(x)'
  BY KeptStays
<1>11. \A p \in ingested : p \in Page /\ \A x \in Range(IngestWrites(p)) : Kept(x)'
  BY <1>10 DEF StoreInv, IngestedInv
<1>12. ASSUME Tail(j.todo) = <<>>, j.page # None
       PROVE  j.page \in Page /\ \A x \in Range(IngestWrites(j.page)) : Kept(x)'
  <2>1. \A x \in Range(j.todo) : x = h
    <3>1. Range(j.todo) = {Head(j.todo)} \cup Range(<<>>)
      BY <1>3, <1>12, TailIs
    <3> QED
      BY <1>1, <3>1, ShortSeqs
  <2>2. ASSUME NEW x \in Range(IngestWrites(j.page)) PROVE Kept(x)'
    <3>1. x \in Range(j.todo) \/ Kept(x)
      BY <1>1, <1>12, <2>2 DEF JobOk
    <3> QED
      BY <1>10, <2>1, <3>1
  <2> QED
    BY <1>1, <1>12, <2>2 DEF JobOk
<1>13. \A p \in ingested' : p \in ingested \/ (p = j.page /\ Tail(j.todo) = <<>> /\ j.page # None)
  BY <1>1, ProceedIs
<1> QED
  BY <1>9, <1>11, <1>12, <1>13 DEF IngestedInv
\* The write a command is at.
LEMMA HeadIs ==
    ASSUME JobsInv, NEW w \in Worker, job[w].todo # <<>>
    PROVE  WellMade(Write(w)) /\ (Tells(Write(w)) => PageOf(Write(w)) \in Preserved)
<1>1. PICK j : j = job[w] /\ JobOk(j)
  BY DEF JobsInv
<1>2. IsSeq(j.todo) /\ j.todo # <<>>
  BY <1>1 DEF JobOk
<1>3. Head(j.todo) = j.todo[1] /\ 1 \in DOMAIN j.todo /\ j.todo[1] \in Range(j.todo)
  <2>1. Len(j.todo) \in Nat /\ Len(j.todo) > 0 /\ DOMAIN j.todo = 1..Len(j.todo)
    BY <1>2 DEF IsSeq
  <2>2. 1 \in DOMAIN j.todo
    BY <2>1
  <2> QED
    BY <1>2, <2>2, TailIs DEF Range
<1>4. WellMade(j.todo[1]) /\ Prefaced(j.todo)
  BY <1>1, <1>3 DEF JobOk
<1>5. Tells(j.todo[1]) => PageOf(j.todo[1]) \in Preserved
  <2>1. 1..1-1 = {}
    OBVIOUS
  <2> QED
    BY <1>3, <1>4, <2>1 DEF Prefaced
<1>6. Write(w) = j.todo[1]
  BY <1>1, <1>3 DEF Write
<1> QED
  BY <1>4, <1>5, <1>6

\* The parts of StoreInv that a statement other than the last of an ingest
\* can disturb.
RowsInv ==
    /\ IsSeq(snapshots)
    /\ EventsInv
    /\ \A i \in identifiers : IsIdentifier(i)

LEMMA StoreSplits == StoreInv <=> RowsInv /\ IngestedInv
  BY DEF StoreInv, RowsInv

Statement(w) ==
    \/ InsertSnapshot(w) \/ InsertMatter(w) \/ InsertIdentifier(w) \/ InsertOrganization(w)
    \/ InsertEvent(w) \/ InsertItem(w) \/ Relate(w) \/ Generate(w) \/ WriteFile(w)

LEMMA StatementIs ==
    ASSUME NEW w \in Worker, Statement(w)
    PROVE  job[w].todo # <<>> /\ Proceed(w)
  BY DEF Statement, Due, InsertSnapshot, InsertMatter, InsertIdentifier, InsertOrganization,
     InsertEvent, InsertItem, Relate, Generate, WriteFile

\* What a statement does to the rows that later statements rest on.
LEMMA StatementRows ==
    ASSUME JobsInv, RowsInv, NEW w \in Worker, Statement(w), NEW h, h = Write(w)
    PROVE  Grows /\ Kept(h)' /\ RowsInv'
<1>0. job[w].todo # <<>> /\ WellMade(h) /\ (Tells(h) => PageOf(h) \in Preserved)
  BY StatementIs, HeadIs
<1>1. CASE InsertSnapshot(w)
  <2>1. h.op = "snapshot" /\ UNCHANGED <<matters, identifiers, events>>
        /\ snapshots' = IF h.page \in Preserved THEN snapshots ELSE Append(snapshots, h.page)
    BY <1>1 DEF InsertSnapshot, Due, Write
  <2>2. CASE h.page \in Preserved
    <3>1. UNCHANGED snapshots
      BY <2>1, <2>2
    <3>2. Grows /\ Kept(h)'
      BY <2>1, <2>2, <3>1 DEF Grows, Kept, Preserved
    <3> QED
      BY <2>1, <3>1, <3>2 DEF RowsInv, EventsInv, Preserved
  <2>3. CASE h.page \notin Preserved
    <3>1. snapshots' = snapshots \o <<h.page>> /\ IsSeq(snapshots)
      BY <2>1, <2>3 DEF RowsInv, IsSeq
    <3>2. IsSeq(snapshots \o <<h.page>>) /\ Range(snapshots \o <<h.page>>) = Range(snapshots) \cup {h.page}
      BY <3>1, ConcatIs, ShortSeqs
    <3>3. IsSeq(snapshots') /\ Preserved' = Preserved \cup {h.page}
      BY <3>1, <3>2 DEF Preserved, IsSeq
    <3>4. Grows /\ Kept(h)'
      BY <2>1, <3>3 DEF Grows, Kept
    <3>5. EventsInv'
      BY <2>1, <3>3 DEF RowsInv, EventsInv
    <3> QED
      BY <2>1, <3>3, <3>4, <3>5 DEF RowsInv
  <2> QED
    BY <2>2, <2>3
<1>2. CASE InsertMatter(w)
  <2>1. h.op = "matter" /\ UNCHANGED <<snapshots, identifiers, events>> /\ matters' = matters \cup {h.matter}
    BY <1>2 DEF InsertMatter, Due, Write
  <2> QED
    BY <2>1 DEF Grows, Kept, Preserved, RowsInv, EventsInv
<1>3. CASE InsertIdentifier(w)
  <2>1. h.op = "identifier" /\ UNCHANGED <<snapshots, matters, events>>
        /\ identifiers' = identifiers \cup {h.identifier}
    BY <1>3 DEF InsertIdentifier, Due, Write
  <2>2. IsIdentifier(h.identifier)
    BY <1>0, <2>1 DEF WellMade
  <2>3. \A i \in identifiers' : IsIdentifier(i)
    BY <2>1, <2>2 DEF RowsInv
  <2>4. IsSeq(snapshots') /\ EventsInv'
    BY <2>1 DEF RowsInv, EventsInv, Preserved
  <2>5. Grows /\ Kept(h)'
    BY <2>1 DEF Grows, Kept, Preserved
  <2> QED
    BY <2>3, <2>4, <2>5 DEF RowsInv
<1>4. CASE InsertEvent(w)
  <2>1. h.op = "event" /\ UNCHANGED <<snapshots, matters, identifiers>>
        /\ events' = IF \E f \in events : EventId(f) = EventId(h.event) THEN events ELSE events \cup {h.event}
    BY <1>4 DEF InsertEvent, Due, Write, KeepFirst, Bind
  <2>2. events \subseteq events' /\ \E f \in events' : EventId(f) = EventId(h.event)
    BY <2>1
  <2>3. Grows /\ Kept(h)'
    BY <2>1, <2>2 DEF Grows, Kept, Preserved
  <2>4. CitesRow(h.event) /\ Dated(h.event.kind, h.event.date, h.event.matter)
          /\ (h.event.kind \in {"award", "solicitation"} => h.event.evidence \in Preserved)
    BY <1>0, <2>1 DEF WellMade, Tells, PageOf
  <2>5. \A e \in events' : e \in events \/ e = h.event
    BY <2>1
  <2>6. EventsInv'
    BY <2>1, <2>4, <2>5 DEF RowsInv, EventsInv, Preserved
  <2> QED
    BY <2>1, <2>3, <2>6 DEF RowsInv
<1>5. ASSUME UNCHANGED <<snapshots, matters, identifiers, events>>,
             h.op \notin {"snapshot", "matter", "identifier", "event"}
      PROVE  Grows /\ Kept(h)' /\ RowsInv'
  BY <1>5 DEF Grows, Kept, Preserved, RowsInv, EventsInv
<1>6. CASE InsertOrganization(w)
  BY <1>5, <1>6 DEF InsertOrganization, Due, Write
<1>7. CASE InsertItem(w)
  BY <1>5, <1>7 DEF InsertItem, Due, Write
<1>8. CASE Relate(w)
  BY <1>5, <1>8 DEF Relate, Due, Write
<1>9. CASE Generate(w)
  BY <1>5, <1>9 DEF Generate, Due, Write, stored
<1>10. CASE WriteFile(w)
  BY <1>5, <1>10 DEF WriteFile, Due, Write, stored
<1> QED
  BY <1>1, <1>2, <1>3, <1>4, <1>6, <1>7, <1>8, <1>9, <1>10 DEF Statement

LEMMA StatementKeeps ==
    ASSUME JobsInv, StoreInv, NEW w \in Worker, Statement(w)
    PROVE  Grows /\ JobsInv' /\ StoreInv'
<1>1. PICK h : h = Write(w)
  OBVIOUS
<1>2. job[w].todo # <<>> /\ Proceed(w)
  BY StatementIs
<1>3. Grows /\ Kept(h)' /\ RowsInv'
  BY <1>1, StatementRows, StoreSplits
<1>4. JobsInv' /\ IngestedInv'
  BY <1>1, <1>2, <1>3, JobsProceed DEF Write
<1>5. StoreInv'
  BY <1>3, <1>4 DEF StoreInv, RowsInv
<1> QED
  BY <1>3, <1>4, <1>5

(***************************************************************************)
(* The start and the end of a command.                                     *)
(***************************************************************************)

\* No statement, and one command at most has other writes before it.
LEMMA JobsChange ==
    ASSUME JobsInv, StoreInv, NEW w \in Worker, NEW j, JobOk(j),
           job' = [job EXCEPT ![w] = j], UNCHANGED <<stored, ingested>>
    PROVE  Grows /\ JobsInv' /\ StoreInv'
<1>1. Grows
  BY DEF Grows, stored, Preserved
<1>2. job'[w] = j /\ DOMAIN job' = Worker /\ \A o \in Worker \ {w} : job'[o] = job[o]
  BY DEF JobsInv
<1>3. ASSUME NEW o \in Worker PROVE \E i : i = job'[o] /\ JobOk(i)'
  <2>1. PICK i : i = job[o] /\ JobOk(i)
    BY DEF JobsInv
  <2>2. JobOk(i)' /\ JobOk(j)'
    BY <1>1, <2>1, JobOkStays
  <2> QED
    BY <1>2, <2>1, <2>2
<1>4. StoreInv'
  BY DEF StoreInv, stored, EventsInv, IngestedInv, Preserved, Kept
<1> QED
  BY <1>1, <1>2, <1>3, <1>4 DEF JobsInv

LEMMA IdleOk == JobOk(Idle)
<1>1. {"todo", "page", "index"} \subseteq DOMAIN Idle /\ Idle.todo = <<>> /\ Idle.page = None /\ Idle.index = {}
  BY DEF Idle
<1>2. IsSeq(<<>>) /\ Range(<<>>) = {} /\ DOMAIN <<>> = {}
  BY ShortSeqs
<1> QED
  BY <1>1, <1>2 DEF JobOk, Prefaced

\* A command whose writes tell of pages that its first ones preserve.
LEMMA BeginOk ==
    ASSUME NEW todo, NEW page, NEW pages, FineWrites(todo, pages),
           \A p \in pages : \E h \in DOMAIN todo :
               /\ todo[h] = SnapshotWrite(p)
               /\ \A k \in 1..h : ~Tells(todo[k]),
           page # None => page \in Page /\ todo = IngestWrites(page)
    PROVE  JobOk([todo |-> todo, page |-> page, index |-> {}])
<1> DEFINE j == [todo |-> todo, page |-> page, index |-> {}]
<1>1. {"todo", "page", "index"} \subseteq DOMAIN j /\ j.todo = todo /\ j.page = page /\ j.index = {}
  OBVIOUS
<1>2. DOMAIN todo = 1..Len(todo) /\ Len(todo) \in Nat
  BY DEF FineWrites, IsSeq
<1>3. ASSUME NEW k \in DOMAIN todo, Tells(todo[k])
      PROVE  \E h \in 1..k-1 : todo[h].op = "snapshot" /\ todo[h].page = PageOf(todo[k])
  <2>1. PageOf(todo[k]) \in pages
    BY <1>3 DEF FineWrites, Fine, Range
  <2>2. PICK h \in DOMAIN todo : /\ todo[h] = SnapshotWrite(PageOf(todo[k]))
                                 /\ \A i \in 1..h : ~Tells(todo[i])
    BY <2>1
  <2>3. h < k
    BY <1>2, <1>3, <2>2
  <2> QED
    BY <1>2, <2>2, <2>3 DEF SnapshotWrite
<1> HIDE DEF j
<1> QED
  BY <1>1, <1>3 DEF JobOk, Prefaced, FineWrites, Fine

LEMMA SnapshotTellsNothing == \A p : ~Tells(SnapshotWrite(p))
  BY DEF Tells, SnapshotWrite

LEMMA IngestOk == ASSUME NEW page \in Page PROVE JobOk([todo |-> IngestWrites(page), page |-> page, index |-> {}])
<1> DEFINE s == IngestWrites(page)
<1>1. FineWrites(s, {page}) /\ s[1] = SnapshotWrite(page) /\ Len(s) >= 1
  BY IngestWritesAre
<1>2. DOMAIN s = 1..Len(s) /\ Len(s) \in Nat
  BY <1>1 DEF FineWrites, IsSeq
<1>3. \A p \in {page} : \E h \in DOMAIN s : s[h] = SnapshotWrite(p) /\ \A k \in 1..h : ~Tells(s[k])
  <2>1. 1 \in DOMAIN s /\ \A k \in 1..1 : ~Tells(s[k])
    BY <1>1, <1>2, SnapshotTellsNothing
  <2> QED
    BY <1>1, <2>1
<1> QED
  BY <1>1, <1>3, BeginOk

LEMMA DemoOk == JobOk([todo |-> DemoWrites, page |-> None, index |-> {}])
<1> DEFINE s == DemoWrites
<1>1. Begins(s)
  BY DemoWritesAre
<1> HIDE DEF s
<1>2. DOMAIN s = 1..Len(s) /\ Len(s) \in Nat /\ Len(s) >= 2
  BY <1>1 DEF Begins, FineWrites, IsSeq
<1>3. 1 \in DOMAIN s /\ 2 \in DOMAIN s /\ 1..1 = {1} /\ 1..2 = {1, 2}
  BY <1>2
<1>4. ~Tells(s[1]) /\ ~Tells(s[2])
  BY <1>1, SnapshotTellsNothing DEF Begins
<1>5. \A p \in DemoPages : \E h \in DOMAIN s : s[h] = SnapshotWrite(p) /\ \A k \in 1..h : ~Tells(s[k])
  BY <1>1, <1>3, <1>4 DEF Begins, DemoPages
<1>6. JobOk([todo |-> s, page |-> None, index |-> {}])
  BY <1>1, <1>5, BeginOk DEF Begins
<1> QED
  BY <1>6 DEF s

LEMMA CaseBuildOk == ASSUME NEW m PROVE JobOk([todo |-> <<GenerateWrite(m), FileWrite(m)>>, page |-> None, index |-> {}])
<1>1. FineWrites(<<GenerateWrite(m), FileWrite(m)>>, {})
  BY PlainOnes, TwoFine
<1> QED
  BY <1>1, BeginOk

CommandInv == JobsInv /\ StoreInv

\* The job that has indexed the identifiers is a good one.
LEMMA IndexKeeps ==
    ASSUME JobsInv, StoreInv, NEW w \in Worker, ReadIndex(w)
    PROVE  Grows /\ JobsInv' /\ StoreInv'
<1>1. PICK j : j = job[w] /\ JobOk(j)
  BY DEF JobsInv
<1>2. PICK k : k = [j EXCEPT !.todo = Tail(@), !.index = identifiers]
  OBVIOUS
<1>3. {"todo", "page", "index"} \subseteq DOMAIN k
      /\ k.todo = Tail(j.todo) /\ k.page = j.page /\ k.index = identifiers
  BY <1>1, <1>2 DEF JobOk
<1>4. j.todo # <<>> /\ Head(j.todo).op = "index" /\ UNCHANGED <<stored, ingested>>
      /\ job' = [job EXCEPT ![w] = k]
  BY <1>1, <1>2 DEF ReadIndex, Due
<1>5. j.todo[1].op = "index"
  BY <1>1, <1>4, TailIs DEF JobOk
<1>6. Kept(j.todo[1])' /\ Grows
  BY <1>4, <1>5 DEF Kept, Grows, stored, Preserved
<1>7. JobOk(k)'
  BY <1>1, <1>3, <1>4, <1>6, JobOkProceeds DEF stored
<1>8. JobOk(k)
  BY <1>4, <1>7 DEF JobOk, Prefaced, Kept, stored, Preserved
<1> QED
  BY <1>4, <1>8, JobsChange

LEMMA CommandsKept ==
    ASSUME CommandInv, [Next]_vars
    PROVE  Grows /\ CommandInv'
<1>1. ASSUME NEW w \in Worker, Statement(w) PROVE Grows /\ CommandInv'
  BY <1>1, StatementKeeps DEF CommandInv
<1>2. ASSUME NEW w \in Worker, Ingest(w) PROVE Grows /\ CommandInv'
  <2>1. PICK page \in Page : Begin(w, IngestWrites(page), page)
    BY <1>2 DEF Ingest
  <2>2. PICK j : j = [todo |-> IngestWrites(page), page |-> page, index |-> {}]
    OBVIOUS
  <2>3. JobOk(j) /\ job' = [job EXCEPT ![w] = j] /\ UNCHANGED <<stored, ingested>>
    BY <2>1, <2>2, IngestOk DEF Begin
  <2> QED
    BY <2>3, JobsChange DEF CommandInv
<1>3. ASSUME NEW w \in Worker, Demo(w) PROVE Grows /\ CommandInv'
  <2>1. Begin(w, DemoWrites, None)
    BY <1>3 DEF Demo
  <2>2. PICK j : j = [todo |-> DemoWrites, page |-> None, index |-> {}]
    OBVIOUS
  <2>3. JobOk(j) /\ job' = [job EXCEPT ![w] = j] /\ UNCHANGED <<stored, ingested>>
    BY <2>1, <2>2, DemoOk DEF Begin
  <2> QED
    BY <2>3, JobsChange DEF CommandInv
<1>4. ASSUME NEW w \in Worker, CaseBuild(w) PROVE Grows /\ CommandInv'
  <2>1. PICK m \in matters : Begin(w, <<GenerateWrite(m), FileWrite(m)>>, None)
    BY <1>4 DEF CaseBuild
  <2>2. PICK j : j = [todo |-> <<GenerateWrite(m), FileWrite(m)>>, page |-> None, index |-> {}]
    OBVIOUS
  <2>3. JobOk(j) /\ job' = [job EXCEPT ![w] = j] /\ UNCHANGED <<stored, ingested>>
    BY <2>1, <2>2, CaseBuildOk DEF Begin
  <2> QED
    BY <2>3, JobsChange DEF CommandInv
<1>5. ASSUME NEW w \in Worker, Crash(w) PROVE Grows /\ CommandInv'
  BY <1>5, IdleOk, JobsChange DEF Crash, CommandInv
<1>6. ASSUME NEW w \in Worker, ReadIndex(w) PROVE Grows /\ CommandInv'
  BY <1>6, IndexKeeps DEF CommandInv
<1>7. CASE UNCHANGED vars
  <2>1. Grows
    BY <1>7 DEF vars, stored, Grows, Preserved
  <2>2. StoreInv'
    BY <1>7 DEF vars, stored, StoreInv, CommandInv, EventsInv, IngestedInv, Preserved, Kept
  <2>3. ASSUME NEW o \in Worker PROVE \E i : i = job'[o] /\ JobOk(i)'
    BY <1>7, <2>1, JobOkStays DEF vars, CommandInv, JobsInv
  <2>4. JobsInv'
    BY <1>7, <2>3 DEF JobsInv, CommandInv, vars
  <2> QED
    BY <2>1, <2>2, <2>4 DEF CommandInv
<1> QED
  BY <1>1, <1>2, <1>3, <1>4, <1>5, <1>6, <1>7 DEF Next, Statement

LEMMA CommandsInit == Init => CommandInv
<1> SUFFICES ASSUME Init PROVE CommandInv
  OBVIOUS
<1>1. StoreInv
  BY ShortSeqs DEF Init, StoreInv, EventsInv, IngestedInv
<1>2. JobsInv
  BY IdleOk DEF Init, JobsInv
<1> QED
  BY <1>1, <1>2 DEF CommandInv
(***************************************************************************)
(* The theorems.                                                           *)
(***************************************************************************)

\* An award or a solicitation cites a preserved page that has its row, however
\* ingests, the demo and case builds overlap and wherever they stop
\* (attach_award_row, attach_solicitation_record, insert_event).
THEOREM EventsAreCited == Spec => []EventsCiteTheirRow
<1>1. CommandInv => EventsCiteTheirRow
  BY DEF CommandInv, StoreInv, EventsInv, CitesRow, EventsCiteTheirRow, Evidenced
<1>2. CommandInv /\ [Next]_vars => CommandInv'
  BY CommandsKept
<1> QED
  BY <1>1, <1>2, CommandsInit, PTL DEF Spec

LEMMA KeptReaches ==
    ASSUME StoreInv, NEW page \in ingested, NEW i \in DOMAIN RowsOf[page],
           Norm[RowsOf[page][i].raw] # None
    PROVE  LET row == RowsOf[page][i]
               m == MatterFor(Norm[row.raw])
           IN  /\ m \in matters /\ [matter |-> m, raw |-> row.raw] \in identifiers
               /\ \E e \in EventsOf(m) : Last(e.summary) = row.text
<1> DEFINE row == RowsOf[page][i]
           m == MatterFor(Norm[row.raw])
           s == IngestWrites(page)
<1>1. page \in Page /\ \A x \in Range(s) : Kept(x)
  BY DEF StoreInv, IngestedInv
<1>2. Reaches(s, row)
  BY <1>1, IngestWritesAre
<1> HIDE DEF s
<1>3. \E x \in Range(s) : x.op = "matter" /\ x.matter = m
  BY <1>2 DEF Reaches
<1>4. \E x \in Range(s) : x.op = "identifier" /\ x.identifier = [matter |-> m, raw |-> row.raw]
  BY <1>2 DEF Reaches
<1>5. PICK x \in Range(s) : x.op = "event" /\ x.event.matter = m /\ Last(x.event.summary) = row.text
  BY <1>2 DEF Reaches
<1> HIDE DEF m, row
<1>6. m \in matters
  BY <1>1, <1>3 DEF Kept
<1>7. [matter |-> m, raw |-> row.raw] \in identifiers
  BY <1>1, <1>4 DEF Kept
<1>8. PICK f \in events : EventId(f) = EventId(x.event)
  BY <1>1, <1>5 DEF Kept
<1>9. f.matter = m /\ f.summary = x.event.summary
  BY <1>5, <1>8 DEF EventId
<1>10. \E e \in EventsOf(m) : Last(e.summary) = row.text
  BY <1>5, <1>9 DEF EventsOf
<1> QED
  BY <1>6, <1>7, <1>10 DEF m, row

\* After an ingest that ended well every row with an identifier has its matter,
\* its identifier and its event, whatever earlier ingests left undone
\* (ingest_awards, ingest_solicitations: every statement is an INSERT OR
\* IGNORE, and every row is attached again).
THEOREM IngestsReach == Spec => []IngestedIsReachable
<1>1. CommandInv => IngestedIsReachable
  BY KeptReaches DEF CommandInv, IngestedIsReachable
<1>2. CommandInv /\ [Next]_vars => CommandInv'
  BY CommandsKept
<1> QED
  BY <1>1, <1>2, CommandsInit, PTL DEF Spec

\* What resolved goes on resolving.
LEMMA EvidenceStays ==
    ASSUME Grows, NEW m
    PROVE  /\ EventsOf(m) \subseteq EventsOf(m)'
           /\ \A e : Evidenced(e) => Evidenced(e)'
           /\ IdentifiersOf(m) \subseteq IdentifiersOf(m)'
<1>1. EventsOf(m) \subseteq EventsOf(m)'
  BY DEF Grows, EventsOf
<1>2. \A e : Evidenced(e) => Evidenced(e)'
  BY DEF Grows, Evidenced
<1>3. IdentifiersOf(m) \subseteq IdentifiersOf(m)'
  BY DEF Grows, IdentifiersOf
<1> QED
  BY <1>1, <1>2, <1>3

LinkOk(l) ==
    /\ l.page \in Preserved
    /\ [matter |-> l.in, raw |-> l.target] \in identifiers
    /\ \E e \in EventsOf(l.in) : Evidenced(e)

LEMMA LinkStays == ASSUME Grows, NEW l, LinkOk(l) PROVE LinkOk(l)'
<1>1. PICK e \in EventsOf(l.in) : Evidenced(e)
  BY DEF LinkOk
<1>2. PICK m : m = l.in
  OBVIOUS
<1>3. e \in EventsOf(m)' /\ Evidenced(e)'
  BY <1>1, <1>2, EvidenceStays
<1>4. \E f \in EventsOf(l.in)' : Evidenced(f)'
  BY <1>2, <1>3
<1> QED
  BY <1>4 DEF LinkOk, Grows

\* A new link leads from the record that was looked at to an identifier of a
\* matter that resolves.
LEMMA RelateIs ==
    ASSUME JobsInv, StoreInv, NEW w \in Worker, Relate(w)
    PROVE  \A l \in links' : l \in links \/ LinkOk(l)
<1> DEFINE r == Write(w)
           index == job[w].index
           hits == UNION {Targets(index, r, r.refs[k]) : k \in DOMAIN r.refs}
           spelled == {i.raw : i \in hits}
           known == {l.target : l \in {l \in links : l.matter = r.matter /\ l.page = r.page /\ l.refs = r.refs}}
<1>1. PICK pick \in [spelled \ known -> hits] :
        /\ \A raw \in spelled \ known : pick[raw].raw = raw
        /\ links' = links \cup
             {[matter |-> r.matter, page |-> r.page, refs |-> r.refs,
               target |-> raw, in |-> pick[raw].matter] : raw \in spelled \ known}
  BY DEF Relate
<1>2. r.page \in Preserved
  BY HeadIs DEF Relate, Due, Write, Tells, PageOf
<1>3. \A i \in hits : i \in identifiers /\ IsIdentifier(i) /\ Resolves(i.matter)
  <2>1. index \subseteq identifiers
    BY DEF JobsInv, JobOk
  <2> QED
    BY <2>1 DEF Targets, StoreInv
<1> HIDE DEF r, index, hits, spelled, known
<1>4. ASSUME NEW l \in links', l \notin links PROVE LinkOk(l)
  <2>1. PICK raw \in spelled \ known :
          l = [matter |-> r.matter, page |-> r.page, refs |-> r.refs, target |-> raw, in |-> pick[raw].matter]
    BY <1>1, <1>4
  <2>2. PICK i : i = pick[raw]
    OBVIOUS
  <2>3. i \in hits /\ i.raw = raw
    BY <1>1, <2>1, <2>2
  <2>4. l.page = r.page /\ l.target = i.raw /\ l.in = i.matter
    BY <2>1, <2>2, <2>3
  <2>5. i \in identifiers /\ i = [matter |-> i.matter, raw |-> i.raw] /\ Resolves(i.matter)
    BY <1>3, <2>3 DEF IsIdentifier
  <2> QED
    BY <1>2, <2>4, <2>5 DEF LinkOk, Resolves
<1> QED
  BY <1>4

LinksInv == \A l \in links : LinkOk(l)

LEMMA LinksKept ==
    ASSUME CommandInv, LinksInv, [Next]_vars
    PROVE  LinksInv'
<1>1. Grows
  BY CommandsKept
<1>2. \A l \in links : LinkOk(l)'
  BY <1>1, LinkStays DEF LinksInv
<1>3. ASSUME NEW w \in Worker, Relate(w) PROVE LinksInv'
  <2>1. \A l \in links' : l \in links \/ LinkOk(l)
    BY <1>3, RelateIs DEF CommandInv
  <2>2. \A l \in links' : LinkOk(l)'
    BY <1>1, <1>2, <2>1, LinkStays
  <2> QED
    BY <2>2 DEF LinksInv
<1>4. CASE UNCHANGED links
  BY <1>2, <1>4 DEF LinksInv
<1>5. ASSUME NEW w \in Worker, \/ Statement(w) /\ ~Relate(w)
                               \/ Ingest(w) \/ Demo(w) \/ CaseBuild(w) \/ ReadIndex(w) \/ Crash(w)
      PROVE  UNCHANGED links
  BY <1>5 DEF Statement, InsertSnapshot, InsertMatter, InsertIdentifier, InsertOrganization,
     InsertEvent, InsertItem, Generate, WriteFile, Ingest, Demo, CaseBuild, Begin, ReadIndex, Crash, stored
<1> QED
  BY <1>3, <1>4, <1>5 DEF Next, Statement, vars, stored

\* A relationship leads from a preserved page to a matter that has the
\* identifier and of which a preserved page speaks
\* (detect_official_relationships, matter_resolves_to_valid_snapshot).
THEOREM LinksResolve == Spec => []RelationshipsResolve
<1>1. Init => CommandInv /\ LinksInv
  BY CommandsInit DEF Init, LinksInv
<1>2. CommandInv /\ LinksInv /\ [Next]_vars => (CommandInv /\ LinksInv)'
  BY CommandsKept, LinksKept
<1>3. LinksInv => RelationshipsResolve
  BY DEF LinksInv, LinkOk, RelationshipsResolve
<1> QED
  BY <1>1, <1>2, <1>3, PTL DEF Spec

\* The chain of a matter and the quotes of its events only grow.
LEMMA ContentGrows ==
    ASSUME Grows, NEW m
    PROVE  LinksOf(m) \subseteq LinksOf(m)' /\ EventCitations(m) \subseteq EventCitations(m)'
<1>1. \A e : Evidenced(e) => Evidenced(e)'
  BY EvidenceStays
<1>2. EventsOf(m) \subseteq EventsOf(m)'
  BY EvidenceStays
<1>3. Staged(m) \subseteq Staged(m)'
  BY <1>2 DEF Staged
<1>4. ASSUME NEW e PROVE Keys(e) \subseteq Keys(e)'
  <2>1. PICK n : n = e.matter
    OBVIOUS
  <2>2. IdentifiersOf(n) \subseteq IdentifiersOf(n)'
    BY EvidenceStays
  <2>3. IdentifiersOf(e.matter) \subseteq IdentifiersOf(e.matter)'
    BY <2>1, <2>2
  <2> QED
    BY <2>3 DEF Keys
<1>5. Pairs(m) \subseteq Pairs(m)'
  <2>1. SUFFICES ASSUME NEW p \in Pairs(m) PROVE p \in Pairs(m)'
    OBVIOUS
  <2>2. PICK e, f : e = p[1] /\ f = p[2]
    OBVIOUS
  <2>3. p \in Staged(m)' \X Staged(m)'
    BY <1>3, <2>1 DEF Pairs
  <2>4. Keys(e) \cap Keys(f) # {} /\ e.date <= f.date /\ Stage[e.kind] # Stage[f.kind]
    BY <2>1, <2>2 DEF Pairs
  <2>5. Keys(e)' \cap Keys(f)' # {}
    BY <1>4, <2>4
  <2>6. Keys(p[1])' \cap Keys(p[2])' # {}
    BY <2>2, <2>5
  <2> QED
    BY <2>2, <2>3, <2>4, <2>6 DEF Pairs
<1>6. LinksOf(m) \subseteq LinksOf(m)'
  <2> DEFINE S == {p \in Pairs(m) : Evidenced(p[1]) /\ Evidenced(p[2])}
             link(p) == [from |-> Min({Stage[p[1].kind], Stage[p[2].kind]}),
                         to |-> Max({Stage[p[1].kind], Stage[p[2].kind]}),
                         fromEvent |-> p[1], toEvent |-> p[2]]
  <2>1. LinksOf(m) = {link(p) : p \in S}
    BY DEF LinksOf
  <2>2. LinksOf(m)' = {link(p) : p \in S'}
    BY DEF LinksOf
  <2>3. S \subseteq S'
    <3>1. SUFFICES ASSUME NEW p \in Pairs(m), Evidenced(p[1]), Evidenced(p[2])
                   PROVE  Evidenced(p[1])' /\ Evidenced(p[2])'
      BY <1>5
    <3>2. PICK e, f : e = p[1] /\ f = p[2]
      OBVIOUS
    <3>3. Evidenced(e)' /\ Evidenced(f)'
      BY <1>1, <3>1, <3>2
    <3> QED
      BY <3>2, <3>3
  <2> HIDE DEF S, link
  <2> QED
    BY <2>1, <2>2, <2>3
<1>7. EventCitations(m) \subseteq EventCitations(m)'
  BY <1>1, <1>2 DEF EventCitations
<1> QED
  BY <1>6, <1>7

LEMMA FilesKept ==
    ASSUME CommandInv, CaseFilesStayTrue, [Next]_vars
    PROVE  CaseFilesStayTrue'
<1>1. Grows
  BY CommandsKept
<1>2. ASSUME NEW m \in DOMAIN files
      PROVE  files[m].links \subseteq LinksOf(m)' /\ files[m].quotes \subseteq EventCitations(m)'
  BY <1>1, <1>2, ContentGrows DEF CaseFilesStayTrue
<1>3. CASE UNCHANGED files
  BY <1>2, <1>3 DEF CaseFilesStayTrue
<1>4. ASSUME NEW w \in Worker, WriteFile(w) PROVE CaseFilesStayTrue'
  <2>1. PICK n : n = Write(w).matter
    OBVIOUS
  <2>2. files' = [x \in DOMAIN files \cup {n} |-> IF x = n THEN Content(n) ELSE files[x]]
    BY <1>4, <2>1 DEF WriteFile
  <2>3. Content(n).links = LinksOf(n) /\ Content(n).quotes = EventCitations(n)
    BY DEF Content
  <2>4. LinksOf(n) \subseteq LinksOf(n)' /\ EventCitations(n) \subseteq EventCitations(n)'
    BY <1>1, ContentGrows
  <2>5. ASSUME NEW m \in DOMAIN files'
        PROVE  files'[m].links \subseteq LinksOf(m)' /\ files'[m].quotes \subseteq EventCitations(m)'
    <3>1. CASE m = n
      BY <2>2, <2>3, <2>4, <3>1
    <3>2. CASE m # n
      BY <1>2, <2>2, <3>2
    <3> QED
      BY <3>1, <3>2
  <2> QED
    BY <2>5 DEF CaseFilesStayTrue
<1>5. ASSUME NEW w \in Worker, \/ Statement(w) /\ ~WriteFile(w)
                               \/ Ingest(w) \/ Demo(w) \/ CaseBuild(w) \/ ReadIndex(w) \/ Crash(w)
      PROVE  UNCHANGED files
  BY <1>5 DEF Statement, InsertSnapshot, InsertMatter, InsertIdentifier, InsertOrganization,
     InsertEvent, InsertItem, Relate, Generate, Ingest, Demo, CaseBuild, Begin, ReadIndex, Crash
<1> QED
  BY <1>3, <1>4, <1>5 DEF Next, Statement, vars

\* What a written case file links and what it quotes of events the store goes
\* on saying, with the same evidence (build_content, and the INSERT OR IGNORE
\* of insert_procurement_event, which never replaces an event).
THEOREM FilesStayTrue == Spec => []CaseFilesStayTrue
<1>1. Init => CommandInv /\ CaseFilesStayTrue
  BY CommandsInit DEF Init, CaseFilesStayTrue
<1>2. CommandInv /\ CaseFilesStayTrue /\ [Next]_vars => (CommandInv /\ CaseFilesStayTrue)'
  BY CommandsKept, FilesKept
<1> QED
  BY <1>1, <1>2, PTL DEF Spec
\* Of a pair in the order of the query the first event is of the earlier
\* stage: the links that build_links_and_gaps orders by stage carry their
\* evidence in the same order.
LEMMA PairsRunForward ==
    ASSUME EventsInv, NEW m, NEW p \in Pairs(m)
    PROVE  Stage[p[1].kind] < Stage[p[2].kind]
<1>1. PICK e, f : e = p[1] /\ f = p[2]
  OBVIOUS
<1>2. /\ e \in events /\ f \in events /\ e.matter = m /\ f.matter = m
      /\ Stage[e.kind] # 0 /\ Stage[f.kind] # 0
      /\ e.date <= f.date /\ Stage[e.kind] # Stage[f.kind]
  BY <1>1 DEF Pairs, Staged, EventsOf
<1>3. Dated(e.kind, e.date, m) /\ Dated(f.kind, f.date, m)
  BY <1>2 DEF EventsInv
<1>4. DOMAIN Stage = {"solicitation", "answers", "award", "corrected", "removed"}
        /\ Stage["solicitation"] = 1 /\ Stage["answers"] = 1 /\ Stage["award"] = 3
        /\ Stage["corrected"] = 0 /\ Stage["removed"] = 0
  BY DEF Stage
<1>5. e.kind \in {"solicitation", "answers", "award"} /\ f.kind \in {"solicitation", "answers", "award"}
  BY <1>2, <1>3, <1>4 DEF Dated
<1>6. ASSUME e.kind = "award" PROVE FALSE
  <2>1. f.kind \in {"solicitation", "answers"}
    BY <1>2, <1>4, <1>5, <1>6
  <2>2. m # TransitMatter /\ e.date \in Nat /\ e.date # NoDate
    BY <1>3, <1>6 DEF Dated
  <2>3. f.date = NoDate
    BY <1>3, <2>1, <2>2 DEF Dated
  <2> QED
    BY <1>2, <2>2, <2>3 DEF NoDate
<1>7. f.kind = "award"
  BY <1>2, <1>4, <1>5, <1>6
<1> QED
  BY <1>1, <1>4, <1>5, <1>6, <1>7

LEMMA MinMaxOfTwo ==
    ASSUME NEW a \in Nat, NEW b \in Nat, a < b
    PROVE  Min({a, b}) = a /\ Max({a, b}) = b
  BY DEF Min, Max

\* The evidence a link gives for its earlier stage is that of the event of the
\* earlier stage (ordered_stages swaps the stages and not the evidence, which
\* is right because the events come in the order of their dates).
THEOREM ChainsRunForward == Spec => []LinksRunForward
<1>1. ASSUME CommandInv, NEW m \in matters, NEW l \in LinksOf(m)
      PROVE  l.from = Stage[l.fromEvent.kind] /\ l.to = Stage[l.toEvent.kind]
  <2>1. PICK p \in Pairs(m) :
          l = [from |-> Min({Stage[p[1].kind], Stage[p[2].kind]}),
               to |-> Max({Stage[p[1].kind], Stage[p[2].kind]}),
               fromEvent |-> p[1], toEvent |-> p[2]]
    BY <1>1 DEF LinksOf
  <2>2. PICK e, f : e = p[1] /\ f = p[2]
    OBVIOUS
  <2>3. Stage[e.kind] < Stage[f.kind]
    BY <1>1, <2>2, PairsRunForward DEF CommandInv, StoreInv
  <2>4. Stage[e.kind] \in Nat /\ Stage[f.kind] \in Nat
    <3>1. e \in events /\ f \in events
      BY <2>2 DEF Pairs, Staged, EventsOf
    <3>2. e.kind \in DOMAIN Stage /\ f.kind \in DOMAIN Stage
      BY <1>1, <3>1 DEF CommandInv, StoreInv, EventsInv, Dated
    <3>3. \A k \in DOMAIN Stage : Stage[k] \in Nat
      BY DEF Stage
    <3> QED
      BY <3>2, <3>3
  <2>5. Min({Stage[e.kind], Stage[f.kind]}) = Stage[e.kind] /\ Max({Stage[e.kind], Stage[f.kind]}) = Stage[f.kind]
    BY <2>3, <2>4, MinMaxOfTwo
  <2>6. l.from = Stage[e.kind] /\ l.to = Stage[f.kind] /\ l.fromEvent = e /\ l.toEvent = f
    BY <2>1, <2>2, <2>5
  <2> QED
    BY <2>6
<1>2. CommandInv => LinksRunForward
  BY <1>1 DEF LinksRunForward
<1>3. CommandInv /\ [Next]_vars => CommandInv'
  BY CommandsKept
<1> QED
  BY <1>2, <1>3, CommandsInit, PTL DEF Spec
=============================================================================
