---------------------------- MODULE MCPublication ----------------------------
(* A small instance of Publication for TLC. *)
EXTENDS Publication, TLC

CONSTANTS b1, b2, c1, c2, c3, a1, a2, d2, e1, m1, m2, s1, s2, l1, n1

MCCitation == {c1, c2, c3}
MCAlertSeq == <<a1, a2>>
MCEvidenceSeq == <<e1>>
MCMatterSeq == <<m1, m2>>
MCLineCites == [a \in {a1, a2} |-> IF a = a1 THEN {c1} ELSE {c1, c2}]
MCEvidenceOf == [a \in {a1, a2} |-> e1]
MCPageCites == [e \in {e1} |-> {c3}]
Symmetry == Permutations({b1, b2})
MCMatterCites == [m \in {m1, m2} |-> {c2}]
MCDiffPage == [a \in {a2} |-> d2]
MCStatementsOf == [e \in {e1} |-> {s1, s2}]
MCStatementCites == [s \in {s1, s2} |-> IF s = s1 THEN {l1} ELSE {}]
=============================================================================
