----------------------------- MODULE MCXPostingHonest -----------------------------
(* A small instance of XPostingHonest for TLC. *)
EXTENDS XPostingHonest, TLC

CONSTANTS p1, p2, op, d1, d2

MCPoster == {p1, p2}
MCOperator == {op}
MCDraft == {d1, d2}
Symmetry == Permutations(MCPoster) \cup Permutations(MCDraft)
=============================================================================
