----------------------------- MODULE MCRefresh -----------------------------
(* A small instance of Refresh for TLC: two pages that differ in a changed
   and in a doubled row, one with an empty table, one without a table. *)
EXTENDS Refresh, TLC

CONSTANTS p1, p2, A, B, C, X

R(k, v) == [key |-> k, value |-> v]
MCParsed == [c \in Content |->
    CASE c = A -> <<R(1, 1)>>
      [] c = B -> <<R(1, 2), R(2, 1), R(2, 1)>>
      [] c = C -> <<>>
      [] OTHER -> NoRows]
Symmetry == Permutations({p1, p2})
=============================================================================
