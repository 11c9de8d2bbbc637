---------------------------- MODULE MCCoraLedger ----------------------------
(* A small instance of CoraLedger for TLC. *)
EXTENDS CoraLedger, TLC

CONSTANTS p1, p2, p3, g1, o1

Symmetry == Permutations({p1, p2, p3})
=============================================================================
