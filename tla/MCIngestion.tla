----------------------------- MODULE MCIngestion -----------------------------
(* Small instances of Ingestion: a long and a short scan, one PDF with text. *)
EXTENDS Ingestion, TLC

CONSTANTS scan2, scan1, pdf

MCPages == scan2 :> 2 @@ scan1 :> 1 @@ pdf :> 1
Symmetry == Permutations(Opener)
=============================================================================
