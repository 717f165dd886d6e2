---------------------------- MODULE MCIndexLayer ----------------------------
(* Small instances of IndexLayer for TLC.                                  *)
EXTENDS IndexLayer, TLC

Symmetry == Permutations(Handle) \cup Permutations(Rec)

=============================================================================
