--------------------------- MODULE MCVersionStore ---------------------------
(* Small instances of VersionStore for TLC.                                *)
EXTENDS VersionStore, TLC

Symmetry == Permutations(Handle) \cup Permutations(Version)

=============================================================================
