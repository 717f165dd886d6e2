---------------------------- MODULE MCRecordStore ----------------------------
(* Small instances of RecordStore for TLC.                                 *)
EXTENDS RecordStore, TLC

Symmetry == Permutations(Handle) \cup Permutations(Id)
                \cup Permutations(Content) \cup Permutations(WalId)

=============================================================================
