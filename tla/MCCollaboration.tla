-------------------------- MODULE MCCollaboration --------------------------
(* Instances of Collaboration for TLC. *)
EXTENDS Collaboration, TLC

Symmetry == Permutations(Caller) \cup Permutations(Session) \cup Permutations(Post) \cup Permutations(Board)

(* Every session is of an agent of its own. *)
Itself == [s \in Session |-> s]

=============================================================================
