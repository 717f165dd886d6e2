----------------------------- MODULE MCPromotion -----------------------------
(* Instances of Promotion for TLC. *)
EXTENDS Promotion, TLC

CONSTANTS c1, c2, p1, m1, m2, e1, e2, alice, bob

MCAuthor == (e1 :> alice) @@ (e2 :> bob)

(* Strong and grounded; a bare claim; weak, by an agent who is not trusted, *)
(* but corroborated by two, and derived from a memory.                     *)
MCDraft ==
    {[evidence |-> {e1}, confidence |-> 3, agent |-> alice, source |-> None],
     [evidence |-> {}, confidence |-> 3, agent |-> alice, source |-> None]}
    \cup {[evidence |-> {e1, e2}, confidence |-> 1, agent |-> bob, source |-> m] : m \in Mem}

Symmetry == Permutations(Caller) \cup Permutations(Prop) \cup Permutations(Mem)

=============================================================================
