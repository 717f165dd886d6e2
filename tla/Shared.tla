------------------------------- MODULE Shared -------------------------------
(* What sessions and the lobby both name. *)

CONSTANTS
    Session,
    Post,            \* lobby posts
    Item,            \* ids of failures, discoveries and memories
    None

ASSUME SharedAssumption == None \notin Session \cup Item \cup Post

=============================================================================
