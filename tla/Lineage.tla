------------------------------ MODULE Lineage ------------------------------
(***************************************************************************)
(* The version chain of one record, as the parts of EmberDB see it that    *)
(* read a head and later call update(head.id, ...) without expected_hash:  *)
(* conflicts and sessions.  VersionStore models records, sidecars and the  *)
(* walk; here a chain is the result of the walk from the first version, a  *)
(* sequence of version numbers.  A version that falls off it never returns:*)
(* a sidecar is only ever pointed at a new version.                        *)
(***************************************************************************)
EXTENDS Naturals, Sequences

(* The versions of a chain. *)
On(chain) == {chain[i] : i \in DOMAIN chain}

(* get_current: the end of the walk. *)
Tip(chain) == chain[Len(chain)]

(* update(base, ...) writes version new and points the sidecar of base at   *)
(* it: what followed base falls off.  A base that has itself fallen off the *)
(* chain takes the new version along with it.                              *)
Superseding(chain, base, new) ==
    IF base \in On(chain)
    THEN LET i == CHOOSE i \in DOMAIN chain : chain[i] = base
         IN  Append(SubSeq(chain, 1, i), new)
    ELSE chain

=============================================================================
