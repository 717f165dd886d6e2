------------------------------ MODULE MCSurfaces ------------------------------
(***************************************************************************)
(* The calls of the MCP server and the REST routes on conflicts and those  *)
(* on memories: a run explores one kind, the other stays as it is.         *)
(***************************************************************************)
EXTENDS Conflicts, Gateway, TLC

VARIABLE part

allVars == <<vars, gatewayVars, part>>

(* The registry every process has loaded: no namespace, or a private one of *)
(* one agent that the other may read.                                       *)
Registries ==
    {NoSpace} \cup {[level |-> "private", owner |-> a, readers |-> Agent \ {a},
                     writers |-> {}] : a \in Agent}

PartInit ==
    /\ Init /\ GatewayInit /\ Loaded
    /\ part \in {"conflicts", "memories"}
    /\ intended \in IF part = "conflicts" THEN {NoSpace} ELSE Registries

PartNext ==
    /\ UNCHANGED part
    /\ \/ part = "conflicts" /\ Next /\ UNCHANGED gatewayVars
       \/ part = "memories" /\ GatewayNext /\ UNCHANGED vars

PartSpec == PartInit /\ [][PartNext]_allVars

Symmetry == Permutations(Caller) \cup Permutations(Conflict) \cup Permutations(Handle)
              \cup Permutations(Process) \cup Permutations(Agent)

=============================================================================
