------------------------------ MODULE MCServer ------------------------------
(***************************************************************************)
(* Five parts of a server that share no state, each on its own: a run      *)
(* explores one of them from its initial state, the others stay as they    *)
(* are.  The store is the one of RecordStore, whose handles are opened by  *)
(* the servers.  The parts that work together are composed in              *)
(* Collaboration.                                                          *)
(***************************************************************************)
EXTENDS RecordStore, Lobby, Namespaces, EventBroker, Upkeep

VARIABLE part

othersOfStore == <<lobbyVars, accessVars, brokerVars, upkeepVars>>
serverVars    == <<vars, othersOfStore, part>>

ServerInit ==
    /\ Init /\ LobbyInit /\ AccessInit /\ BrokerInit /\ UpkeepInit
    /\ part \in {"store", "lobby", "namespaces", "events", "upkeep"}

ServerNext ==
    /\ UNCHANGED part
    /\ \/ part = "store" /\ Next /\ UNCHANGED othersOfStore
       \/ /\ UNCHANGED vars
          /\ \/ /\ part = "lobby" /\ LobbyNext
                /\ UNCHANGED <<accessVars, brokerVars, upkeepVars>>
             \/ /\ part = "namespaces" /\ AccessNext
                /\ UNCHANGED <<lobbyVars, brokerVars, upkeepVars>>
             \/ /\ part = "events" /\ BrokerNext
                /\ UNCHANGED <<lobbyVars, accessVars, upkeepVars>>
             \/ /\ part = "upkeep" /\ UpkeepNext
                /\ UNCHANGED <<lobbyVars, accessVars, brokerVars>>

(* A handle that has begun a write or a replay runs on (RecordStore), in    *)
(* the part about it; so does time, and the loop of a server.               *)
StoreFairness  == \A h \in Handle : WF_vars(part = "store" /\ Step(h))
UpkeepFairness ==
    /\ WF_upkeepVars(part = "upkeep" /\ Tick)
    /\ \A k \in Keeper : WF_upkeepVars(part = "upkeep" /\ Cycle(k))

ServerSpec ==
    ServerInit /\ [][ServerNext]_serverVars
        /\ StoreFairness /\ BrokerFairness /\ UpkeepFairness

(* Two sessions of one agent and one of another. *)
TwoAgents == [s \in Session |-> IF s = CHOOSE t \in Session : TRUE THEN "a" ELSE "b"]

=============================================================================
