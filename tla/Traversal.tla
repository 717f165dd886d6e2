----------------------------- MODULE Traversal -----------------------------
(***************************************************************************)
(* The searches of the graph index (ember_core/src/lib.rs graph_query,     *)
(* behind embers/index/graph.py): shortest path, neighbours and subgraph,  *)
(* over a graph that is read once.  A pass over the queue or the frontier  *)
(* is a step.  Weights, labels and the filter on edge types are left out:  *)
(* edges are those of the type asked for.                                  *)
(***************************************************************************)
EXTENDS Naturals, Sequences, FiniteSetsExt, SequencesExt

CONSTANTS
    Node,          \* the memories that may be linked
    Root,          \* where the search starts
    MaxDepth,      \* bound: depths asked for
    MaxEdges       \* bound: edges of a graph

ASSUME TraversalAssumption ==
    IsFiniteSet(Node) /\ Root \in Node /\ {MaxDepth, MaxEdges} \subseteq Nat

Direction == {"outgoing", "incoming", "both"}

VARIABLES
    edges,         \* the graph
    asked,         \* the query
    visited,
    queue,         \* path: the paths to extend
    frontier,      \* neighbours, subgraph: the nodes of this round
    round,
    emitted,       \* neighbours, subgraph: the nodes of the answer
    done,
    path           \* path: the answer, <<>> for none

traversalVars == <<edges, asked, visited, queue, frontier, round, emitted, done, path>>

TraversalInit ==
    /\ edges \in UNION {kSubset(n, Node \X Node) : n \in 0..MaxEdges}
    /\ asked \in [of : {"path"}, to : Node, dir : {"outgoing"}, depth : 0..MaxDepth]
                   \cup [of : {"neighbors"}, to : {Root}, dir : Direction,
                         depth : 0..MaxDepth]
                   \cup [of : {"subgraph"}, to : {Root}, dir : {"outgoing"},
                         depth : 0..MaxDepth]
    /\ visited = IF asked.of = "path" THEN {Root} ELSE {}
    /\ queue = <<<<Root>>>> /\ frontier = {Root} /\ round = 0 /\ emitted = {}
    /\ done = (asked.of = "path" /\ asked.to = Root)
    /\ path = IF asked.of = "path" /\ asked.to = Root THEN <<Root>> ELSE <<>>

(* graph_edges. *)
Targets(n, dir) ==
    {m \in Node : \/ dir \in {"outgoing", "both"} /\ <<n, m>> \in edges
                  \/ dir \in {"incoming", "both"} /\ <<m, n>> \in edges}

(* Mutant: the depth counts nodes, not edges. *)
TooLongByNodes(p) == Len(p) >= asked.depth

TooLong(p) == Len(p) > asked.depth

(* The head of the queue is extended; the search ends with a path, with one *)
(* too long to extend, or with an empty queue.  Edges come in any order.    *)
PathStep ==
    /\ asked.of = "path" /\ ~done
    /\ IF queue = <<>> \/ TooLong(Head(queue))
       THEN done' = TRUE /\ UNCHANGED <<path, visited, queue>>
       ELSE LET p  == Head(queue)
                ts == Targets(Last(p), "outgoing")
            IN  IF asked.to \in ts
                THEN done' = TRUE /\ path' = Append(p, asked.to) /\ UNCHANGED <<visited, queue>>
                ELSE /\ visited' = visited \cup ts
                     /\ \E new \in SetToSeqs(ts \ visited) :
                           queue' = Tail(queue) \o [n \in DOMAIN new |-> Append(p, new[n])]
                     /\ UNCHANGED <<done, path>>
    /\ UNCHANGED <<edges, asked, frontier, round, emitted>>

(* A round of neighbours or subgraph.  The root is a node of its subgraph,  *)
(* not a neighbour of itself; a node that is met again is expanded once.    *)
Expand ==
    LET now  == frontier \ visited
        met  == (UNION {Targets(n, asked.dir) : n \in now}) \ (visited \cup now)
    IN  /\ asked.of # "path" /\ ~done
        /\ round < asked.depth
        /\ round' = round + 1
        /\ visited' = visited \cup now
        /\ frontier' = met
        /\ emitted' = emitted \cup met
        /\ UNCHANGED <<edges, asked, queue, done, path>>

EndRounds ==
    /\ asked.of # "path" /\ ~done
    /\ round = asked.depth
    /\ done' = TRUE
    /\ emitted' = IF asked.of = "subgraph" THEN visited \cup frontier ELSE emitted
    /\ UNCHANGED <<edges, asked, visited, queue, frontier, round, path>>

TraversalNext == PathStep \/ Expand \/ EndRounds

TraversalSpec == TraversalInit /\ [][TraversalNext]_traversalVars

-----------------------------------------------------------------------------

(* The nodes within n edges of the root. *)
Within(dir) ==
    LET reach[n \in 0..MaxDepth] ==
            IF n = 0 THEN {Root}
            ELSE reach[n - 1] \cup UNION {Targets(m, dir) : m \in reach[n - 1]}
    IN  reach

(* A search finds what is within its depth, an edge more or less decides:   *)
(* path() returns a shortest path exactly when one of at most max_depth     *)
(* edges exists, neighbors() and subgraph() return exactly the nodes at     *)
(* most depth edges away, on any graph, cycles and self-references included.*)
SearchExact ==
    LET within == Within(asked.dir)[asked.depth] IN
    done =>
        CASE asked.of = "path" ->
               /\ path # <<>> <=> asked.to \in within
               /\ path # <<>> =>
                     /\ path[1] = Root /\ Last(path) = asked.to
                     /\ \A n \in 1..Len(path) - 1 : <<path[n], path[n + 1]>> \in edges
                     /\ \A n \in 0..MaxDepth :
                           n < Len(path) - 1 => asked.to \notin Within("outgoing")[n]
          [] asked.of = "neighbors" -> emitted = within \ {Root}
          [] asked.of = "subgraph" -> emitted = within

=============================================================================
