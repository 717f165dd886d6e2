--------------------------- MODULE RetrievalProofs ---------------------------
(***************************************************************************)
(* Proofs about the searches: Traversal, VersionGraph, Audit, Recall and   *)
(* Episodes, for any sizes and bounds.                                     *)
(*                                                                         *)
(* What they compute is recursive over data, so the module begins with     *)
(* induction in the form in which the provers can use it, a set of         *)
(* numbers, and with the existence of recursive functions (Iterates,       *)
(* Recursive).                                                             *)
(*                                                                         *)
(* Traversal: what is visited and not in the queue has its neighbours      *)
(* visited (Searched), and the queue holds the paths of one length before  *)
(* those of the next, so that the first path found is a shortest one.      *)
(*                                                                         *)
(* VersionGraph: a parent is older than its child, and the links of the    *)
(* index and of the disk name the newest child of those that each knows of *)
(* (Names, VersionSound).  So a walk along them ends (WalkIs), there is    *)
(* only one (WalkIsUnique), and the first children are as many as the      *)
(* nodes that are no heads (HeadsCounted).                                 *)
(* Audit: a fact is between versions that were written, and the edges of   *)
(* what was derived are drawn unless a callback failed (AuditInv).         *)
(*                                                                         *)
(* Recall: while the store is open the indexes hold what was indexed       *)
(* (Found), and an index that is read from disk or made from the records   *)
(* again (Rebuilt) does so too.                                            *)
(*                                                                         *)
(* Episodes: what has been read is cut at the boundaries into whole        *)
(* episodes (Cut), and joining them gives the stream back (FlattenMore).   *)
(***************************************************************************)
EXTENDS Traversal, Audit, Recall, Episodes, SequenceTheorems, FiniteSetTheorems, TLAPS

-----------------------------------------------------------------------------
(* Induction, with the numbers that satisfy a formula as a set: the least   *)
(* number principle follows from the well-foundedness of < on Nat.          *)

LEMMA LeastNumber ==
    ASSUME NEW T, T \subseteq Nat, T # {}
    PROVE  \E n \in T : \A m \in T : n <= m
  <1>1. PICK R : R = {p \in Nat \X Nat : p[1] < p[2]}
    OBVIOUS
  <1>2. IsWellFoundedOn(R, Nat)
    BY <1>1, NatLessThanWellFounded DEF OpToRel
  <1>3. PICK x \in T : \A y \in T : <<y, x>> \notin R
    BY <1>2, WFMin
  <1>4. \A y \in T : y \in Nat /\ <<y, x>> \in Nat \X Nat
    OBVIOUS
  <1>5. \A y \in T : ~(y < x)
    BY <1>1, <1>3, <1>4
  <1> QED  BY <1>4, <1>5

LEMMA Induction ==
    ASSUME NEW T, 0 \in T, \A n \in Nat : n \in T => n + 1 \in T
    PROVE  \A n \in Nat : n \in T
  <1> SUFFICES ASSUME Nat \ T # {}  PROVE  FALSE
    OBVIOUS
  <1>1. PICK n \in Nat \ T : \A m \in Nat \ T : n <= m
    BY LeastNumber
  <1>2. n # 0 /\ n - 1 \in Nat /\ ~(n <= n - 1)
    OBVIOUS
  <1> QED  BY <1>1, <1>2

(* f begins with a, and G makes each of its N next values from the last. *)
Iterated(f, S, a, G, N) ==
    f \in [0..N -> S] /\ f[0] = a /\ \A n \in 1..N : f[n] = G[f[n - 1]]

LEMMA Iterates ==
    ASSUME NEW S, NEW a \in S, NEW G \in [S -> S], NEW M \in Nat
    PROVE  \E f : Iterated(f, S, a, G, M)
  <1> DEFINE Is(N, f) == f[0] = a /\ \A n \in 1..N : f[n] = G[f[n - 1]]
             T == {N \in Nat : \E f \in [0..N -> S] : Is(N, f)}
  <1>1. 0 \in T
    <2>1. [n \in 0..0 |-> a] \in [0..0 -> S] /\ Is(0, [n \in 0..0 |-> a])
      OBVIOUS
    <2> QED  BY <2>1
  <1>2. ASSUME NEW N \in Nat, N \in T  PROVE  N + 1 \in T
    <2>1. PICK f \in [0..N -> S] : Is(N, f)
      BY <1>2
    <2>2. PICK g : g = [n \in 0..(N + 1) |-> IF n <= N THEN f[n] ELSE G[f[N]]]
      OBVIOUS
    <2>3. f[N] \in S /\ G[f[N]] \in S
      BY <2>1
    <2>4. g \in [0..(N + 1) -> S]
      BY <2>2, <2>3
    <2>5. g[0] = a
      BY <2>1, <2>2
    <2>6. ASSUME NEW n \in 1..(N + 1)  PROVE  g[n] = G[g[n - 1]]
      <3>1. n - 1 \in 0..N /\ g[n - 1] = f[n - 1]
        BY <2>2
      <3>2. CASE n <= N
        BY <2>1, <2>2, <3>1, <3>2
      <3>3. CASE n = N + 1
        BY <2>2, <3>1, <3>3
      <3> QED  BY <3>2, <3>3
    <2>7. Is(N + 1, g)
      BY <2>5, <2>6
    <2>8. \E h \in [0..(N + 1) -> S] : Is(N + 1, h)
      BY <2>4, <2>7
    <2> QED  BY <2>8
  <1>3. \A N \in Nat : N \in T
    <2> HIDE DEF T
    <2> QED  BY <1>1, <1>2, Induction
  <1>4. PICK f \in [0..M -> S] : Is(M, f)
    BY <1>3
  <1> QED  BY <1>4 DEF Iterated

(* F determines each value of a function on D from the smaller ones. *)
Progressive(F, D, S) ==
    /\ F \in [[D -> S] -> [D -> S]]
    /\ \A u, w \in [D -> S] : \A n \in D :
          (\A k \in D : k < n => u[k] = w[k]) => F[u][n] = F[w][n]

HasFixpoint(F, D, S) == \E u \in [D -> S] : F[u] = u

LEMMA Recursive ==
    ASSUME NEW N \in Nat, NEW D, D \subseteq 0..N, NEW S, S # {}, NEW F, Progressive(F, D, S)
    PROVE  HasFixpoint(F, D, S)
  <1> DEFINE U == [D -> S]
  <1>0. \A k \in D : k \in Nat /\ k <= N
    OBVIOUS
  <1>1. PICK a : a \in U
    <2>1. PICK e : e \in S
      OBVIOUS
    <2>2. [n \in D |-> e] \in U
      BY <2>1
    <2> QED  BY <2>2
  <1>2. F \in [U -> U] /\ N + 2 \in Nat
    BY DEF Progressive
  <1>3. PICK f : f \in [0..(N + 2) -> U] /\ f[0] = a /\ \A n \in 1..(N + 2) : f[n] = F[f[n - 1]]
    <2>1. \E f : Iterated(f, U, a, F, N + 2)
      BY <1>1, <1>2, Iterates
    <2> QED  BY <2>1 DEF Iterated
  <1> DEFINE T == {n \in Nat : n <= N + 1 => \A w \in D : w < n => F[f[n]][w] = f[n][w]}
  <1>4. 0 \in T
    <2>1. \A w \in D : ~(w < 0)
      OBVIOUS
    <2> QED  BY <2>1
  <1>5. ASSUME NEW n \in Nat, n \in T  PROVE  n + 1 \in T
    <2>1. CASE n + 1 <= N + 1
      <3>1. /\ n \in 0..(N + 2) /\ n + 1 \in 1..(N + 2) /\ n + 1 \in 0..(N + 2)
            /\ (n + 1) - 1 = n /\ n <= N + 1
        BY <2>1
      <3>2. f[n + 1] = F[f[n]] /\ f[n] \in U /\ f[n + 1] \in U
        BY <1>3, <3>1
      <3>3. \A w \in D : w < n => F[f[n]][w] = f[n][w]
        BY <1>5, <3>1
      <3>4. ASSUME NEW w \in D, w < n + 1  PROVE  F[f[n + 1]][w] = f[n + 1][w]
        <4>1. \A k \in D : k < w => k < n
          <5>1. w \in Nat /\ n \in Nat /\ w < n + 1
            BY <1>0, <1>5, <3>4
          <5> QED  BY ONLY <1>0, <5>1
        <4>2. \A k \in D : k < w => f[n + 1][k] = f[n][k]
          BY <3>2, <3>3, <4>1
        <4>3. F[f[n + 1]][w] = F[f[n]][w]
          BY <3>2, <4>2 DEF Progressive
        <4> QED  BY <3>2, <4>3
      <3> QED  BY <3>4
    <2> QED  BY <2>1
  <1>6. \A n \in Nat : n \in T
    <2> HIDE DEF T
    <2> QED  BY <1>4, <1>5, Induction
  <1>7. PICK u : u = f[N + 1]
    OBVIOUS
  <1>8. u \in U /\ F[u] \in U /\ \A w \in D : F[u][w] = u[w]
    <2>1. N + 1 \in 0..(N + 2) /\ N + 1 \in Nat /\ \A w \in D : w < N + 1
      BY <1>0
    <2>2. u \in U /\ F[u] \in U
      BY <1>2, <1>3, <1>7, <2>1
    <2>3. \A w \in D : w < N + 1 => F[f[N + 1]][w] = f[N + 1][w]
      BY <1>6, <2>1
    <2>4. \A w \in D : w < N + 1 => F[u][w] = u[w]
      BY ONLY <1>7, <2>3
    <2>5. \A w \in D : F[u][w] = u[w]
      BY ONLY <2>1, <2>4
    <2> QED  BY <2>2, <2>5
  <1>9. F[u] = u
    <2>1. u = [w \in D |-> u[w]] /\ F[u] = [w \in D |-> F[u][w]]
      BY <1>8
    <2>2. [w \in D |-> F[u][w]] = [w \in D |-> u[w]]
      BY <1>8
    <2> QED  BY ONLY <2>1, <2>2
  <1> QED  BY <1>8, <1>9 DEF HasFixpoint

-----------------------------------------------------------------------------
(* Searches of the graph. *)

(* The nodes within n edges of the root, in the direction of the search. *)
Reach(n) == Within(asked.dir)[n]

LEMMA ReachIs ==
    /\ Reach(0) = {Root}
    /\ \A n \in 0..MaxDepth : Reach(n) \subseteq Node
    /\ \A n \in 1..MaxDepth :
          Reach(n) = Reach(n - 1) \cup UNION {Targets(m, asked.dir) : m \in Reach(n - 1)}
  <1> DEFINE Next1(X) == X \cup UNION {Targets(m, asked.dir) : m \in X}
  <1>1. PICK G : G = [X \in SUBSET Node |-> Next1(X)]
    OBVIOUS
  <1>2. G \in [SUBSET Node -> SUBSET Node]
    BY <1>1 DEF Targets
  <1>3. MaxDepth \in Nat /\ {Root} \in SUBSET Node
    BY TraversalAssumption
  <1>4. PICK f \in [0..MaxDepth -> SUBSET Node] :
           f[0] = {Root} /\ \A n \in 1..MaxDepth : f[n] = G[f[n - 1]]
    <2>1. \E f : Iterated(f, SUBSET Node, {Root}, G, MaxDepth)
      BY <1>2, <1>3, Iterates
    <2> QED  BY <2>1 DEF Iterated
  <1>5. \A n \in 1..MaxDepth : f[n] = Next1(f[n - 1])
    <2>1. \A n \in 1..MaxDepth : f[n - 1] \in SUBSET Node
      BY <1>3, <1>4
    <2> QED  BY <1>1, <1>4, <2>1
  <1>6. f = [n \in 0..MaxDepth |-> IF n = 0 THEN {Root} ELSE Next1(f[n - 1])]
    BY <1>3, <1>4, <1>5
  <1>7. Within(asked.dir) = [n \in 0..MaxDepth |->
           IF n = 0 THEN {Root} ELSE Next1(Within(asked.dir)[n - 1])]
    BY <1>6 DEF Within
  <1>8. PICK w : w = Within(asked.dir)
    OBVIOUS
  <1>9. w = [n \in 0..MaxDepth |-> IF n = 0 THEN {Root} ELSE Next1(w[n - 1])]
    BY <1>7, <1>8
  <1>10. w[0] = {Root} /\ \A n \in 1..MaxDepth : w[n] = Next1(w[n - 1])
    <2>1. \A n \in 0..MaxDepth : w[n] = IF n = 0 THEN {Root} ELSE Next1(w[n - 1])
      BY ONLY <1>9
    <2>2. 0 \in 0..MaxDepth /\ \A n \in 1..MaxDepth : n \in 0..MaxDepth /\ n # 0
      BY <1>3
    <2> QED  BY <2>1, <2>2
  <1>11. \A n \in 0..MaxDepth : w[n] \subseteq Node
    <2> DEFINE T == {n \in Nat : n \in 0..MaxDepth => w[n] \subseteq Node}
    <2>1. 0 \in T
      BY <1>3, <1>10
    <2>2. ASSUME NEW n \in Nat, n \in T  PROVE  n + 1 \in T
      <3>1. CASE n + 1 \in 0..MaxDepth
        <4>1. n \in 0..MaxDepth /\ n + 1 \in 1..MaxDepth /\ (n + 1) - 1 = n
          BY <3>1, <1>3
        <4>2. w[n] \subseteq Node /\ w[n + 1] = Next1(w[n])
          BY <1>10, <2>2, <4>1
        <4>3. w[n + 1] \subseteq Node
          BY <4>2 DEF Targets
        <4> QED  BY <4>3
      <3> QED  BY <3>1
    <2>3. \A n \in Nat : n \in T
      <3> HIDE DEF T
      <3> QED  BY <2>1, <2>2, Induction
    <2> QED  BY <2>3
  <1> QED  BY <1>8, <1>10, <1>11 DEF Reach

LEMMA ReachGrows ==
    \A m, n \in 0..MaxDepth : m <= n => Reach(m) \subseteq Reach(n)
  <1> SUFFICES ASSUME NEW m \in 0..MaxDepth
               PROVE  \A n \in 0..MaxDepth : m <= n => Reach(m) \subseteq Reach(n)
    OBVIOUS
  <1>0. MaxDepth \in Nat
    BY TraversalAssumption
  <1> DEFINE T == {k \in Nat : m + k \in 0..MaxDepth => Reach(m) \subseteq Reach(m + k)}
  <1>1. 0 \in T
    <2>1. m + 0 = m
      BY <1>0
    <2> QED  BY <2>1
  <1>2. ASSUME NEW k \in Nat, k \in T  PROVE  k + 1 \in T
    <2>1. CASE m + (k + 1) \in 0..MaxDepth
      <3>1. m + k \in 0..MaxDepth /\ m + (k + 1) \in 1..MaxDepth /\ (m + (k + 1)) - 1 = m + k
        BY <1>0, <2>1
      <3>2. Reach(m) \subseteq Reach(m + k)
        BY <1>2, <3>1
      <3>3. Reach(m + k) \subseteq Reach(m + (k + 1))
        BY <3>1, ReachIs
      <3> QED  BY <3>2, <3>3
    <2> QED  BY <2>1
  <1>3. \A k \in Nat : k \in T
    <2> HIDE DEF T
    <2> QED  BY <1>1, <1>2, Induction
  <1>4. ASSUME NEW n \in 0..MaxDepth, m <= n  PROVE  Reach(m) \subseteq Reach(n)
    <2>1. n - m \in Nat /\ m + (n - m) = n
      BY <1>0, <1>4
    <2>2. n - m \in T
      BY <1>3, <2>1
    <2> QED  BY <2>1, <2>2
  <1> QED  BY <1>4

(* What edges do not lead out of is all that can be reached. *)
LEMMA ClosedHolds ==
    ASSUME NEW U, Root \in U, \A v \in U : Targets(v, asked.dir) \subseteq U
    PROVE  \A n \in 0..MaxDepth : Reach(n) \subseteq U
  <1>0. MaxDepth \in Nat
    BY TraversalAssumption
  <1> DEFINE T == {n \in Nat : n \in 0..MaxDepth => Reach(n) \subseteq U}
  <1>1. 0 \in T
    BY ReachIs
  <1>2. ASSUME NEW n \in Nat, n \in T  PROVE  n + 1 \in T
    <2>1. CASE n + 1 \in 0..MaxDepth
      <3>1. n \in 0..MaxDepth /\ n + 1 \in 1..MaxDepth /\ (n + 1) - 1 = n
        BY <1>0, <2>1
      <3>2. Reach(n) \subseteq U
        BY <1>2, <3>1
      <3>3. Reach(n + 1) = Reach(n) \cup UNION {Targets(m, asked.dir) : m \in Reach(n)}
        BY <3>1, ReachIs
      <3> QED  BY <3>2, <3>3
    <2> QED  BY <2>1
  <1>3. \A n \in Nat : n \in T
    <2> HIDE DEF T
    <2> QED  BY <1>1, <1>2, Induction
  <1> QED  BY <1>3

LEMMA ReachStays ==
    ASSUME UNCHANGED <<edges, asked>>
    PROVE  /\ \A n : Reach(n)' = Reach(n)
           /\ \A m, d : Targets(m, d)' = Targets(m, d)
  <1>1. \A d : Within(d)' = Within(d)
    BY DEF Within, Targets
  <1> QED  BY <1>1 DEF Reach, Targets

Asked ==
    /\ edges \subseteq Node \X Node
    /\ asked.of \in {"path", "neighbors", "subgraph"} /\ asked.depth \in 0..MaxDepth
    /\ asked.of = "path" => asked.dir = "outgoing"
    /\ done \in BOOLEAN

(* A way along the edges, with no more edges than asked for. *)
IsPath(p) ==
    /\ p \in Seq(Node) /\ Len(p) \in 1..(asked.depth + 1) /\ p[1] = Root
    /\ \A n \in 1..Len(p) - 1 : <<p[n], p[n + 1]>> \in edges

Shortest(p) == \A n \in 0..MaxDepth : n < Len(p) - 1 => Last(p) \notin Reach(n)

(* The search for a path with queue q and visited nodes vs: the queue holds *)
(* shortest paths, shorter ones first and none longer by two; a node that   *)
(* was visited and is not the end of a path in the queue has no edge to a   *)
(* node that was not; what is nearer than the paths in the queue lead was   *)
(* visited.                                                                 *)
Searched(q, vs) ==
    /\ q \in Seq(Seq(Node)) /\ vs \subseteq Node /\ Root \in vs /\ asked.to \notin vs
    /\ \A n \in DOMAIN q : IsPath(q[n]) /\ Shortest(q[n])
    /\ \A m, n \in DOMAIN q : m <= n => Len(q[m]) <= Len(q[n]) /\ Len(q[n]) <= Len(q[1]) + 1
    /\ \A v \in vs : \/ Targets(v, asked.dir) \subseteq vs
                     \/ \E n \in DOMAIN q : Last(q[n]) = v
    /\ q # <<>> => \A n \in 0..MaxDepth : n < Len(q[1]) => Reach(n) \subseteq vs

(* What the search for a path answers. *)
PathFound ==
    /\ path # <<>> <=> asked.to \in Reach(asked.depth)
    /\ path # <<>> => IsPath(path) /\ Last(path) = asked.to /\ Shortest(path)

(* The rounds of the others: visited nodes lead to visited nodes or to the  *)
(* frontier, and both together are what is within so many edges.            *)
Rounds ==
    /\ round \in 0..asked.depth
    /\ visited \cup frontier = Reach(round) /\ visited \cap frontier = {}
    /\ \A v \in visited : Targets(v, asked.dir) \subseteq visited \cup frontier
    /\ emitted = Reach(round) \ {Root}

SearchInv ==
    /\ Asked
    /\ asked.of = "path" =>
          IF done THEN PathFound ELSE path = <<>> /\ Searched(queue, visited)
    /\ asked.of # "path" =>
          IF ~done THEN Rounds
          ELSE emitted = IF asked.of = "subgraph" THEN Reach(asked.depth)
                                                  ELSE Reach(asked.depth) \ {Root}

LEMMA LastOf ==
    ASSUME NEW S, NEW s \in Seq(S), s # <<>>
    PROVE  Len(s) \in Nat \ {0} /\ Last(s) = s[Len(s)] /\ Last(s) \in S
  <1>1. Len(s) \in Nat \ {0}
    BY EmptySeq
  <1> QED  BY <1>1, ElementOfSeq DEF Last

LEMMA Grown ==
    ASSUME NEW S, NEW s \in Seq(S), NEW e \in S
    PROVE  /\ Append(s, e) \in Seq(S) /\ Len(Append(s, e)) = Len(s) + 1
           /\ Last(Append(s, e)) = e /\ Append(s, e) # <<>>
           /\ \A n \in 1..Len(s) : Append(s, e)[n] = s[n]
           /\ Append(s, e)[Len(s) + 1] = e
  <1>1. /\ Append(s, e) \in Seq(S) /\ Len(Append(s, e)) = Len(s) + 1 /\ Len(s) \in Nat
        /\ \A n \in 1..Len(s) : Append(s, e)[n] = s[n]
        /\ Append(s, e)[Len(s) + 1] = e
    OBVIOUS
  <1>2. Append(s, e) # <<>>
    BY <1>1, EmptySeq
  <1> QED  BY <1>1, <1>2 DEF Last

(* A path leads where as many edges lead as it has. *)
LEMMA PathReaches ==
    ASSUME Asked, asked.dir = "outgoing", NEW p, IsPath(p)
    PROVE  Last(p) \in Reach(Len(p) - 1) /\ Last(p) \in Node /\ p # <<>>
  <1>1. /\ Len(p) \in Nat \ {0} /\ Len(p) - 1 \in 0..MaxDepth /\ MaxDepth \in Nat
        /\ p \in Seq(Node) /\ p # <<>>
    BY TraversalAssumption, EmptySeq DEF Asked, IsPath
  <1> DEFINE T == {n \in Nat : n \in 0..(Len(p) - 1) => p[n + 1] \in Reach(n)}
  <1>2. 0 \in T
    BY ReachIs DEF IsPath
  <1>3. ASSUME NEW n \in Nat, n \in T  PROVE  n + 1 \in T
    <2>1. CASE n + 1 \in 0..(Len(p) - 1)
      <3>1. /\ n \in 0..(Len(p) - 1) /\ n + 1 \in 1..MaxDepth /\ (n + 1) - 1 = n
            /\ n + 1 \in 1..Len(p) - 1 /\ (n + 1) + 1 \in 1..Len(p) /\ n + 1 \in 1..Len(p)
        BY <1>1, <2>1
      <3>2. p[n + 1] \in Reach(n)
        BY <1>3, <3>1
      <3>3. <<p[n + 1], p[(n + 1) + 1]>> \in edges
        BY <3>1 DEF IsPath
      <3>4. p[n + 1] \in Node /\ p[(n + 1) + 1] \in Node
        BY <1>1, <3>1, ElementOfSeq
      <3>5. p[(n + 1) + 1] \in Targets(p[n + 1], asked.dir)
        BY <3>3, <3>4 DEF Targets
      <3>6. Reach(n + 1) = Reach(n) \cup UNION {Targets(m, asked.dir) : m \in Reach(n)}
        BY <3>1, ReachIs
      <3>7. p[(n + 1) + 1] \in Reach(n + 1)
        BY <3>2, <3>5, <3>6
      <3> QED  BY <3>7
    <2> QED  BY <2>1
  <1>4. \A n \in Nat : n \in T
    <2> HIDE DEF T
    <2> QED  BY <1>2, <1>3, Induction
  <1>5. Len(p) - 1 \in Nat /\ (Len(p) - 1) + 1 = Len(p)
    BY <1>1
  <1>6. p[Len(p)] \in Reach(Len(p) - 1)
    BY <1>4, <1>5
  <1>7. Last(p) = p[Len(p)] /\ Last(p) \in Node
    BY <1>1, LastOf
  <1> QED  BY <1>1, <1>6, <1>7

LEMMA SearchStarts == TraversalInit => SearchInv
  <1> SUFFICES ASSUME TraversalInit  PROVE  SearchInv
    OBVIOUS
  <1>1. Asked
    BY DEF TraversalInit, Asked, kSubset
  <1>2. /\ Root \in Node /\ 0 \in 0..MaxDepth /\ MaxDepth \in Nat /\ asked.depth \in 0..MaxDepth
        /\ Reach(0) = {Root}
    BY <1>1, TraversalAssumption, ReachIs DEF Asked
  <1>3. <<Root>> \in Seq(Node) /\ Len(<<Root>>) = 1 /\ <<Root>>[1] = Root /\ <<Root>> # <<>>
        /\ Last(<<Root>>) = Root
    BY <1>2 DEF Last
  <1>4. IsPath(<<Root>>) /\ Shortest(<<Root>>)
    BY <1>2, <1>3 DEF IsPath, Shortest
  <1>5. CASE asked.of = "path" /\ done
    <2>1. Reach(0) \subseteq Reach(asked.depth)
      BY <1>2, ReachGrows
    <2> QED  BY <1>1, <1>2, <1>3, <1>4, <1>5, <2>1 DEF TraversalInit, SearchInv, PathFound
  <1>6. CASE asked.of = "path" /\ ~done
    <2>1. queue = <<<<Root>>>> /\ visited = {Root} /\ asked.to # Root /\ path = <<>>
      BY <1>6 DEF TraversalInit
    <2>2. queue \in Seq(Seq(Node)) /\ DOMAIN queue = {1} /\ queue[1] = <<Root>>
      BY <1>3, <2>1
    <2>3. \A n \in 0..MaxDepth : n < 1 => n = 0
      OBVIOUS
    <2>4. \A n \in DOMAIN queue : queue[n] = <<Root>>
      BY <2>2
    <2>5. \A m, n \in DOMAIN queue :
             m <= n => Len(queue[m]) <= Len(queue[n]) /\ Len(queue[n]) <= Len(queue[1]) + 1
      <3>1. \A n \in DOMAIN queue : Len(queue[n]) = 1
        BY <1>3, <2>4
      <3>2. 1 \in DOMAIN queue
        BY <2>2
      <3> QED  BY ONLY <3>1, <3>2
    <2>6. visited \subseteq Node /\ Root \in visited /\ asked.to \notin visited
      BY <1>2, <2>1
    <2>7. \A v \in visited : \E n \in DOMAIN queue : Last(queue[n]) = v
      BY <1>3, <2>1, <2>2
    <2>8. \A n \in 0..MaxDepth : n < Len(queue[1]) => Reach(n) \subseteq visited
      BY <1>2, <1>3, <2>1, <2>2, <2>3
    <2>9. Searched(queue, visited)
      BY <1>4, <2>2, <2>4, <2>5, <2>6, <2>7, <2>8 DEF Searched
    <2> QED  BY <1>1, <1>6, <2>1, <2>9 DEF SearchInv
  <1>7. CASE asked.of # "path"
    <2>1. visited = {} /\ frontier = {Root} /\ round = 0 /\ emitted = {} /\ ~done
      BY <1>7 DEF TraversalInit
    <2>2. Rounds
      BY <1>2, <2>1 DEF Rounds
    <2> QED  BY <1>1, <1>7, <2>1, <2>2 DEF SearchInv
  <1> QED  BY <1>5, <1>6, <1>7

(* The rounds. *)
LEMMA ExpandKeeps == SearchInv /\ Expand => SearchInv'
  <1> SUFFICES ASSUME SearchInv, Expand  PROVE  SearchInv'
    OBVIOUS
  <1>1. /\ asked.of # "path" /\ ~done /\ Rounds /\ Asked /\ round < asked.depth
        /\ round' = round + 1 /\ UNCHANGED <<edges, asked, done>>
    BY DEF SearchInv, Expand
  <1>2. /\ round \in Nat /\ asked.depth \in Nat /\ MaxDepth \in Nat /\ round + 1 \in 1..MaxDepth
        /\ (round + 1) - 1 = round /\ round + 1 \in 0..asked.depth
    BY <1>1, TraversalAssumption DEF Asked, Rounds
  <1>3. /\ Reach(round + 1) = Reach(round) \cup UNION {Targets(m, asked.dir) : m \in Reach(round)}
        /\ Reach(0) \subseteq Reach(round) /\ Reach(0) = {Root}
    BY <1>1, <1>2, ReachIs, ReachGrows
  <1>4. frontier \ visited = frontier /\ visited \cup frontier = Reach(round)
    BY <1>1 DEF Rounds
  <1> DEFINE met == (UNION {Targets(n, asked.dir) : n \in frontier}) \ Reach(round)
  <1>5. visited' = Reach(round) /\ frontier' = met /\ emitted' = emitted \cup met
    BY <1>4 DEF Expand
  <1>6. Reach(round) \cup met = Reach(round + 1) /\ met \cap Reach(round) = {}
    <2>1. \A t : t \in Reach(round + 1) <=> \/ t \in Reach(round)
                                          \/ \E m \in Reach(round) : t \in Targets(m, asked.dir)
      BY <1>3
    <2>2. \A m \in Reach(round) :
             m \in frontier \/ Targets(m, asked.dir) \subseteq Reach(round)
      BY <1>1, <1>4 DEF Rounds
    <2>3. \A t : t \in met <=> /\ t \notin Reach(round)
                              /\ \E m \in frontier : t \in Targets(m, asked.dir)
      OBVIOUS
    <2>4. frontier \subseteq Reach(round)
      BY <1>4
    <2> HIDE DEF met
    <2> QED  BY <2>1, <2>2, <2>3, <2>4
  <1>7. \A v \in Reach(round) : Targets(v, asked.dir) \subseteq Reach(round) \cup met
    BY <1>3, <1>6
  <1> HIDE DEF met
  <1>8. /\ \A n : Reach(n)' = Reach(n)
        /\ \A m, d : Targets(m, d)' = Targets(m, d)
    BY <1>1, ReachStays
  <1>9. /\ visited' = Reach(round) /\ frontier' = met /\ round' \in 0..asked'.depth
        /\ emitted' = Reach(round + 1) \ {Root}
    BY <1>1, <1>2, <1>3, <1>5, <1>6 DEF Rounds
  <1>10. Rounds'
    <2>1. PICK n : n = round + 1
      OBVIOUS
    <2>2. Reach(n)' = Reach(n) /\ Reach(round)' = Reach(n)'
      BY <1>1, <1>8, <2>1 DEF Reach
    <2> QED  BY <1>1, <1>6, <1>7, <1>8, <1>9, <2>1, <2>2 DEF Rounds
  <1>11. Asked'
    BY <1>1 DEF Asked
  <1> QED  BY <1>1, <1>10, <1>11 DEF SearchInv

LEMMA EndRoundsKeeps == SearchInv /\ EndRounds => SearchInv'
  <1> SUFFICES ASSUME SearchInv, EndRounds  PROVE  SearchInv'
    OBVIOUS
  <1>1. /\ asked.of # "path" /\ ~done /\ Rounds /\ Asked /\ round = asked.depth
        /\ emitted' = IF asked.of = "subgraph" THEN visited \cup frontier ELSE emitted
        /\ UNCHANGED <<edges, asked>> /\ done'
    BY DEF SearchInv, EndRounds
  <1>2. \A n : Reach(n)' = Reach(n)
    BY <1>1, ReachStays
  <1>3. Asked'
    BY <1>1 DEF Asked
  <1>4. PICK n : n = asked.depth
    OBVIOUS
  <1>5. Reach(asked.depth)' = Reach(n)
    BY <1>1, <1>2, <1>4 DEF Reach
  <1> QED  BY <1>1, <1>3, <1>4, <1>5 DEF SearchInv, Rounds

-----------------------------------------------------------------------------
(* The search for a path. *)

(* Nothing is left to extend, or all that is left is too long: what is      *)
(* within the depth was visited, and the goal was not.                      *)
LEMMA NothingFound ==
    ASSUME Asked, Searched(queue, visited), queue = <<>> \/ TooLong(Head(queue))
    PROVE  asked.to \notin Reach(asked.depth)
  <1>1. asked.depth \in 0..MaxDepth /\ MaxDepth \in Nat
    BY TraversalAssumption DEF Asked
  <1>2. CASE queue = <<>>
    <2>1. \A v \in visited : Targets(v, asked.dir) \subseteq visited
      BY <1>2 DEF Searched
    <2>2. Root \in visited /\ asked.to \notin visited
      BY DEF Searched
    <2>3. \A n \in 0..MaxDepth : Reach(n) \subseteq visited
      BY <2>1, <2>2, ClosedHolds
    <2> QED  BY <1>1, <2>2, <2>3
  <1>3. CASE queue # <<>> /\ TooLong(Head(queue))
    <2>1. queue \in Seq(Seq(Node)) /\ Head(queue) = queue[1] /\ 1 \in DOMAIN queue
      BY <1>3, EmptySeq, LenProperties DEF Searched
    <2>2. Len(queue[1]) \in Nat /\ asked.depth < Len(queue[1])
      BY <1>1, <1>3, <2>1 DEF TooLong, Searched, IsPath
    <2>3. Reach(asked.depth) \subseteq visited
      BY <1>1, <1>3, <2>2 DEF Searched
    <2> QED  BY <2>3 DEF Searched
  <1> QED  BY <1>2, <1>3

(* One edge more than the first path of the queue. *)
LEMMA OneMore ==
    ASSUME Asked, asked.dir = "outgoing", Searched(queue, visited), queue # <<>>,
           ~TooLong(Head(queue)), NEW t \in Targets(Last(Head(queue)), "outgoing"),
           t \notin visited
    PROVE  /\ IsPath(Append(Head(queue), t)) /\ Shortest(Append(Head(queue), t))
           /\ Last(Append(Head(queue), t)) = t /\ Append(Head(queue), t) # <<>>
           /\ Len(Append(Head(queue), t)) = Len(Head(queue)) + 1
  <1>1. PICK p : p = Head(queue)
    OBVIOUS
  <1>2. queue \in Seq(Seq(Node)) /\ p = queue[1] /\ 1 \in DOMAIN queue
    BY <1>1, EmptySeq, LenProperties DEF Searched
  <1>3. IsPath(p) /\ Shortest(p)
    BY <1>2 DEF Searched
  <1>4. /\ p \in Seq(Node) /\ p # <<>> /\ Len(p) \in 1..asked.depth /\ Last(p) = p[Len(p)]
        /\ Last(p) \in Node /\ asked.depth \in 0..MaxDepth /\ MaxDepth \in Nat
    <2>1. p \in Seq(Node) /\ p # <<>> /\ Len(p) \in Nat \ {0}
      BY <1>3, EmptySeq DEF IsPath
    <2> QED  BY <1>1, <1>3, <2>1, LastOf, TraversalAssumption DEF IsPath, TooLong, Asked
  <1>5. t \in Node /\ <<Last(p), t>> \in edges
    BY <1>1 DEF Targets
  <1>6. PICK g : g = Append(p, t)
    OBVIOUS
  <1>7. /\ g \in Seq(Node) /\ Len(g) = Len(p) + 1 /\ Last(g) = t /\ g # <<>>
        /\ \A n \in 1..Len(p) : g[n] = p[n]
        /\ g[Len(p) + 1] = t
    BY <1>4, <1>5, <1>6, Grown
  <1>8. \A n \in 1..Len(g) - 1 : <<g[n], g[n + 1]>> \in edges
    <2>1. ASSUME NEW n \in 1..Len(g) - 1  PROVE  <<g[n], g[n + 1]>> \in edges
      <3>1. CASE n = Len(p)
        <4>1. n \in 1..Len(p) /\ g[n] = p[n] /\ g[n + 1] = t
          BY <1>4, <1>7, <3>1
        <4> QED  BY <1>4, <1>5, <3>1, <4>1
      <3>2. CASE n # Len(p)
        <4>1. n \in 1..Len(p) - 1 /\ n \in 1..Len(p) /\ n + 1 \in 1..Len(p)
          BY <1>4, <1>7, <3>2
        <4> QED  BY <1>3, <1>7, <4>1 DEF IsPath
      <3> QED  BY <3>1, <3>2
    <2> QED  BY <2>1
  <1>9. Len(g) \in 1..(asked.depth + 1) /\ g[1] = Root
    BY <1>3, <1>4, <1>7 DEF IsPath
  <1>10. IsPath(g)
    BY <1>7, <1>8, <1>9 DEF IsPath
  <1>11. Shortest(g)
    <2>1. ASSUME NEW n \in 0..MaxDepth, n < Len(g) - 1  PROVE  t \notin Reach(n)
      <3>1. n < Len(queue[1])
        BY <1>2, <1>4, <1>7, <2>1
      <3> QED  BY <3>1 DEF Searched
    <2> QED  BY <1>7, <2>1 DEF Shortest
  <1> QED  BY <1>1, <1>6, <1>7, <1>10, <1>11

LEMMA FoundKeeps ==
    ASSUME SearchInv, asked.of = "path", ~done, queue # <<>>, ~TooLong(Head(queue)),
           asked.to \in Targets(Last(Head(queue)), "outgoing")
    PROVE  LET g == Append(Head(queue), asked.to) IN
           /\ g # <<>> /\ IsPath(g) /\ Last(g) = asked.to /\ Shortest(g)
           /\ asked.to \in Reach(asked.depth)
  <1>1. Asked /\ asked.dir = "outgoing" /\ Searched(queue, visited) /\ asked.to \notin visited
    BY DEF SearchInv, Asked, Searched
  <1>2. PICK g : g = Append(Head(queue), asked.to)
    OBVIOUS
  <1>3. PICK t : t = asked.to
    OBVIOUS
  <1>4. IsPath(g) /\ Shortest(g) /\ Last(g) = t /\ g # <<>>
    <2>1. g = Append(Head(queue), t) /\ t \in Targets(Last(Head(queue)), "outgoing")
          /\ t \notin visited
      BY <1>1, <1>2, <1>3
    <2> QED  BY <1>1, <2>1, OneMore
  <1>5. t \in Reach(Len(g) - 1)
    BY <1>1, <1>4, PathReaches
  <1>6. Reach(Len(g) - 1) \subseteq Reach(asked.depth)
    <2>1. Len(g) \in 1..(asked.depth + 1) /\ asked.depth \in 0..MaxDepth /\ MaxDepth \in Nat
      BY <1>1, <1>4, TraversalAssumption DEF IsPath, Asked
    <2>2. Len(g) - 1 \in 0..MaxDepth /\ Len(g) - 1 <= asked.depth
      BY <2>1
    <2> QED  BY <2>1, <2>2, ReachGrows
  <1> QED  BY <1>2, <1>3, <1>4, <1>5, <1>6

(* All elements of a finite set, each once: each is one of them. *)
LEMMA AllOfThem ==
    ASSUME NEW S, IsFiniteSet(S), NEW s \in SetToSeqs(S)
    PROVE  /\ s \in Seq(S) /\ DOMAIN s = 1..Len(s)
           /\ \A x \in S : \E n \in DOMAIN s : s[n] = x
  <1>1. Cardinality(S) \in Nat /\ IsFiniteSet(1..Cardinality(S))
        /\ Cardinality(1..Cardinality(S)) = Cardinality(S)
    BY FS_CardinalityType, FS_Interval
  <1>2. s \in [1..Cardinality(S) -> S]
        /\ \A m, n \in 1..Cardinality(S) : m # n => s[m] # s[n]
    BY DEF SetToSeqs
  <1>3. s \in Injection(1..Cardinality(S), S)
    BY <1>2 DEF Injection, IsInjective
  <1>4. s \in Surjection(1..Cardinality(S), S)
    BY <1>1, <1>3, FS_Injection
  <1>5. s \in Seq(S)
    BY <1>1, <1>2
  <1>6. DOMAIN s = 1..Len(s) /\ DOMAIN s = 1..Cardinality(S)
    BY <1>2, <1>5, LenProperties
  <1> QED  BY <1>4, <1>5, <1>6 DEF Surjection

(* The queue without its head, and the paths one edge longer at its end. *)
Requeued(r, q, h, new) ==
    /\ r \in Seq(Seq(Node)) /\ DOMAIN r = 1..Len(r)
    /\ \A n \in DOMAIN r : \/ n + 1 \in DOMAIN q /\ r[n] = q[n + 1]
                           \/ /\ \A m \in DOMAIN q : m - 1 < n
                              /\ \E k \in DOMAIN new : r[n] = Append(h, new[k])
    /\ \A m \in DOMAIN q : m # 1 => m - 1 \in DOMAIN r /\ r[m - 1] = q[m]
    /\ \A k \in DOMAIN new : \E n \in DOMAIN r : r[n] = Append(h, new[k])

LEMMA QueueOf ==
    ASSUME NEW q \in Seq(Seq(Node)), q # <<>>, NEW S, NEW new \in Seq(S), NEW h, h = Head(q),
           \A t \in S : Append(h, t) \in Seq(Node),
           NEW r, r = Tail(q) \o [n \in DOMAIN new |-> Append(h, new[n])]
    PROVE  Requeued(r, q, h, new)
  <1> DEFINE P == Seq(Node)
             a == [n \in DOMAIN new |-> Append(h, new[n])]
  <1>1. /\ Len(q) \in Nat \ {0} /\ DOMAIN q = 1..Len(q) /\ Len(new) \in Nat
        /\ DOMAIN new = 1..Len(new)
        /\ Tail(q) \in Seq(P) /\ Len(Tail(q)) = Len(q) - 1
        /\ \A n \in 1..Len(Tail(q)) : Tail(q)[n] = q[n + 1]
    BY EmptySeq, LenProperties, HeadTailProperties
  <1>2. a \in Seq(P) /\ Len(a) = Len(new)
    <2>1. \A n \in DOMAIN new : a[n] \in P
      BY <1>1, ElementOfSeq
    <2>2. a \in [1..Len(new) -> P]
      BY <1>1, <2>1
    <2>3. a \in Seq(P)
      BY <1>1, <2>2
    <2>4. DOMAIN a = 1..Len(new) /\ DOMAIN a = 1..Len(a) /\ Len(a) \in Nat
      BY <1>1, <2>3, LenProperties
    <2> QED  BY <1>1, <2>3, <2>4
  <1>3. /\ r \in Seq(P) /\ Len(r) = Len(q) - 1 + Len(new)
        /\ \A n \in 1..Len(r) : r[n] = IF n <= Len(q) - 1 THEN Tail(q)[n] ELSE a[n - (Len(q) - 1)]
    BY <1>1, <1>2, ConcatProperties
  <1>4. DOMAIN r = 1..Len(r)
    BY <1>3, LenProperties
  <1>5. PICK l, c : l = Len(q) - 1 /\ c = Len(new)
    OBVIOUS
  <1>6. /\ l \in Nat /\ c \in Nat
        /\ DOMAIN q = 1..(l + 1) /\ DOMAIN new = 1..c /\ DOMAIN r = 1..(l + c)
    BY <1>1, <1>3, <1>4, <1>5
  <1>7. \A n \in 1..l : r[n] = q[n + 1]
    <2>1. ASSUME NEW n \in 1..l  PROVE  r[n] = q[n + 1]
      <3>1. n \in 1..Len(r) /\ n <= Len(q) - 1 /\ n \in 1..Len(Tail(q))
        BY <1>1, <1>3, <1>5, <1>6
      <3> QED  BY <1>1, <1>3, <3>1
    <2> QED  BY <2>1
  <1>8. \A k \in 1..c : r[l + k] = Append(h, new[k])
    <2>1. ASSUME NEW k \in 1..c  PROVE  r[l + k] = Append(h, new[k])
      <3>1. l + k \in 1..Len(r) /\ ~(l + k <= Len(q) - 1) /\ (l + k) - (Len(q) - 1) = k
        BY <1>1, <1>3, <1>5, <1>6
      <3>2. r[l + k] = a[k]
        BY <1>3, <3>1
      <3> QED  BY <1>5, <1>6, <3>2
    <2> QED  BY <2>1
  <1>9. ASSUME NEW n \in DOMAIN r
        PROVE  \/ n + 1 \in DOMAIN q /\ r[n] = q[n + 1]
               \/ /\ \A m \in DOMAIN q : m - 1 < n
                  /\ \E k \in DOMAIN new : r[n] = Append(h, new[k])
    <2>1. CASE n \in 1..l
      <3>1. n + 1 \in 1..(l + 1)
        BY ONLY <1>6, <2>1
      <3> QED  BY <1>6, <1>7, <2>1, <3>1
    <2>2. CASE n \notin 1..l
      <3>1. n - l \in 1..c /\ l + (n - l) = n /\ \A m \in 1..(l + 1) : m - 1 < n
        BY ONLY <1>6, <1>9, <2>2
      <3>2. r[n] = Append(h, new[n - l])
        BY <1>8, <3>1
      <3> QED  BY <1>6, <3>1, <3>2
    <2> QED  BY <2>1, <2>2
  <1>10. ASSUME NEW m \in DOMAIN q, m # 1
         PROVE  m - 1 \in DOMAIN r /\ r[m - 1] = q[m]
    <2>1. m - 1 \in 1..l /\ (m - 1) + 1 = m /\ m - 1 \in 1..(l + c)
      BY ONLY <1>6, <1>10
    <2>2. r[m - 1] = q[(m - 1) + 1]
      BY <1>7, <2>1
    <2> QED  BY <1>6, <2>1, <2>2
  <1>11. ASSUME NEW k \in DOMAIN new
         PROVE  \E n \in DOMAIN r : r[n] = Append(h, new[k])
    <2>1. l + k \in 1..(l + c)
      BY ONLY <1>6, <1>11
    <2> QED  BY <1>6, <1>8, <2>1
  <1> QED  BY <1>3, <1>4, <1>9, <1>10, <1>11 DEF Requeued

(* The head of the queue is extended by every node it leads to that was not *)
(* visited.                                                                 *)
LEMMA ExtendKeeps ==
    ASSUME Asked, asked.dir = "outgoing", NEW q, NEW vs, Searched(q, vs), q # <<>>,
           q = queue, vs = visited, ~TooLong(Head(q)), NEW ts,
           ts = Targets(Last(Head(q)), "outgoing"), asked.to \notin ts,
           NEW new \in SetToSeqs(ts \ vs)
    PROVE  Searched(Tail(q) \o [n \in DOMAIN new |-> Append(Head(q), new[n])], vs \cup ts)
  <1>1. PICK p, r, ws : /\ p = Head(q) /\ ws = vs \cup ts
                       /\ r = Tail(q) \o [n \in DOMAIN new |-> Append(Head(q), new[n])]
    OBVIOUS
  <1>2. /\ q \in Seq(Seq(Node)) /\ vs \subseteq Node /\ Root \in vs /\ asked.to \notin vs
        /\ \A n \in DOMAIN q : IsPath(q[n]) /\ Shortest(q[n])
        /\ \A m, n \in DOMAIN q : m <= n => Len(q[m]) <= Len(q[n]) /\ Len(q[n]) <= Len(q[1]) + 1
        /\ \A v \in vs : Targets(v, asked.dir) \subseteq vs \/ \E n \in DOMAIN q : Last(q[n]) = v
        /\ \A n \in 0..MaxDepth : n < Len(q[1]) => Reach(n) \subseteq vs
    BY DEF Searched
  <1>3. p = q[1] /\ 1 \in DOMAIN q /\ DOMAIN q = 1..Len(q) /\ Len(q) \in Nat \ {0}
    BY <1>1, <1>2, EmptySeq, LenProperties
  <1>4. /\ p \in Seq(Node) /\ p # <<>> /\ Len(p) \in 1..asked.depth /\ Last(p) \in Node
        /\ asked.depth \in 0..MaxDepth /\ MaxDepth \in Nat
    <2>1. IsPath(p)
      BY <1>2, <1>3
    <2>2. p \in Seq(Node) /\ p # <<>> /\ Len(p) \in Nat \ {0}
      BY <2>1, EmptySeq DEF IsPath
    <2> QED  BY <1>1, <2>1, <2>2, LastOf, TraversalAssumption DEF IsPath, TooLong, Asked
  <1>5. ts \subseteq Node /\ IsFiniteSet(ts \ vs)
    <2>1. ts \subseteq Node
      BY DEF Targets
    <2>2. ts \ vs \subseteq Node /\ IsFiniteSet(Node)
      BY <2>1, TraversalAssumption
    <2> QED  BY <2>1, <2>2, FS_Subset
  <1>6. /\ new \in Seq(ts \ vs) /\ DOMAIN new = 1..Len(new)
        /\ \A x \in ts \ vs : \E n \in DOMAIN new : new[n] = x
    BY <1>5, AllOfThem
  <1>7. ASSUME NEW t \in ts \ vs
        PROVE  /\ IsPath(Append(p, t)) /\ Shortest(Append(p, t)) /\ Last(Append(p, t)) = t
               /\ Append(p, t) \in Seq(Node) /\ Len(Append(p, t)) = Len(p) + 1
    <2>1. t \in Targets(Last(Head(queue)), "outgoing") /\ t \notin visited
      BY <1>7
    <2>2. /\ IsPath(Append(Head(queue), t)) /\ Shortest(Append(Head(queue), t))
          /\ Last(Append(Head(queue), t)) = t /\ Append(Head(queue), t) # <<>>
          /\ Len(Append(Head(queue), t)) = Len(Head(queue)) + 1
      BY <2>1, OneMore
    <2> QED  BY <1>1, <1>4, <1>5, <2>2 DEF IsPath
  <1>8. /\ r \in Seq(Seq(Node)) /\ DOMAIN r = 1..Len(r)
        /\ \A n \in DOMAIN r : \/ n + 1 \in DOMAIN q /\ r[n] = q[n + 1]
                               \/ /\ \A m \in DOMAIN q : m - 1 < n
                                  /\ \E k \in DOMAIN new : r[n] = Append(p, new[k])
        /\ \A m \in DOMAIN q : m # 1 => m - 1 \in DOMAIN r /\ r[m - 1] = q[m]
        /\ \A k \in DOMAIN new : \E n \in DOMAIN r : r[n] = Append(p, new[k])
    <2>1. p = Head(q) /\ r = Tail(q) \o [n \in DOMAIN new |-> Append(p, new[n])]
      BY <1>1
    <2>2. \A t \in ts \ vs : Append(p, t) \in Seq(Node)
      BY <1>7
    <2>3. q \in Seq(Seq(Node)) /\ q # <<>> /\ new \in Seq(ts \ vs)
      BY <1>2, <1>6
    <2>4. Requeued(r, q, p, new)
      BY ONLY <2>1, <2>2, <2>3, QueueOf
    <2> QED  BY <2>4 DEF Requeued
  <1>9. \A k \in DOMAIN new : new[k] \in ts \ vs
    BY <1>6, ElementOfSeq
  <1>10. ASSUME NEW n \in DOMAIN r
         PROVE  \/ n + 1 \in DOMAIN q /\ r[n] = q[n + 1]
                \/ /\ \A m \in DOMAIN q : m - 1 < n
                   /\ \E t \in ts \ vs : r[n] = Append(p, t)
    BY <1>8, <1>9
  <1>11. ASSUME NEW n \in DOMAIN r  PROVE  IsPath(r[n]) /\ Shortest(r[n])
    <2>1. CASE n + 1 \in DOMAIN q /\ r[n] = q[n + 1]
      BY <1>2, <2>1
    <2>2. CASE \E t \in ts \ vs : r[n] = Append(p, t)
      BY <1>7, <2>2
    <2> QED  BY <1>10, <2>1, <2>2
  <1>12. \A n \in DOMAIN q : Len(q[n]) \in Nat /\ Len(p) <= Len(q[n]) /\ Len(q[n]) <= Len(p) + 1
    <2>1. ASSUME NEW n \in DOMAIN q
          PROVE  Len(q[n]) \in Nat /\ Len(p) <= Len(q[n]) /\ Len(q[n]) <= Len(p) + 1
      <3>1. 1 <= n
        BY <1>3
      <3>2. IsPath(q[n])
        BY <1>2
      <3>3. Len(q[1]) <= Len(q[n]) /\ Len(q[n]) <= Len(q[1]) + 1
        BY <1>2, <1>3, <3>1
      <3>4. Len(q[n]) \in Nat
        BY <3>2, LenProperties DEF IsPath
      <3> QED  BY <1>3, <3>3, <3>4
    <2> QED  BY <2>1
  <1>13. \A n \in DOMAIN r : Len(r[n]) \in Nat /\ Len(p) <= Len(r[n]) /\ Len(r[n]) <= Len(p) + 1
    <2>1. ASSUME NEW n \in DOMAIN r
          PROVE  Len(r[n]) \in Nat /\ Len(p) <= Len(r[n]) /\ Len(r[n]) <= Len(p) + 1
      <3>1. CASE n + 1 \in DOMAIN q /\ r[n] = q[n + 1]
        BY <1>12, <3>1
      <3>2. CASE \E t \in ts \ vs : r[n] = Append(p, t)
        <4>1. Len(r[n]) = Len(p) + 1
          BY <1>7, <3>2
        <4> QED  BY <1>4, <4>1
      <3> QED  BY <1>10, <3>1, <3>2
    <2> QED  BY <2>1
  <1>14. ASSUME NEW m \in DOMAIN r, NEW n \in DOMAIN r, m <= n  PROVE  Len(r[m]) <= Len(r[n])
    <2>1. CASE n + 1 \in DOMAIN q /\ r[n] = q[n + 1]
      <3>1. m + 1 \in DOMAIN q /\ r[m] = q[m + 1] /\ m + 1 <= n + 1
        <4>1. m \in Nat /\ n \in Nat
          BY <1>8
        <4>2. ~((n + 1) - 1 < m) /\ m + 1 <= n + 1
          BY <1>14, <4>1
        <4> QED  BY <1>10, <2>1, <4>2
      <3> QED  BY <1>2, <2>1, <3>1
    <2>2. CASE \E t \in ts \ vs : r[n] = Append(p, t)
      <3>1. Len(r[n]) = Len(p) + 1
        BY <1>7, <2>2
      <3> QED  BY <1>13, <3>1
    <2> QED  BY <1>10, <2>1, <2>2
  <1>15. \A m, n \in DOMAIN r :
            m <= n => Len(r[m]) <= Len(r[n]) /\ Len(r[n]) <= Len(r[1]) + 1
    <2>1. ASSUME NEW n \in DOMAIN r  PROVE  Len(r[n]) <= Len(r[1]) + 1
      <3>1. 1 \in DOMAIN r
        BY <1>8
      <3>2. Len(p) <= Len(r[1]) /\ Len(r[n]) <= Len(p) + 1 /\ Len(r[1]) \in Nat /\ Len(r[n]) \in Nat
        BY <1>13, <3>1
      <3> QED  BY <1>4, <3>2
    <2> QED  BY <1>14, <2>1
  <1>16. ASSUME NEW v \in ws
         PROVE  Targets(v, asked.dir) \subseteq ws \/ \E n \in DOMAIN r : Last(r[n]) = v
    <2>1. CASE v \in ts \ vs
      <3>1. PICK k \in DOMAIN new : new[k] = v
        BY <1>6, <2>1
      <3>2. PICK n \in DOMAIN r : r[n] = Append(p, new[k])
        BY <1>8
      <3> QED  BY <1>7, <2>1, <3>1, <3>2
    <2>2. CASE v \in vs
      <3>1. CASE Targets(v, asked.dir) \subseteq vs
        BY <1>1, <3>1
      <3>2. CASE \E m \in DOMAIN q : Last(q[m]) = v
        <4>1. PICK m \in DOMAIN q : Last(q[m]) = v
          BY <3>2
        <4>2. CASE m = 1
          <5>1. Targets(v, asked.dir) = ts
            BY <1>1, <1>3, <4>1, <4>2
          <5> QED  BY <1>1, <5>1
        <4>3. CASE m # 1
          BY <1>8, <4>1, <4>3
        <4> QED  BY <4>2, <4>3
      <3> QED  BY <1>2, <2>2, <3>1, <3>2
    <2> QED  BY <1>1, <2>1, <2>2
  <1>17. ASSUME r # <<>>, NEW n \in 0..MaxDepth, n < Len(r[1])
         PROVE  Reach(n) \subseteq ws
    <2>1. 1 \in DOMAIN r /\ Len(r[1]) \in Nat /\ Len(r[1]) <= Len(p) + 1
      <3>1. 1 \in DOMAIN r
        BY <1>8, <1>17, EmptySeq
      <3> QED  BY <1>13, <3>1
    <2>2. CASE n < Len(p)
      BY <1>1, <1>2, <1>3, <2>2
    <2>3. CASE n = Len(p)
      <3>1. n \in 1..MaxDepth /\ n - 1 \in 0..MaxDepth /\ n - 1 < Len(p) /\ Len(r[1]) = n + 1
        BY <1>4, <1>17, <2>1, <2>3
      <3>2. /\ Reach(n) = Reach(n - 1) \cup UNION {Targets(m, asked.dir) : m \in Reach(n - 1)}
            /\ Reach(n - 1) \subseteq vs
        BY <1>2, <1>3, <3>1, ReachIs
      <3>3. ASSUME NEW u \in Reach(n - 1)  PROVE  Targets(u, asked.dir) \subseteq ws
        <4>1. u \in ws
          BY <1>1, <3>2
        <4>2. ASSUME NEW m \in DOMAIN r, Last(r[m]) = u  PROVE  FALSE
          <5>1. Len(r[1]) <= Len(r[m]) /\ Len(r[m]) \in Nat
            <6>1. 1 <= m /\ Len(r[m]) \in Nat
              BY <1>8, <1>13
            <6> QED  BY <1>15, <2>1, <6>1
          <5>2. n - 1 < Len(r[m]) - 1
            BY <3>1, <5>1
          <5>3. Shortest(r[m])
            BY <1>11
          <5>4. Last(r[m]) \notin Reach(n - 1)
            BY <3>1, <5>2, <5>3 DEF Shortest
          <5> QED  BY <4>2, <5>4
        <4> QED  BY <1>16, <4>1, <4>2
      <3> QED  BY <1>1, <3>2, <3>3
    <2> QED  BY <1>4, <1>17, <2>1, <2>2, <2>3
  <1>18. ws \subseteq Node /\ Root \in ws /\ asked.to \notin ws
    BY <1>1, <1>2, <1>5
  <1>19. Searched(r, ws)
    BY <1>8, <1>11, <1>15, <1>16, <1>17, <1>18 DEF Searched
  <1> QED  BY <1>1, <1>19

LEMMA SearchStays ==
    ASSUME UNCHANGED <<edges, asked>>, NEW q, NEW vs, Searched(q, vs)
    PROVE  Searched(q, vs)'
  <1>1. /\ \A n : Reach(n)' = Reach(n)
        /\ \A m, d : Targets(m, d)' = Targets(m, d)
    BY ReachStays
  <1> QED  BY <1>1 DEF Searched, IsPath, Shortest

LEMMA PathStepKeeps == SearchInv /\ PathStep => SearchInv'
  <1> SUFFICES ASSUME SearchInv, PathStep  PROVE  SearchInv'
    OBVIOUS
  <1>1. /\ asked.of = "path" /\ asked.dir = "outgoing" /\ ~done /\ Asked
        /\ path = <<>> /\ Searched(queue, visited) /\ UNCHANGED <<edges, asked>>
    BY DEF SearchInv, PathStep, Asked
  <1>2. \A n : Reach(n)' = Reach(n)
    BY <1>1, ReachStays
  <1>3. PICK d, to : d = asked.depth /\ to = asked.to
    OBVIOUS
  <1>4. Reach(asked.depth)' = Reach(d)
    BY <1>1, <1>2, <1>3 DEF Reach
  <1>5. CASE queue = <<>> \/ TooLong(Head(queue))
    <2>1. done' = TRUE /\ path' = path
      BY <1>5 DEF PathStep
    <2>2. to \notin Reach(d)
      BY <1>1, <1>3, <1>5, NothingFound
    <2>3. PathFound'
      BY <1>1, <1>3, <1>4, <2>1, <2>2 DEF PathFound
    <2>4. Asked'
      BY <1>1, <2>1 DEF Asked
    <2> QED  BY <1>1, <2>1, <2>3, <2>4 DEF SearchInv
  <1>6. CASE queue # <<>> /\ ~TooLong(Head(queue))
    <2> DEFINE ts == Targets(Last(Head(queue)), "outgoing")
    <2>1. CASE asked.to \in ts
      <3>1. PICK g : g = Append(Head(queue), asked.to)
        OBVIOUS
      <3>2. done' = TRUE /\ path' = g
        BY <1>6, <2>1, <3>1 DEF PathStep
      <3>3. g # <<>> /\ IsPath(g) /\ Last(g) = to /\ Shortest(g) /\ to \in Reach(d)
        BY <1>1, <1>3, <1>6, <2>1, <3>1, FoundKeeps
      <3>4. IsPath(g)' /\ Shortest(g)'
        BY <1>1, <1>2, <3>3 DEF IsPath, Shortest
      <3>5. (IsPath(path) /\ Shortest(path))'
        BY <3>2, <3>4 DEF IsPath, Shortest
      <3>6. PathFound'
        BY <1>1, <1>3, <1>4, <3>2, <3>3, <3>5 DEF PathFound
      <3>7. Asked'
        BY <1>1, <3>2 DEF Asked
      <3> QED  BY <1>1, <3>2, <3>6, <3>7 DEF SearchInv
    <2>2. CASE asked.to \notin ts
      <3>1. PICK q, vs, us : q = queue /\ vs = visited /\ us = ts
        OBVIOUS
      <3>2. /\ done' = done /\ path' = path /\ visited' = vs \cup us
            /\ \E new \in SetToSeqs(us \ vs) :
                  queue' = Tail(q) \o [n \in DOMAIN new |-> Append(Head(q), new[n])]
        BY <1>6, <2>2, <3>1 DEF PathStep
      <3>3. PICK new \in SetToSeqs(us \ vs) :
               queue' = Tail(q) \o [n \in DOMAIN new |-> Append(Head(q), new[n])]
        BY <3>2
      <3>4. PICK r, ws : r = queue' /\ ws = visited'
        OBVIOUS
      <3>5. Searched(Tail(q) \o [n \in DOMAIN new |-> Append(Head(q), new[n])], vs \cup us)
        BY <1>1, <1>6, <2>2, <3>1, ExtendKeeps
      <3>6. Searched(r, ws)
        BY <3>2, <3>3, <3>4, <3>5
      <3>7. Searched(r, ws)'
        BY <1>1, <3>6, SearchStays
      <3>8. Searched(queue, visited)'
        BY <3>4, <3>7 DEF Searched
      <3>9. Asked'
        BY <1>1, <3>2 DEF Asked
      <3> QED  BY <1>1, <3>2, <3>8, <3>9 DEF SearchInv
    <2> QED  BY <1>6, <2>1, <2>2
  <1> QED  BY <1>5, <1>6

LEMMA SearchInductive == SearchInv /\ [TraversalNext]_traversalVars => SearchInv'
  <1> SUFFICES ASSUME SearchInv, [TraversalNext]_traversalVars  PROVE  SearchInv'
    OBVIOUS
  <1>1. CASE PathStep
    BY <1>1, PathStepKeeps
  <1>2. CASE Expand
    BY <1>2, ExpandKeeps
  <1>3. CASE EndRounds
    BY <1>3, EndRoundsKeeps
  <1>4. CASE UNCHANGED traversalVars
    <2>1. UNCHANGED <<edges, asked, visited, queue, frontier, round, emitted, done, path>>
      BY <1>4 DEF traversalVars
    <2>2. /\ \A n : Reach(n)' = Reach(n)
          /\ \A m, d : Targets(m, d)' = Targets(m, d)
      BY <2>1, ReachStays
    <2>3. PICK q, vs, to, g, d, k : /\ q = queue /\ vs = visited /\ to = asked.to
                                    /\ g = path /\ d = asked.depth /\ k = round
      OBVIOUS
    <2>4. Reach(asked.depth)' = Reach(d) /\ Reach(round)' = Reach(k)
      BY <2>1, <2>2, <2>3 DEF Reach
    <2>5. Asked'
      BY <2>1 DEF SearchInv, Asked
    <2>6. Searched(queue, visited) => Searched(queue, visited)'
      <3>1. Searched(q, vs) => Searched(q, vs)'
        BY <2>1, SearchStays
      <3> QED  BY <2>1, <2>3, <3>1 DEF Searched
    <2>7. PathFound => PathFound'
      BY <2>1, <2>2, <2>3, <2>4 DEF PathFound, IsPath, Shortest
    <2>8. Rounds => Rounds'
      BY <2>1, <2>2, <2>3, <2>4 DEF Rounds
    <2> QED  BY <2>1, <2>3, <2>4, <2>5, <2>6, <2>7, <2>8 DEF SearchInv
  <1> QED  BY <1>1, <1>2, <1>3, <1>4 DEF TraversalNext

LEMMA SearchImplies == SearchInv => SearchExact
  <1> SUFFICES ASSUME SearchInv, done  PROVE  SearchExact
    BY DEF SearchExact
  <1>1. Within(asked.dir)[asked.depth] = Reach(asked.depth)
    BY DEF Reach
  <1>2. CASE asked.of = "path"
    <2>1. PathFound /\ asked.dir = "outgoing"
      BY <1>2 DEF SearchInv, Asked
    <2>2. path # <<>> <=> asked.to \in Within(asked.dir)[asked.depth]
      BY <1>1, <2>1 DEF PathFound
    <2>3. ASSUME path # <<>>
          PROVE  /\ path[1] = Root /\ Last(path) = asked.to
                 /\ \A n \in 1..Len(path) - 1 : <<path[n], path[n + 1]>> \in edges
                 /\ \A n \in 0..MaxDepth :
                       n < Len(path) - 1 => asked.to \notin Within("outgoing")[n]
      <3>1. IsPath(path) /\ Last(path) = asked.to /\ Shortest(path)
        BY <2>1, <2>3 DEF PathFound
      <3>2. \A n : Reach(n) = Within("outgoing")[n]
        BY <2>1 DEF Reach
      <3> QED  BY <3>1, <3>2 DEF IsPath, Shortest
    <2> QED  BY <1>2, <2>2, <2>3 DEF SearchExact
  <1>3. CASE asked.of # "path"
    <2>1. asked.of \in {"neighbors", "subgraph"}
      BY <1>3 DEF SearchInv, Asked
    <2>2. CASE asked.of = "neighbors"
      <3>1. emitted = Reach(asked.depth) \ {Root}
        BY <2>2 DEF SearchInv
      <3> QED  BY <1>1, <2>2, <3>1 DEF SearchExact
    <2>3. CASE asked.of = "subgraph"
      <3>1. emitted = Reach(asked.depth)
        BY <2>3 DEF SearchInv
      <3> QED  BY <1>1, <2>3, <3>1 DEF SearchExact
    <2> QED  BY <2>1, <2>2, <2>3
  <1> QED  BY <1>2, <1>3

(* path() returns a shortest path exactly when one of at most max_depth      *)
(* edges exists, and neighbors() and subgraph() return exactly the nodes     *)
(* that many edges away, whatever the graph and the order of its edges: the  *)
(* depth bound is neither short by an edge nor over by one.                  *)
THEOREM SearchesAreExact == TraversalSpec => []SearchExact
  <1>1. TraversalInit => SearchInv
    BY SearchStarts
  <1>2. SearchInv /\ [TraversalNext]_traversalVars => SearchInv'
    BY SearchInductive
  <1>3. SearchInv => SearchExact
    BY SearchImplies
  <1> QED  BY <1>1, <1>2, <1>3, PTL DEF TraversalSpec
-----------------------------------------------------------------------------
(* The version graph.  A version is numbered higher than the one it was     *)
(* written from.  links, of the index or on disk, name the newest of those  *)
(* versions of ws that were written from each, as par has it.               *)

Names(par, links, ws) ==
    \A v \in DOMAIN par :
        IF links[v] = 0
        THEN \A w \in ws : par[w] # v
        ELSE /\ links[v] \in ws /\ par[links[v]] = v
             /\ \A w \in ws : par[w] = v => w <= links[v]

VersionSound ==
    /\ parent \in Seq(Nat) /\ sidecar \in Seq(Nat) /\ next \in Seq(Nat)
    /\ Len(sidecar) = Len(parent) /\ Len(next) = Len(parent)
    /\ \A v \in Written : parent[v] < v
    /\ indexed \subseteq Written /\ stranded \subseteq Written
    /\ marked \subseteq indexed \ stranded
    /\ \A w \in marked : parent[w] # 0
    /\ Names(parent, sidecar, Written \ stranded)
    /\ Names(parent, next, marked)

LEMMA WrittenAre ==
    ASSUME VersionSound
    PROVE  /\ Len(parent) \in Nat /\ Written = 1..Len(parent)
           /\ \A v \in Written : v \in Nat \ {0} /\ parent[v] \in Nat /\ parent[v] < v
           /\ \A v \in Written : parent[v] # 0 => parent[v] \in Written
           /\ \A v \in Written : v \in Nat \ {0} /\ Link(v) \in Nat /\ Link(v) < v
           /\ \A v \in Written : Link(v) # 0 => Link(v) \in Written
           /\ \A v \in Written : Link(v) # 0 => Link(v) = parent[v] /\ v \in indexed
           /\ \A v \in marked : v \in Written /\ Link(v) = parent[v] /\ Link(v) # 0
  <1>1. Len(parent) \in Nat /\ Written = 1..Len(parent)
    BY LenProperties DEF VersionSound, Written
  <1>2. \A v \in Written : v \in Nat \ {0} /\ parent[v] \in Nat /\ parent[v] < v
    BY <1>1, ElementOfSeq DEF VersionSound
  <1>3. \A v \in Written : parent[v] # 0 => parent[v] \in Written
    BY <1>1, <1>2
  <1>4. \A v \in marked : v \in Written /\ v \in indexed /\ parent[v] # 0
    BY DEF VersionSound
  <1> QED  BY <1>1, <1>2, <1>3, <1>4 DEF Link

LEMMA AncestorsAre ==
    ASSUME VersionSound, NEW v \in Written
    PROVE  /\ Ancestors(v) \in Seq(Nat)
           /\ Ancestors(v) = IF Link(v) = 0 THEN <<>> ELSE <<Link(v)>> \o Ancestors(Link(v))
  <1>1. PICK L : L = Len(parent)
    OBVIOUS
  <1>2. /\ L \in Nat /\ Written = 1..L
        /\ \A w \in 1..L : Link(w) \in Nat /\ Link(w) < w /\ Link(w) \in 0..L
    BY <1>1, WrittenAre
  <1> DEFINE S == Seq(Nat)
             Top(w) == w = 0 \/ Link(w) = 0
             One(u, w) == IF Top(w) THEN <<>> ELSE <<Link(w)>> \o u[Link(w)]
  <1>3. PICK F : F = [u \in [0..L -> S] |-> [w \in 0..L |-> One(u, w)]]
    OBVIOUS
  <1>4. \A u \in [0..L -> S], w \in 0..L : One(u, w) \in S
    <2>1. ASSUME NEW u \in [0..L -> S], NEW w \in 0..L  PROVE  One(u, w) \in S
      <3>1. CASE Top(w)
        BY <3>1
      <3>2. CASE ~Top(w)
        <4>1. w \in 1..L
          BY <3>2
        <4>2. Link(w) \in Nat /\ u[Link(w)] \in Seq(Nat)
          BY <1>2, <4>1
        <4>3. <<Link(w)>> \o u[Link(w)] \in Seq(Nat)
          BY <4>2, ConcatProperties
        <4> QED  BY <3>2, <4>3
      <3> QED  BY <3>1, <3>2
    <2> QED  BY <2>1
  <1>5. Progressive(F, 0..L, S)
    <2>1. F \in [[0..L -> S] -> [0..L -> S]]
      BY <1>3, <1>4
    <2>2. ASSUME NEW u \in [0..L -> S], NEW x \in [0..L -> S], NEW n \in 0..L,
                 \A k \in 0..L : k < n => u[k] = x[k]
          PROVE  F[u][n] = F[x][n]
      <3>1. F[u][n] = One(u, n) /\ F[x][n] = One(x, n)
        BY <1>3
      <3>2. CASE Top(n)
        BY <3>1, <3>2
      <3>3. CASE ~Top(n)
        <4>1. n \in 1..L
          BY <3>3
        <4>2. u[Link(n)] = x[Link(n)]
          BY <1>2, <2>2, <4>1
        <4> QED  BY <3>1, <4>2
      <3> QED  BY <3>2, <3>3
    <2> QED  BY <2>1, <2>2 DEF Progressive
  <1>6. PICK up \in [0..L -> S] : F[up] = up
    <2>1. PICK R, D : R = S /\ D = 0..L
      OBVIOUS
    <2>2. <<>> \in R
      BY <2>1
    <2>3. R # {} /\ D \subseteq 0..L /\ Progressive(F, D, R) /\ L \in Nat
      BY <1>2, <1>5, <2>1, <2>2
    <2>4. HasFixpoint(F, D, R)
      BY ONLY <2>3, Recursive
    <2> QED  BY <2>1, <2>4 DEF HasFixpoint
  <1>7. up = [w \in 0..L |-> One(up, w)]
    BY <1>3, <1>6
  <1> DEFINE Up == CHOOSE f : f = [w \in 0..L |-> One(f, w)]
  <1>8. Up = [w \in 0..L |-> One(Up, w)]
    BY <1>7
  <1>9. \A w \in 0..L : Ancestors(w) = Up[w]
    BY <1>1 DEF Ancestors
  <1>10. PICK g : g = Up
    OBVIOUS
  <1>11. \A w \in 0..L : g[w] = One(g, w)
    <2>1. g = [w \in 0..L |-> One(g, w)]
      BY <1>8, <1>10
    <2> QED  BY ONLY <2>1
  <1>12. \A w \in 0..L : Ancestors(w) = g[w]
    BY <1>9, <1>10
  <1>13. \A w \in 0..L : g[w] \in Seq(Nat)
    <2> DEFINE T == {n \in Nat : \A w \in 0..L : w <= n => g[w] \in Seq(Nat)}
    <2>1. 0 \in T
      <3>1. \A w \in 0..L : w <= 0 => w = 0
        BY <1>2
      <3>2. 0 \in 0..L
        BY <1>2
      <3>3. g[0] = One(g, 0)
        BY <1>11, <3>2
      <3>4. One(g, 0) = <<>> /\ <<>> \in Seq(Nat)
        OBVIOUS
      <3>5. g[0] \in Seq(Nat)
        BY ONLY <3>3, <3>4
      <3>6. \A w \in 0..L : w <= 0 => g[w] \in Seq(Nat)
        BY ONLY <3>1, <3>5
      <3> QED  BY <3>6
    <2>2. ASSUME NEW n \in Nat, n \in T  PROVE  n + 1 \in T
      <3>1. ASSUME NEW w \in 0..L, w <= n + 1  PROVE  g[w] \in Seq(Nat)
        <4>1. CASE Top(w)
          <5>1. g[w] = <<>>
            BY <1>11, <4>1
          <5> QED  BY <5>1
        <4>2. CASE ~Top(w)
          <5>1. Link(w) \in 0..L /\ Link(w) <= n /\ Link(w) \in Nat
            BY <1>2, <3>1, <4>2
          <5>2. g[Link(w)] \in Seq(Nat)
            BY <2>2, <5>1
          <5>3. g[w] = <<Link(w)>> \o g[Link(w)]
            BY <1>11, <4>2
          <5> QED  BY <5>1, <5>2, <5>3, ConcatProperties
        <4> QED  BY <4>1, <4>2
      <3> QED  BY <3>1
    <2>3. \A n \in Nat : n \in T
      <3> HIDE DEF T
      <3> QED  BY <2>1, <2>2, Induction
    <2>4. L \in T
      BY <1>2, <2>3
    <2>5. \A w \in 0..L : w <= L
      BY <1>2
    <2> QED  BY <2>4, <2>5
  <1>14. v # 0 /\ v \in 0..L /\ (Link(v) # 0 => Link(v) \in 0..L)
    BY <1>2
  <1>15. Ancestors(v) = g[v] /\ g[v] = One(g, v) /\ g[v] \in Seq(Nat)
    BY <1>11, <1>12, <1>13, <1>14
  <1>16. CASE Link(v) = 0
    BY <1>15, <1>16
  <1>17. CASE Link(v) # 0
    <2>1. Ancestors(Link(v)) = g[Link(v)]
      BY <1>12, <1>14, <1>17
    <2> QED  BY <1>14, <1>15, <1>17, <2>1
  <1> QED  BY <1>16, <1>17

(* A sequence with one element more in front. *)
LEMMA InFront ==
    ASSUME NEW s \in Seq(Nat), NEW e \in Nat
    PROVE  /\ <<e>> \o s \in Seq(Nat) /\ Len(<<e>> \o s) = Len(s) + 1 /\ Len(s) \in Nat
           /\ (<<e>> \o s)[1] = e /\ \A n \in 1..Len(s) : (<<e>> \o s)[n + 1] = s[n]
           /\ ToSet(<<e>> \o s) = {e} \cup ToSet(s)
           /\ s # <<>> => Last(<<e>> \o s) = Last(s)
           /\ Last(<<e>>) = e /\ ToSet(s) \subseteq Nat
  <1>1. <<e>> \in Seq(Nat) /\ Len(<<e>>) = 1 /\ <<e>>[1] = e /\ Len(s) \in Nat
    OBVIOUS
  <1>2. PICK t : t = <<e>> \o s
    OBVIOUS
  <1>3. /\ t \in Seq(Nat) /\ Len(t) = 1 + Len(s)
        /\ \A n \in 1..Len(t) : t[n] = IF n <= 1 THEN <<e>>[n] ELSE s[n - 1]
    BY <1>1, <1>2, ConcatProperties
  <1>4. t[1] = e /\ \A n \in 1..Len(s) : t[n + 1] = s[n]
    <2>1. 1 \in 1..Len(t)
      BY <1>1, <1>3
    <2>2. ASSUME NEW n \in 1..Len(s)  PROVE  t[n + 1] = s[n]
      <3>1. n + 1 \in 1..Len(t) /\ ~(n + 1 <= 1) /\ (n + 1) - 1 = n
        BY <1>1, <1>3
      <3> QED  BY <1>3, <3>1
    <2> QED  BY <1>1, <1>3, <2>1, <2>2
  <1>5. DOMAIN t = 1..Len(t) /\ DOMAIN s = 1..Len(s)
    BY <1>3, LenProperties
  <1>6. \A n \in 1..Len(t) : n = 1 \/ \E k \in 1..Len(s) : n = k + 1
    <2>1. ASSUME NEW n \in 1..Len(t), n # 1  PROVE  \E k \in 1..Len(s) : n = k + 1
      <3>1. n - 1 \in 1..Len(s) /\ n = (n - 1) + 1
        BY <1>1, <1>3, <2>1
      <3> QED  BY <3>1
    <2> QED  BY <2>1
  <1>7. ToSet(t) = {e} \cup ToSet(s)
    <2>1. \A x : x \in ToSet(t) <=> \E n \in 1..Len(t) : x = t[n]
      BY <1>5 DEF ToSet
    <2>2. \A x : x \in ToSet(s) <=> \E n \in 1..Len(s) : x = s[n]
      BY <1>5 DEF ToSet
    <2>3. ASSUME NEW x \in ToSet(t)  PROVE  x \in {e} \cup ToSet(s)
      <3>1. PICK n \in 1..Len(t) : x = t[n]
        BY <2>1
      <3> QED  BY <1>4, <1>6, <2>2, <3>1
    <2>4. ASSUME NEW x \in {e} \cup ToSet(s)  PROVE  x \in ToSet(t)
      <3>1. CASE x = e
        <4>1. 1 \in 1..Len(t)
          BY <1>1, <1>3
        <4> QED  BY <1>4, <2>1, <3>1, <4>1
      <3>2. CASE x \in ToSet(s)
        <4>1. PICK n \in 1..Len(s) : x = s[n]
          BY <2>2, <3>2
        <4>2. n + 1 \in 1..Len(t)
          BY <1>1, <1>3
        <4> QED  BY <1>4, <2>1, <4>1, <4>2
      <3> QED  BY <3>1, <3>2
    <2> QED  BY <2>3, <2>4
  <1>8. s # <<>> => Last(t) = Last(s)
    <2>1. SUFFICES ASSUME s # <<>>  PROVE  t[Len(t)] = s[Len(s)]
      BY DEF Last
    <2>2. Len(s) \in 1..Len(s) /\ Len(t) = Len(s) + 1
      BY <1>1, <1>3, <2>1, EmptySeq
    <2> QED  BY <1>4, <2>2
  <1>9. ToSet(s) \subseteq Nat
    BY <1>5, ElementOfSeq DEF ToSet
  <1>10. Last(<<e>>) = e
    BY <1>1 DEF Last
  <1> QED  BY <1>1, <1>2, <1>3, <1>4, <1>7, <1>8, <1>9, <1>10

(* Induction over the versions, each after the one it was written from. *)
LEMMA VersionInduction ==
    ASSUME VersionSound, NEW P, \A v \in Written : (Link(v) # 0 => Link(v) \in P) => v \in P
    PROVE  Written \subseteq P
  <1>1. /\ Len(parent) \in Nat /\ Written = 1..Len(parent)
        /\ \A v \in Written : v \in Nat \ {0} /\ Link(v) \in Nat /\ Link(v) < v
        /\ \A v \in Written : Link(v) # 0 => Link(v) \in Written
    BY WrittenAre
  <1> DEFINE T == {n \in Nat : \A v \in Written : v <= n => v \in P}
  <1>2. 0 \in T
    BY <1>1
  <1>3. ASSUME NEW n \in Nat, n \in T  PROVE  n + 1 \in T
    <2>1. ASSUME NEW v \in Written, v <= n + 1  PROVE  v \in P
      <3>1. v \in Nat /\ Link(v) \in Nat /\ Link(v) < v
        BY <1>1
      <3>2. Link(v) <= n
        BY <2>1, <3>1
      <3>3. Link(v) # 0 => Link(v) \in P
        BY <1>1, <1>3, <3>2
      <3> QED  BY <3>3
    <2> QED  BY <2>1
  <1>4. \A n \in Nat : n \in T
    <2> HIDE DEF T
    <2> QED  BY <1>2, <1>3, Induction
  <1>5. ASSUME NEW v \in Written  PROVE  v \in P
    <2>1. v \in Nat /\ v <= v
      BY <1>1
    <2>2. v \in T
      BY <1>4, <2>1
    <2> QED  BY <2>1, <2>2
  <1> QED  BY <1>5

LEMMA AuditPathIs ==
    ASSUME VersionSound, NEW v \in Written
    PROVE  /\ AuditPath(v) = IF Link(v) = 0 THEN {v} ELSE {v} \cup AuditPath(Link(v))
           /\ ToSet(Ancestors(v)) = IF Link(v) = 0 THEN {} ELSE AuditPath(Link(v))
           /\ v \in AuditPath(v)
  <1>1. v \in Nat /\ Link(v) \in Nat /\ (Link(v) # 0 => Link(v) \in Written)
    BY WrittenAre
  <1>2. CASE Link(v) = 0
    <2>1. Ancestors(v) = <<>>
      BY <1>2, AncestorsAre
    <2>2. ToSet(Ancestors(v)) = {}
      BY <2>1 DEF ToSet
    <2> QED  BY <1>2, <2>2 DEF AuditPath
  <1>3. CASE Link(v) # 0
    <2>1. PICK p : p = Link(v)
      OBVIOUS
    <2>2. p \in Written /\ p \in Nat /\ p # 0
      BY <1>1, <1>3, <2>1
    <2>3. Ancestors(v) = <<p>> \o Ancestors(p) /\ Ancestors(p) \in Seq(Nat)
      BY <1>3, <2>1, <2>2, AncestorsAre
    <2>4. ToSet(Ancestors(v)) = {p} \cup ToSet(Ancestors(p))
      BY <2>2, <2>3, InFront
    <2> QED  BY <1>3, <2>1, <2>4 DEF AuditPath
  <1> QED  BY <1>2, <1>3

(* Those a version was made from are older, and versions. *)
LEMMA PathSound ==
    ASSUME VersionSound, NEW v \in Written
    PROVE  /\ AuditPath(v) \subseteq Written /\ \A w \in AuditPath(v) : w <= v
           /\ ToSet(Ancestors(v)) = AuditPath(v) \ {v}
  <1> DEFINE P == {x \in Written : AuditPath(x) \subseteq Written /\ \A w \in AuditPath(x) : w <= x}
  <1>1. \A x \in Written : x \in Nat /\ Link(x) \in Nat /\ Link(x) < x
                           /\ (Link(x) # 0 => Link(x) \in Written)
    BY WrittenAre
  <1>2. ASSUME NEW x \in Written, Link(x) # 0 => Link(x) \in P  PROVE  x \in P
    <2>1. CASE Link(x) = 0
      <3>1. AuditPath(x) = {x}
        BY <2>1, AuditPathIs
      <3> QED  BY <1>1, <3>1
    <2>2. CASE Link(x) # 0
      <3>1. PICK p : p = Link(x)
        OBVIOUS
      <3>2. /\ p \in Written /\ AuditPath(p) \subseteq Written /\ \A w \in AuditPath(p) : w <= p
            /\ p \in Nat /\ x \in Nat /\ p < x
        BY <1>1, <1>2, <2>2, <3>1
      <3>3. AuditPath(x) = {x} \cup AuditPath(p)
        BY <2>2, <3>1, AuditPathIs
      <3>4. \A w \in AuditPath(p) : w \in Nat /\ w <= p
        BY <1>1, <3>2
      <3>5. \A w \in AuditPath(p) : w <= x
        BY ONLY <3>2, <3>4
      <3>6. \A w \in AuditPath(x) : w <= x
        BY <3>2, <3>3, <3>5
      <3> QED  BY <3>6, <3>2, <3>3, <3>4
    <2> QED  BY <2>1, <2>2
  <1>3. Written \subseteq P
    <2> HIDE DEF P
    <2> QED  BY <1>2, VersionInduction
  <1>4. AuditPath(v) \subseteq Written /\ \A w \in AuditPath(v) : w <= v
    BY <1>3
  <1>5. ToSet(Ancestors(v)) = AuditPath(v) \ {v}
    <2>1. CASE Link(v) = 0
      BY <2>1, AuditPathIs
    <2>2. CASE Link(v) # 0
      <3>1. PICK p : p = Link(v)
        OBVIOUS
      <3>2. p \in P /\ p \in Nat /\ v \in Nat /\ p < v
        BY <1>1, <1>3, <2>2, <3>1
      <3>3. \A w \in AuditPath(p) : w \in Nat /\ w <= p
        BY <1>1, <3>2
      <3>4. v \notin AuditPath(p)
        BY <3>2, <3>3
      <3>5. AuditPath(v) = {v} \cup AuditPath(p) /\ ToSet(Ancestors(v)) = AuditPath(p)
        BY <2>2, <3>1, AuditPathIs
      <3> QED  BY <3>4, <3>5
    <2> QED  BY <2>1, <2>2
  <1> QED  BY <1>4, <1>5

(* The root of a version is the one first version that it was made from. *)
LEMMA RootIs ==
    ASSUME VersionSound, NEW v \in Written
    PROVE  VersionRoot(v) = IF Link(v) = 0 THEN v ELSE VersionRoot(Link(v))
  <1>1. v \in Nat /\ Link(v) \in Nat /\ (Link(v) # 0 => Link(v) \in Written)
    BY WrittenAre
  <1>2. PICK p : p = Link(v)
    OBVIOUS
  <1>3. CASE p = 0
    <2>1. Ancestors(v) = <<>>
      BY <1>2, <1>3, AncestorsAre
    <2>2. <<v>> \in Seq(Nat) /\ <<>> \in Seq(Nat)
      BY <1>1
    <2>3. <<v>> \o <<>> = <<v>>
      BY <2>2, ConcatEmptySeq
    <2>4. Last(<<v>>) = v
      BY <1>1, <2>2, InFront
    <2> QED  BY <1>2, <1>3, <2>1, <2>3, <2>4 DEF VersionRoot
  <1>4. CASE p # 0
    <2>1. p \in Written /\ p \in Nat
      BY <1>1, <1>2, <1>4
    <2>2. Ancestors(v) = <<p>> \o Ancestors(p) /\ Ancestors(p) \in Seq(Nat)
      BY <1>2, <1>4, <2>1, AncestorsAre
    <2>3. PICK s : s = <<p>> \o Ancestors(p)
      OBVIOUS
    <2>4. s \in Seq(Nat) /\ s # <<>>
      <3>1. s \in Seq(Nat) /\ Len(s) = Len(Ancestors(p)) + 1 /\ Len(Ancestors(p)) \in Nat
        BY <2>1, <2>2, <2>3, InFront
      <3> QED  BY <3>1, EmptySeq
    <2>5. Last(<<v>> \o s) = Last(s)
      BY <1>1, <2>4, InFront
    <2> QED  BY <1>2, <1>4, <2>2, <2>3, <2>5 DEF VersionRoot
  <1> QED  BY <1>2, <1>3, <1>4

LEMMA RootSound ==
    ASSUME VersionSound, NEW v \in Written
    PROVE  /\ VersionRoot(v) \in AuditPath(v) /\ VersionRoot(v) \in Written
           /\ Link(VersionRoot(v)) = 0
           /\ \A r \in AuditPath(v) : Link(r) = 0 => r = VersionRoot(v)
  <1> DEFINE P == {x \in Written : /\ VersionRoot(x) \in AuditPath(x)
                                   /\ Link(VersionRoot(x)) = 0
                                   /\ \A r \in AuditPath(x) : Link(r) = 0 => r = VersionRoot(x)}
  <1>1. ASSUME NEW x \in Written, Link(x) # 0 => Link(x) \in P  PROVE  x \in P
    BY <1>1, AuditPathIs, RootIs
  <1>2. Written \subseteq P
    <2> HIDE DEF P
    <2> QED  BY <1>1, VersionInduction
  <1> QED  BY <1>2, PathSound

(* What the stack of versions reaches is what was made from the version. *)
LEMMA DescendantsAre ==
    ASSUME VersionSound, NEW v \in Written
    PROVE  Descendants(v) = {w \in Written : v \in AuditPath(w)} \ {v}
  <1>1. PICK L : L = Len(parent)
    OBVIOUS
  <1>2. /\ L \in Nat /\ Written = 1..L
        /\ \A w \in Written : w \in Nat /\ Link(w) \in Nat /\ Link(w) < w
        /\ \A w \in Written : Link(w) # 0 => Link(w) \in Written
    BY <1>1, WrittenAre
  <1> DEFINE More(X) == X \cup UNION {Children(w) : w \in X}
  <1>3. PICK G : G = [X \in SUBSET Written |-> More(X)]
    OBVIOUS
  <1>4. G \in [SUBSET Written -> SUBSET Written] /\ {v} \in SUBSET Written
    BY <1>3 DEF Children
  <1>5. PICK f : /\ f \in [0..L -> SUBSET Written] /\ f[0] = {v}
                 /\ \A n \in 1..L : f[n] = G[f[n - 1]]
    <2>1. \E f : Iterated(f, SUBSET Written, {v}, G, L)
      BY <1>2, <1>4, Iterates
    <2> QED  BY <2>1 DEF Iterated
  <1>6. \A n \in 1..L : f[n] = More(f[n - 1])
    <2>1. \A n \in 1..L : f[n - 1] \in SUBSET Written
      BY <1>2, <1>5
    <2> QED  BY <1>3, <1>5, <2>1
  <1>7. f = [n \in 0..L |-> IF n = 0 THEN {v} ELSE More(f[n - 1])]
    BY <1>2, <1>5, <1>6
  <1> DEFINE Down == CHOOSE d : d = [n \in 0..L |-> IF n = 0 THEN {v} ELSE More(d[n - 1])]
  <1>8. Down = [n \in 0..L |-> IF n = 0 THEN {v} ELSE More(Down[n - 1])]
    BY <1>7
  <1>9. Descendants(v) = Down[L] \ {v}
    BY <1>1 DEF Descendants
  <1> HIDE DEF Down
  <1>10. PICK d : d = Down
    OBVIOUS
  <1>11. d[0] = {v} /\ \A n \in 1..L : d[n] = More(d[n - 1])
    <2>1. d = [n \in 0..L |-> IF n = 0 THEN {v} ELSE More(d[n - 1])]
      BY <1>8, <1>10
    <2>2. \A n \in 0..L : d[n] = IF n = 0 THEN {v} ELSE More(d[n - 1])
      BY ONLY <2>1
    <2>3. 0 \in 0..L /\ \A n \in 1..L : n \in 0..L /\ n # 0
      BY <1>2
    <2> QED  BY <2>2, <2>3
  <1> DEFINE Made == {w \in Written : v \in AuditPath(w)}
             T == {n \in Nat : n \in 0..L => d[n] \subseteq Made /\ \A w \in Made : w <= n => w \in d[n]}
  <1>13. 0 \in T
    <2>1. v \in Made
      BY AuditPathIs
    <2>2. \A w \in Written : ~(w <= 0)
      BY <1>2
    <2> QED  BY <1>11, <2>1, <2>2
  <1>14. ASSUME NEW n \in Nat, n \in T  PROVE  n + 1 \in T
    <2>1. CASE n + 1 \in 0..L
      <3>1. n \in 0..L /\ n + 1 \in 1..L /\ (n + 1) - 1 = n
        BY <1>2, <2>1
      <3>2. d[n] \subseteq Made /\ \A w \in Made : w <= n => w \in d[n]
        BY <1>14, <3>1
      <3>3. d[n + 1] = More(d[n])
        BY <1>11, <3>1
      <3>4. d[n + 1] \subseteq Made
        <4>1. ASSUME NEW w \in d[n + 1], w \notin d[n]  PROVE  w \in Made
          <5>1. PICK x \in d[n] : w \in Children(x)
            BY <3>3, <4>1
          <5>2. w \in Written /\ Link(w) = x /\ x \in Made
            BY <3>2, <5>1 DEF Children
          <5>3. x # 0
            BY <1>2, <5>2
          <5>4. AuditPath(w) = {w} \cup AuditPath(x)
            BY <5>2, <5>3, AuditPathIs
          <5> QED  BY <5>2, <5>4
        <4> QED  BY <3>2, <4>1
      <3>5. ASSUME NEW w \in Made, w <= n + 1  PROVE  w \in d[n + 1]
        <4>1. w \in Written /\ v \in AuditPath(w) /\ w \in Nat /\ Link(w) \in Nat /\ Link(w) < w
          BY <1>2
        <4>2. CASE w = v
          <5>1. v \in d[n]
            <6> DEFINE V == {k \in Nat : k \in 0..L => v \in d[k]}
            <6>1. 0 \in V
              BY <1>11
            <6>2. ASSUME NEW k \in Nat, k \in V  PROVE  k + 1 \in V
              <7>1. CASE k + 1 \in 0..L
                <8>1. k \in 0..L /\ k + 1 \in 1..L /\ (k + 1) - 1 = k
                  BY <1>2, <7>1
                <8>2. d[k + 1] = More(d[k]) /\ v \in d[k]
                  BY <1>11, <6>2, <8>1
                <8> QED  BY <8>2
              <7> QED  BY <7>1
            <6>3. \A k \in Nat : k \in V
              <7> HIDE DEF V
              <7> QED  BY <6>1, <6>2, Induction
            <6> QED  BY <3>1, <6>3
          <5> QED  BY <3>3, <4>2, <5>1
        <4>3. CASE w # v
          <5>1. Link(w) # 0
            BY <4>1, <4>3, AuditPathIs
          <5>2. PICK x : x = Link(w)
            OBVIOUS
          <5>3. AuditPath(w) = {w} \cup AuditPath(x) /\ x \in Written
            BY <1>2, <4>1, <5>1, <5>2, AuditPathIs
          <5>4. x \in Made /\ x <= n
            BY <1>14, <3>5, <4>1, <4>3, <5>2, <5>3
          <5>5. x \in d[n] /\ w \in Children(x)
            BY <3>2, <4>1, <5>2, <5>4 DEF Children
          <5> QED  BY <3>3, <5>5
        <4> QED  BY <4>2, <4>3
      <3>6. n + 1 \in 0..L => d[n + 1] \subseteq Made /\ \A w \in Made : w <= n + 1 => w \in d[n + 1]
        BY <3>4, <3>5
      <3> QED  BY <3>6
    <2> QED  BY <2>1
  <1>15. \A n \in Nat : n \in T
    <2> HIDE DEF T
    <2> QED  BY <1>13, <1>14, Induction
  <1>16. d[L] = Made
    <2>1. L \in T /\ L \in 0..L /\ \A w \in Made : w <= L
      BY <1>2, <1>15
    <2>2. d[L] \subseteq Made /\ \A w \in Made : w \in d[L]
      BY <2>1
    <2> QED  BY <2>2
  <1> QED  BY <1>9, <1>10, <1>16

(* The nodes of a lineage are the versions with the same root. *)
LEMMA LineageNodesAre ==
    ASSUME VersionSound, NEW v \in Written
    PROVE  /\ LineageNodes(v) = {w \in Written : VersionRoot(w) = VersionRoot(v)}
           /\ v \in LineageNodes(v) /\ VersionRoot(v) \in LineageNodes(v)
  <1>1. PICK r : r = VersionRoot(v)
    OBVIOUS
  <1>2. r \in Written /\ Link(r) = 0
    BY <1>1, RootSound
  <1>3. LineageNodes(v) = {r} \cup {w \in Written : r \in AuditPath(w)}
    BY <1>1, <1>2, DescendantsAre DEF LineageNodes
  <1>4. \A w \in Written : r \in AuditPath(w) <=> VersionRoot(w) = r
    BY <1>2, RootSound
  <1>5. VersionRoot(r) = r
    BY <1>2, RootIs
  <1> QED  BY <1>1, <1>2, <1>3, <1>4, <1>5
LEMMA GreatestNumber ==
    ASSUME NEW N \in Nat, NEW T, T \subseteq 0..N, T # {}
    PROVE  Max(T) \in T /\ \A n \in T : n <= Max(T)
  <1>1. PICK U : U = {n \in 0..N : N - n \in T}
    OBVIOUS
  <1>2. U \subseteq Nat /\ U # {}
    <2>1. PICK n \in T : TRUE
      OBVIOUS
    <2>2. n \in 0..N /\ N - n \in 0..N /\ N - (N - n) = n
      OBVIOUS
    <2>3. N - n \in U
      BY <1>1, <2>1, <2>2
    <2>4. U \subseteq Nat
      <3>1. 0..N \subseteq Nat
        OBVIOUS
      <3> QED  BY ONLY <1>1, <3>1
    <2> QED  BY ONLY <2>3, <2>4
  <1>3. PICK u \in U : \A n \in U : u <= n
    BY <1>2, LeastNumber
  <1>4. N - u \in T /\ \A n \in T : n <= N - u
    <2>1. u \in 0..N /\ N - u \in T
      BY <1>1
    <2>2. ASSUME NEW n \in T  PROVE  n <= N - u
      <3>1. n \in 0..N /\ N - n \in 0..N /\ N - (N - n) = n
        OBVIOUS
      <3>2. u <= N - n
        BY <1>1, <1>3, <3>1
      <3> QED  BY ONLY <2>1, <3>1, <3>2
    <2> QED  BY <2>1, <2>2
  <1>5. \E m \in T : \A n \in T : m >= n
    <2>1. \A n \in T : n \in Nat
      OBVIOUS
    <2> QED  BY <1>4, <2>1
  <1>6. Max(T) \in T /\ \A n \in T : Max(T) >= n
    BY <1>5 DEF Max
  <1> QED  BY <1>6
(* The heads of a lineage.  Every node but the root is the first version     *)
(* that was written from its parent or a later one; the first ones are as    *)
(* many as the nodes that are no heads, since each is of another parent.     *)

LaterOf(v) ==
    {w \in LineageNodes(v) : Link(w) # 0 /\ \E z \in Children(Link(w)) : z < w}

LEMMA NodesAre ==
    ASSUME VersionSound, NEW v \in Written, NEW r, r = VersionRoot(v)
    PROVE  /\ LineageNodes(v) \subseteq Written /\ r \in LineageNodes(v) /\ Link(r) = 0
           /\ \A w \in LineageNodes(v) : w = r \/ Link(w) \in LineageNodes(v)
           /\ \A w \in LineageNodes(v) : Link(w) = 0 => w = r
           /\ \A w \in LineageNodes(v) : Children(w) \subseteq LineageNodes(v)
           /\ IsFiniteSet(LineageNodes(v))
  <1>1. LineageNodes(v) = {w \in Written : VersionRoot(w) = r} /\ r \in Written /\ Link(r) = 0
        /\ r \in LineageNodes(v)
    BY LineageNodesAre, RootSound
  <1>2. ASSUME NEW w \in LineageNodes(v)
        PROVE  /\ w = r \/ Link(w) \in LineageNodes(v)
               /\ Link(w) = 0 => w = r
    <2>1. PICK x : x = Link(w)
      OBVIOUS
    <2>2. VersionRoot(w) = IF x = 0 THEN w ELSE VersionRoot(x)
      BY <1>1, <2>1, RootIs
    <2>3. x # 0 => x \in Written
      BY <1>1, <2>1, WrittenAre
    <2> QED  BY <1>1, <2>1, <2>2, <2>3
  <1>3. ASSUME NEW w \in LineageNodes(v), NEW z \in Children(w)  PROVE  z \in LineageNodes(v)
    <2>1. z \in Written /\ Link(z) = w /\ w # 0
      BY <1>1, WrittenAre DEF Children
    <2>2. VersionRoot(z) = VersionRoot(w)
      BY <2>1, RootIs
    <2> QED  BY <1>1, <2>1, <2>2
  <1>4. IsFiniteSet(LineageNodes(v))
    <2>1. IsFiniteSet(Written)
      BY WrittenAre, FS_Interval
    <2> QED  BY <1>1, <2>1, FS_Subset
  <1> QED  BY <1>1, <1>2, <1>3, <1>4

LEMMA HeadsCounted ==
    ASSUME VersionSound, NEW v \in Written
    PROVE  Cardinality(Heads(v)) = 1 + Cardinality(LaterOf(v))
  <1>1. PICK r, N : r = VersionRoot(v) /\ N = LineageNodes(v)
    OBVIOUS
  <1>2. /\ N \subseteq Written /\ r \in N /\ Link(r) = 0 /\ IsFiniteSet(N)
        /\ \A w \in N : w = r \/ Link(w) \in N
        /\ \A w \in N : Link(w) = 0 => w = r
        /\ \A w \in N : Children(w) \subseteq N
    BY <1>1, NodesAre
  <1>3. PICK K, F, P : /\ K = LaterOf(v)
                       /\ F = (N \ {r}) \ K
                       /\ P = N \ Heads(v)
    OBVIOUS
  <1>4. K \subseteq N \ {r} /\ Heads(v) \subseteq N
    BY <1>1, <1>2, <1>3 DEF LaterOf, Heads
  <1>5. \A w \in N : w \in K <=> Link(w) # 0 /\ \E z \in Children(Link(w)) : z < w
    BY <1>1, <1>3 DEF LaterOf
  <1>6. \A w \in N : w \in P <=> Children(w) # {}
    BY <1>1, <1>3 DEF Heads
  <1>7. \A w \in Written : w \in Nat
    BY WrittenAre
  <1>8. PICK f : f = [w \in F |-> Link(w)]
    OBVIOUS
  <1>9. ASSUME NEW w \in F  PROVE  f[w] = Link(w) /\ Link(w) \in P /\ w \in Children(Link(w))
    <2>1. w \in N /\ w # r /\ Link(w) \in N
      BY <1>2, <1>3
    <2>2. w \in Children(Link(w))
      BY <1>2, <2>1 DEF Children
    <2> QED  BY <1>6, <1>8, <2>1, <2>2
  <1>10. ASSUME NEW w \in F, NEW x \in F, f[w] = f[x]  PROVE  w = x
    <2>1. w \in N /\ x \in N /\ w \in Nat /\ x \in Nat /\ w \notin K /\ x \notin K
      BY <1>2, <1>3, <1>7
    <2>2. PICK p : p = Link(w)
      OBVIOUS
    <2>3. p = Link(x) /\ w \in Children(p) /\ x \in Children(p) /\ p # 0
      BY <1>2, <1>3, <1>9, <1>10, <2>2
    <2>4. ~(w < x) /\ ~(x < w)
      BY <1>5, <2>1, <2>2, <2>3
    <2> QED  BY <2>1, <2>4
  <1>11. ASSUME NEW p \in P  PROVE  \E w \in F : f[w] = p
    <2>1. p \in N /\ Children(p) # {} /\ Children(p) \subseteq N
      BY <1>2, <1>3, <1>6
    <2>2. Children(p) \subseteq Nat
      BY <1>2, <1>7, <2>1
    <2>3. PICK w \in Children(p) : \A z \in Children(p) : w <= z
      BY <2>1, <2>2, LeastNumber
    <2>4. w \in N /\ Link(w) = p /\ p # 0 /\ w # r
      BY <1>2, <1>7, <2>1, <2>3, WrittenAre DEF Children
    <2>5. w \notin K
      <3>1. \A z \in Children(p) : ~(z < w)
        BY <2>2, <2>3
      <3> QED  BY <1>5, <2>4, <3>1
    <2> QED  BY <1>3, <1>8, <2>4, <2>5
  <1>12. ExistsBijection(F, P)
    <2>1. f \in [F -> P]
      BY <1>8, <1>9
    <2>2. f \in Injection(F, P)
      BY <1>10, <2>1 DEF Injection, IsInjective
    <2>3. f \in Surjection(F, P)
      BY <1>11, <2>1 DEF Surjection
    <2> QED  BY <2>2, <2>3 DEF ExistsBijection, Bijection
  <1>13. /\ IsFiniteSet(N \ {r}) /\ Cardinality(N \ {r}) = Cardinality(N) - 1
         /\ Cardinality(N) \in Nat
    BY <1>2, FS_RemoveElement, FS_CardinalityType
  <1>14. IsFiniteSet(F) /\ Cardinality(F) = (Cardinality(N) - 1) - Cardinality(K)
    <2>1. PICK M : M = N \ {r}
      OBVIOUS
    <2>2. M \cap K = K /\ IsFiniteSet(M) /\ F = M \ K
      BY <1>3, <1>4, <1>13, <2>1
    <2>3. IsFiniteSet(M \ K) /\ Cardinality(M \ K) = Cardinality(M) - Cardinality(M \cap K)
      BY ONLY <2>2, FS_Difference
    <2> QED  BY ONLY <1>13, <2>1, <2>2, <2>3
  <1>15. Cardinality(P) = Cardinality(N) - Cardinality(Heads(v))
    <2>1. N \cap Heads(v) = Heads(v)
      BY <1>4
    <2> QED  BY <1>2, <1>3, <2>1, FS_Difference
  <1>16. Cardinality(P) = Cardinality(F)
    BY <1>12, <1>14, FS_Bijection
  <1>17. Cardinality(K) \in Nat /\ Cardinality(Heads(v)) \in Nat
    <2>1. IsFiniteSet(K) /\ IsFiniteSet(Heads(v))
      BY <1>2, <1>4, FS_Subset
    <2> QED  BY <2>1, FS_CardinalityType
  <1> QED  BY <1>3, <1>13, <1>14, <1>15, <1>16, <1>17

LEMMA HeadsAre ==
    ASSUME VersionSound, NEW v \in Written
    PROVE  Cardinality(Heads(v)) =
              1 + Cardinality({w \in Written : Link(w) \in BranchPoints(v)
                                               /\ \E z \in Children(Link(w)) : z < w})
  <1>1. PICK r, N : r = VersionRoot(v) /\ N = LineageNodes(v)
    OBVIOUS
  <1>2. /\ N \subseteq Written /\ r \in N /\ Link(r) = 0 /\ 0 \notin Written
        /\ \A w \in N : w = r \/ Link(w) \in N
        /\ \A w \in N : Children(w) \subseteq N
    BY <1>1, NodesAre, WrittenAre
  <1>3. ASSUME NEW w \in Written
        PROVE  w \in LaterOf(v) <=> /\ Link(w) \in BranchPoints(v)
                                    /\ \E z \in Children(Link(w)) : z < w
    <2>1. PICK x : x = Link(w)
      OBVIOUS
    <2>2. w \in Children(x)
      BY <2>1 DEF Children
    <2>3. ASSUME \E z \in Children(x) : z < w  PROVE  Cardinality(Children(x)) > 1
      <3>1. PICK z \in Children(x) : z < w
        BY <2>3
      <3>2. z # w /\ {z, w} \subseteq Children(x)
        BY <2>2, <3>1, WrittenAre DEF Children
      <3>3. IsFiniteSet(Children(x)) /\ IsFiniteSet({z})
        <4>1. IsFiniteSet(Written) /\ Children(x) \subseteq Written
          BY WrittenAre, FS_Interval DEF Children
        <4> QED  BY <4>1, FS_Subset, FS_Singleton
      <3>4. Cardinality({z}) = 1 /\ Cardinality({z} \cup {w}) = Cardinality({z}) + 1
        BY <3>2, <3>3, FS_Singleton, FS_AddElement
      <3>5. {z} \cup {w} \subseteq Children(x)
        BY <3>2
      <3>6. Cardinality({z} \cup {w}) <= Cardinality(Children(x)) /\ Cardinality(Children(x)) \in Nat
        BY <3>3, <3>5, FS_Subset, FS_CardinalityType
      <3> QED  BY <3>4, <3>6
    <2>4. x \in BranchPoints(v) <=> x \in N /\ Cardinality(Children(x)) > 1
      BY <1>1 DEF BranchPoints
    <2>5. w \in LaterOf(v) <=> w \in N /\ x # 0 /\ \E z \in Children(x) : z < w
      BY <1>1, <2>1 DEF LaterOf
    <2>6. w \in N /\ x # 0 <=> x \in N
      BY <1>2, <2>1, <2>2
    <2>7. w \in LaterOf(v) <=> x \in BranchPoints(v) /\ \E z \in Children(x) : z < w
      BY ONLY <2>3, <2>4, <2>5, <2>6
    <2> QED  BY ONLY <2>1, <2>7
  <1>4. LaterOf(v) \subseteq Written
    BY <1>1, <1>2 DEF LaterOf
  <1>5. LaterOf(v) = {w \in Written : Link(w) \in BranchPoints(v)
                                      /\ \E z \in Children(Link(w)) : z < w}
    BY <1>3, <1>4
  <1> QED  BY <1>5, HeadsCounted

(* What is marked, or known to the index, leads back. *)
Back == CHOOSE f : f = [w \in Written |-> IF w \in marked THEN f[parent[w]] ELSE w]

LEMMA BackIs ==
    ASSUME VersionSound, NEW v \in Written
    PROVE  Back[v] \in Written /\ Back[v] = IF v \in marked THEN Back[parent[v]] ELSE v
  <1>1. PICK L : L = Len(parent)
    OBVIOUS
  <1>2. /\ L \in Nat /\ Written = 1..L
        /\ \A w \in Written : w \in Nat /\ parent[w] \in Nat /\ parent[w] < w
        /\ \A w \in Written : w \in marked => parent[w] \in Written
    BY <1>1, WrittenAre
  <1> DEFINE One(u, w) == IF w \in marked THEN u[parent[w]] ELSE w
  <1>3. PICK F, D : D = Written /\ F = [u \in [D -> D] |-> [w \in D |-> One(u, w)]]
    OBVIOUS
  <1>4. Progressive(F, D, D)
    <2>1. \A u \in [D -> D], w \in D : One(u, w) \in D
      BY <1>2, <1>3
    <2>2. F \in [[D -> D] -> [D -> D]]
      BY <1>3, <2>1
    <2>3. ASSUME NEW u \in [D -> D], NEW x \in [D -> D], NEW n \in D,
                 \A k \in D : k < n => u[k] = x[k]
          PROVE  F[u][n] = F[x][n]
      <3>1. F[u][n] = One(u, n) /\ F[x][n] = One(x, n)
        BY <1>3
      <3>2. n \in marked => u[parent[n]] = x[parent[n]]
        BY <1>2, <1>3, <2>3
      <3> QED  BY <3>1, <3>2
    <2> QED  BY <2>2, <2>3 DEF Progressive
  <1>5. PICK f \in [D -> D] : F[f] = f
    <2>1. D \subseteq 0..L /\ D # {} /\ L \in Nat
      <3>1. v \in D /\ D = 1..L /\ L \in Nat
        BY <1>2, <1>3
      <3>2. \A k \in 1..L : k \in 0..L
        BY ONLY <3>1
      <3> QED  BY ONLY <3>1, <3>2
    <2>2. PICK R : R = D
      OBVIOUS
    <2>3. R # {} /\ D \subseteq 0..L /\ Progressive(F, D, R) /\ L \in Nat
      BY <1>4, <2>1, <2>2
    <2>4. HasFixpoint(F, D, R)
      BY ONLY <2>3, Recursive
    <2> QED  BY <2>2, <2>4 DEF HasFixpoint
  <1>6. f = [w \in Written |-> IF w \in marked THEN f[parent[w]] ELSE w]
    BY <1>3, <1>5
  <1>7. Back = [w \in Written |-> IF w \in marked THEN Back[parent[w]] ELSE w]
    BY <1>6 DEF Back
  <1>8. PICK g : g = Back
    OBVIOUS
  <1>9. \A w \in Written : g[w] = One(g, w)
    <2>1. g = [w \in Written |-> One(g, w)]
      BY <1>7, <1>8
    <2> QED  BY ONLY <2>1
  <1>10. PICK P : P = {w \in Written : g[w] \in Written}
    OBVIOUS
  <1>11. ASSUME NEW w \in Written, Link(w) # 0 => Link(w) \in P  PROVE  w \in P
    <2>1. w \in marked => Link(w) = parent[w] /\ Link(w) # 0
      BY WrittenAre
    <2> QED  BY <1>9, <1>10, <1>11, <2>1
  <1>12. Written \subseteq P
    BY <1>11, VersionInduction
  <1> QED  BY <1>8, <1>9, <1>10, <1>12

(* A way along the versions that superseded each other last. *)
Chained(c, links, b) ==
    /\ c \in Seq(Nat) /\ c # <<>> /\ c[1] = b
    /\ \A n \in 1..Len(c) : c[n] \in Written /\ n <= c[n]
    /\ \A n \in 1..Len(c) - 1 : links[c[n]] # 0 /\ c[n + 1] = links[c[n]]

(* ... as far as it goes. *)
Walked(c, links, b) == Chained(c, links, b) /\ links[Last(c)] = 0

(* What each link says; versions grow along it. *)
LEMMA LinksAre ==
    ASSUME VersionSound, NEW ws \in SUBSET Written, NEW links, Names(parent, links, ws),
           NEW v \in Written, links[v] # 0
    PROVE  /\ NewestOf(ws, v, links[v]) /\ links[v] \in Written
           /\ links[v] \in Nat /\ v \in Nat /\ v < links[v]
  <1>1. /\ links[v] \in ws /\ parent[links[v]] = v
        /\ \A w \in ws : parent[w] = v => w <= links[v]
    BY DEF Names, Written
  <1> QED  BY <1>1, WrittenAre DEF NewestOf

LEMMA ChainGrows ==
    ASSUME VersionSound, NEW ws \in SUBSET Written, NEW links, Names(parent, links, ws),
           NEW c, NEW b, Chained(c, links, b), links[Last(c)] # 0
    PROVE  /\ Chained(Append(c, links[Last(c)]), links, b)
           /\ Len(Append(c, links[Last(c)])) = Len(c) + 1
  <1>1. /\ c \in Seq(Nat) /\ c # <<>> /\ Len(c) \in Nat \ {0} /\ Last(c) = c[Len(c)]
        /\ Len(c) \in 1..Len(c)
    BY LastOf DEF Chained
  <1>2. PICK t : t = links[Last(c)]
    OBVIOUS
  <1>3. Last(c) \in Written /\ Len(c) <= Last(c)
    BY <1>1 DEF Chained
  <1>4. t \in Written /\ t \in Nat /\ Last(c) \in Nat /\ Last(c) < t
    BY <1>2, <1>3, LinksAre
  <1>5. PICK g : g = Append(c, t)
    OBVIOUS
  <1>6. /\ g \in Seq(Nat) /\ Len(g) = Len(c) + 1 /\ g # <<>>
        /\ \A n \in 1..Len(c) : g[n] = c[n]
        /\ g[Len(c) + 1] = t
    BY <1>1, <1>4, <1>5, Grown
  <1>7. ASSUME NEW n \in 1..Len(g)  PROVE  g[n] \in Written /\ n <= g[n]
    <2>1. CASE n \in 1..Len(c)
      BY <1>6, <2>1 DEF Chained
    <2>2. CASE n = Len(c) + 1
      BY <1>1, <1>3, <1>4, <1>6, <2>2
    <2> QED  BY <1>1, <1>6, <2>1, <2>2
  <1>8. ASSUME NEW n \in 1..Len(g) - 1  PROVE  links[g[n]] # 0 /\ g[n + 1] = links[g[n]]
    <2>1. n \in 1..Len(c)
      BY <1>1, <1>6
    <2>2. CASE n = Len(c)
      BY <1>1, <1>2, <1>6, <2>1, <2>2
    <2>3. CASE n # Len(c)
      <3>1. n \in 1..Len(c) - 1 /\ n + 1 \in 1..Len(c)
        BY <1>1, <2>1, <2>3
      <3> QED  BY <1>6, <2>1, <3>1 DEF Chained
    <2> QED  BY <2>2, <2>3
  <1>9. g[1] = b
    BY <1>1, <1>6 DEF Chained
  <1> QED  BY <1>2, <1>5, <1>6, <1>7, <1>8, <1>9 DEF Chained

LEMMA WalkIs ==
    ASSUME VersionSound, NEW ws \in SUBSET Written, NEW links, Names(parent, links, ws),
           NEW b \in Written
    PROVE  Walked(Walk(links, b), links, b)
  <1>1. PICK L : L = Len(parent)
    OBVIOUS
  <1>2. L \in Nat \ {0} /\ Written = 1..L /\ b \in Nat \ {0}
    BY <1>1, WrittenAre
  <1> DEFINE More(c) == IF links[Last(c)] = 0 THEN c ELSE Append(c, links[Last(c)])
             Forth == CHOOSE f : f = [n \in 1..L |-> IF n = 1 THEN <<b>> ELSE More(f[n - 1])]
  <1>3. Walk(links, b) = Forth[L]
    BY <1>1 DEF Walk
  <1>4. Chained(<<b>>, links, b) /\ Len(<<b>>) = 1
    BY <1>2 DEF Chained
  <1>5. \E f : f = [n \in 1..L |-> IF n = 1 THEN <<b>> ELSE More(f[n - 1])]
    <2>1. PICK S : S = {c \in Seq(Nat) : Chained(c, links, b)}
      OBVIOUS
    <2>2. PICK G : G = [c \in S |-> More(c)]
      OBVIOUS
    <2>3. G \in [S -> S]
      <3>1. ASSUME NEW c \in S  PROVE  More(c) \in S
        <4>1. Chained(c, links, b)
          BY <2>1
        <4>2. CASE links[Last(c)] = 0
          BY <4>2
        <4>3. CASE links[Last(c)] # 0
          <5>1. Chained(Append(c, links[Last(c)]), links, b)
            BY <4>1, <4>3, ChainGrows
          <5> QED  BY <2>1, <4>3, <5>1 DEF Chained
        <4> QED  BY <4>2, <4>3
      <3> QED  BY <2>2, <3>1
    <2>4. <<b>> \in S /\ L - 1 \in Nat
      BY <1>2, <1>4, <2>1 DEF Chained
    <2>5. PICK h : /\ h \in [0..(L - 1) -> S] /\ h[0] = <<b>>
                   /\ \A n \in 1..(L - 1) : h[n] = G[h[n - 1]]
      <3>1. \E h : Iterated(h, S, <<b>>, G, L - 1)
        BY <2>3, <2>4, Iterates
      <3> QED  BY <3>1 DEF Iterated
    <2>6. PICK f : f = [n \in 1..L |-> h[n - 1]]
      OBVIOUS
    <2>7. ASSUME NEW n \in 1..L  PROVE  f[n] = IF n = 1 THEN <<b>> ELSE More(f[n - 1])
      <3>1. CASE n = 1
        BY <2>5, <2>6, <3>1
      <3>2. CASE n # 1
        <4>1. n - 1 \in 1..(L - 1) /\ (n - 1) - 1 \in 0..(L - 1) /\ n - 1 \in 1..L
          BY <1>2, <3>2
        <4>2. f[n] = h[n - 1] /\ f[n - 1] = h[(n - 1) - 1] /\ h[(n - 1) - 1] \in S
          BY <2>5, <2>6, <4>1
        <4>3. h[n - 1] = More(h[(n - 1) - 1])
          BY <2>2, <2>5, <4>1, <4>2
        <4> QED  BY <3>2, <4>2, <4>3
      <3> QED  BY <3>1, <3>2
    <2>8. f = [n \in 1..L |-> IF n = 1 THEN <<b>> ELSE More(f[n - 1])]
      BY <2>6, <2>7
    <2> QED  BY <2>8
  <1>6. Forth = [n \in 1..L |-> IF n = 1 THEN <<b>> ELSE More(Forth[n - 1])]
    BY <1>5
  <1> HIDE DEF Forth
  <1>7. PICK g : g = Forth
    OBVIOUS
  <1>8. \A n \in 1..L : g[n] = IF n = 1 THEN <<b>> ELSE More(g[n - 1])
    <2>1. g = [n \in 1..L |-> IF n = 1 THEN <<b>> ELSE More(g[n - 1])]
      BY <1>6, <1>7
    <2> QED  BY ONLY <2>1
  <1> DEFINE T == {n \in Nat : n + 1 \in 1..L =>
                      /\ Chained(g[n + 1], links, b)
                      /\ links[Last(g[n + 1])] = 0 \/ Len(g[n + 1]) = n + 1}
  <1>9. 0 \in T
    <2>1. 0 + 1 = 1 /\ 1 \in 1..L
      BY <1>2
    <2>2. g[0 + 1] = <<b>>
      BY <1>8, <2>1
    <2> QED  BY <1>4, <2>1, <2>2
  <1>10. ASSUME NEW n \in Nat, n \in T  PROVE  n + 1 \in T
    <2>1. CASE (n + 1) + 1 \in 1..L
      <3>1. PICK c, d : c = g[n + 1] /\ d = g[(n + 1) + 1]
        OBVIOUS
      <3>2. n + 1 \in 1..L /\ (n + 1) + 1 # 1 /\ ((n + 1) + 1) - 1 = n + 1
        BY <1>2, <2>1
      <3>3. Chained(c, links, b) /\ (links[Last(c)] = 0 \/ Len(c) = n + 1) /\ d = More(c)
        <4>1. Chained(c, links, b) /\ (links[Last(c)] = 0 \/ Len(c) = n + 1)
          BY <1>10, <3>1, <3>2
        <4>2. PICK k : k = (n + 1) + 1
          OBVIOUS
        <4>3. k \in 1..L /\ k # 1 /\ k - 1 = n + 1
          BY <2>1, <3>2, <4>2
        <4>4. g[k] = More(g[k - 1])
          BY <1>8, <4>3
        <4>5. d = g[k] /\ c = g[k - 1]
          BY <3>1, <4>2, <4>3
        <4>6. d = More(c)
          BY ONLY <4>4, <4>5
        <4> QED  BY <4>1, <4>6
      <3>4. CASE links[Last(c)] = 0
        <4>1. Chained(d, links, b) /\ links[Last(d)] = 0
          BY <3>3, <3>4
        <4> QED  BY <3>1, <4>1
      <3>5. CASE links[Last(c)] # 0
        <4>1. d = Append(c, links[Last(c)]) /\ Len(c) = n + 1
          BY <3>3, <3>5
        <4>2. Chained(d, links, b) /\ Len(d) = (n + 1) + 1
          BY <3>3, <3>5, <4>1, ChainGrows
        <4> QED  BY <3>1, <4>2
      <3> QED  BY <3>4, <3>5
    <2> QED  BY <2>1
  <1>11. \A n \in Nat : n \in T
    <2> HIDE DEF T
    <2> QED  BY <1>9, <1>10, Induction
  <1>12. PICK c : c = g[L]
    OBVIOUS
  <1>13. Chained(c, links, b) /\ (links[Last(c)] = 0 \/ Len(c) = L)
    <2>1. L - 1 \in Nat /\ (L - 1) + 1 = L /\ L \in 1..L
      BY <1>2
    <2>2. L - 1 \in T
      BY <1>11, <2>1
    <2> QED  BY <1>12, <2>1, <2>2
  <1>14. ASSUME Len(c) = L, links[Last(c)] # 0  PROVE  FALSE
    <2>1. Last(c) = c[L] /\ L \in 1..Len(c)
      BY <1>2, <1>13, <1>14, LastOf DEF Chained
    <2>2. Last(c) \in Written /\ L <= Last(c)
      BY <1>13, <2>1 DEF Chained
    <2>3. links[Last(c)] \in Written /\ Last(c) < links[Last(c)]
      BY <1>14, <2>2, LinksAre
    <2> QED  BY <1>2, <2>2, <2>3
  <1> QED  BY <1>3, <1>7, <1>12, <1>13, <1>14 DEF Walked

LEMMA WalkSound ==
    ASSUME VersionSound, NEW ws \in SUBSET Written, NEW links, Names(parent, links, ws),
           NEW c, NEW b, Walked(c, links, b)
    PROVE  /\ FollowsNewest(c, ws)
           /\ \A m, n \in 1..Len(c) : m <= n => c[m] <= c[n]
  <1>1. /\ Len(c) \in Nat /\ \A n \in 1..Len(c) : c[n] \in Written /\ c[n] \in Nat
    BY WrittenAre DEF Walked, Chained
  <1>2. ASSUME NEW n \in 1..Len(c) - 1
        PROVE  NewestOf(ws, c[n], c[n + 1]) /\ c[n] < c[n + 1]
    <2>1. n \in 1..Len(c) /\ links[c[n]] # 0 /\ c[n + 1] = links[c[n]]
      BY <1>1 DEF Walked, Chained
    <2> QED  BY <1>1, <2>1, LinksAre
  <1>3. ASSUME NEW m \in 1..Len(c), NEW n \in 1..Len(c), m <= n  PROVE  c[m] <= c[n]
    <2> DEFINE T == {d \in Nat : m + d \in 1..Len(c) => c[m] <= c[m + d]}
    <2>1. 0 \in T
      <3>1. m + 0 = m
        OBVIOUS
      <3> QED  BY <1>1, <3>1
    <2>2. ASSUME NEW d \in Nat, d \in T  PROVE  d + 1 \in T
      <3>1. CASE m + (d + 1) \in 1..Len(c)
        <4>1. m + d \in 1..Len(c) - 1 /\ m + d \in 1..Len(c) /\ m + (d + 1) = (m + d) + 1
          BY <1>1, <3>1
        <4>2. c[m] <= c[m + d] /\ c[m + d] < c[m + (d + 1)]
          BY <1>2, <2>2, <4>1
        <4>3. c[m] \in Nat /\ c[m + d] \in Nat /\ c[m + (d + 1)] \in Nat
          BY <1>1, <3>1, <4>1
        <4>4. c[m] <= c[m + (d + 1)]
          BY ONLY <4>2, <4>3
        <4> QED  BY <4>4
      <3> QED  BY <3>1
    <2>3. \A d \in Nat : d \in T
      <3> HIDE DEF T
      <3> QED  BY <2>1, <2>2, Induction
    <2>4. n - m \in Nat /\ m + (n - m) = n
      BY <1>3
    <2>5. n - m \in T
      BY <2>3, <2>4
    <2> QED  BY <2>4, <2>5
  <1>4. \A w \in ws : parent[w] # Last(c)
    <2>1. Last(c) \in Written
      BY LastOf DEF Walked, Chained
    <2> QED  BY <2>1 DEF Walked, Names, Written
  <1> QED  BY <1>2, <1>3, <1>4 DEF FollowsNewest

(* There is one way from a version. *)
LEMMA WalkIsUnique ==
    ASSUME NEW links, NEW b, NEW c, NEW d, Walked(c, links, b), Walked(d, links, b)
    PROVE  c = d
  <1>1. /\ c \in Seq(Nat) /\ Len(c) \in Nat \ {0} /\ Last(c) = c[Len(c)] /\ c[1] = b
        /\ \A n \in 1..Len(c) - 1 : links[c[n]] # 0 /\ c[n + 1] = links[c[n]]
        /\ links[c[Len(c)]] = 0
    BY LastOf DEF Walked, Chained
  <1>2. /\ d \in Seq(Nat) /\ Len(d) \in Nat \ {0} /\ Last(d) = d[Len(d)] /\ d[1] = b
        /\ \A n \in 1..Len(d) - 1 : links[d[n]] # 0 /\ d[n + 1] = links[d[n]]
        /\ links[d[Len(d)]] = 0
    BY LastOf DEF Walked, Chained
  <1> DEFINE T == {n \in Nat : n + 1 <= Len(c) /\ n + 1 <= Len(d) => c[n + 1] = d[n + 1]}
  <1>3. 0 \in T
    BY <1>1, <1>2
  <1>4. ASSUME NEW n \in Nat, n \in T  PROVE  n + 1 \in T
    <2>1. CASE (n + 1) + 1 <= Len(c) /\ (n + 1) + 1 <= Len(d)
      <3>1. n + 1 \in 1..Len(c) - 1 /\ n + 1 \in 1..Len(d) - 1 /\ c[n + 1] = d[n + 1]
        BY <1>1, <1>2, <1>4, <2>1
      <3>2. c[(n + 1) + 1] = links[c[n + 1]] /\ d[(n + 1) + 1] = links[d[n + 1]]
        BY <1>1, <1>2, <3>1
      <3> QED  BY <3>1, <3>2
    <2> QED  BY <2>1
  <1>5. \A n \in Nat : n \in T
    <2> HIDE DEF T
    <2> QED  BY <1>3, <1>4, Induction
  <1>6. ASSUME NEW n \in Nat \ {0}, n <= Len(c), n <= Len(d)  PROVE  c[n] = d[n]
    <2>1. n - 1 \in Nat /\ (n - 1) + 1 = n
      OBVIOUS
    <2>2. n - 1 \in T
      BY <1>5, <2>1
    <2> QED  BY <1>6, <2>1, <2>2
  <1>7. ~(Len(c) < Len(d))
    <2>1. SUFFICES ASSUME Len(c) < Len(d)  PROVE  FALSE
      OBVIOUS
    <2>2. Len(c) \in Nat \ {0} /\ Len(c) <= Len(c) /\ Len(c) <= Len(d)
      BY <1>1, <1>2, <2>1
    <2>3. Len(c) \in 1..Len(d) - 1 /\ c[Len(c)] = d[Len(c)]
      BY <1>1, <1>2, <1>6, <2>1, <2>2
    <2> QED  BY <1>1, <1>2, <2>3
  <1>8. ~(Len(d) < Len(c))
    <2>1. SUFFICES ASSUME Len(d) < Len(c)  PROVE  FALSE
      OBVIOUS
    <2>2. Len(d) \in Nat \ {0} /\ Len(d) <= Len(d) /\ Len(d) <= Len(c)
      BY <1>1, <1>2, <2>1
    <2>3. Len(d) \in 1..Len(c) - 1 /\ c[Len(d)] = d[Len(d)]
      BY <1>1, <1>2, <1>6, <2>1, <2>2
    <2> QED  BY <1>1, <1>2, <2>3
  <1>9. Len(c) = Len(d)
    BY <1>1, <1>2, <1>7, <1>8
  <1>10. \A n \in 1..Len(c) : c[n] = d[n]
    BY <1>1, <1>6, <1>9
  <1> QED  BY <1>1, <1>2, <1>9, <1>10, SeqEqual

(* Where all is marked, the index and the disk name the same successors. *)
LEMMA ChainIsHistory ==
    ASSUME VersionSound, NEW v \in Written, AllMarked(VersionRoot(v), LineageNodes(v))
    PROVE  SupersessionChain(v) = History(VersionRoot(v))
  <1>1. PICK r, N, c : r = VersionRoot(v) /\ N = LineageNodes(v) /\ c = SupersessionChain(v)
    OBVIOUS
  <1>2. /\ N \subseteq Written /\ r \in N /\ Link(r) = 0 /\ v \in N
        /\ \A w \in N : w = r \/ Link(w) \in N
        /\ \A w \in N : Link(w) = 0 => w = r
        /\ \A w \in N : Children(w) \subseteq N
    BY <1>1, NodesAre, LineageNodesAre
  <1>3. parent[r] = 0 /\ \A w \in Written : parent[w] \in N => w \in marked
    BY <1>1 DEF AllMarked
  <1>4. /\ \A w \in marked : w \in Written /\ Link(w) = parent[w] /\ Link(w) # 0
        /\ \A w \in Written : Link(w) # 0 => Link(w) = parent[w]
        /\ marked \cap stranded = {} /\ marked \subseteq Written
        /\ \A w \in Written : w \in Nat
    BY WrittenAre DEF VersionSound
  <1>5. Names(parent, next, marked) /\ Names(parent, sidecar, Written \ stranded)
    BY DEF VersionSound
  <1>6. Back[v] = r
    <2> DEFINE P == {w \in Written : w \in N => Back[w] = r}
    <2>1. ASSUME NEW w \in Written, Link(w) # 0 => Link(w) \in P  PROVE  w \in P
      <3>1. SUFFICES ASSUME w \in N  PROVE  Back[w] = r
        OBVIOUS
      <3>2. CASE Link(w) = 0
        <4>1. w = r /\ w \notin marked
          BY <1>2, <1>4, <3>1, <3>2
        <4> QED  BY <4>1, BackIs
      <3>3. CASE Link(w) # 0
        <4>1. Link(w) \in N /\ Link(w) = parent[w] /\ w \in marked
          BY <1>2, <1>3, <1>4, <3>1, <3>3
        <4>2. Back[w] = Back[Link(w)]
          BY <4>1, BackIs
        <4> QED  BY <2>1, <3>3, <4>1, <4>2
      <3> QED  BY <3>2, <3>3
    <2>2. Written \subseteq P
      <3> HIDE DEF P
      <3> QED  BY <2>1, VersionInduction
    <2> QED  BY <1>2, <2>2
  <1>7. Walked(c, next, r)
    <2>1. c = Walk(next, r)
      BY <1>1, <1>6 DEF SupersessionChain, Back
    <2> QED  BY <1>2, <1>4, <1>5, <2>1, WalkIs
  <1>8. ASSUME NEW u \in N  PROVE  next[u] = sidecar[u] /\ (next[u] # 0 => next[u] \in N)
    <2>1. u \in DOMAIN parent /\ u \in Nat
      BY <1>2, <1>4 DEF Written
    <2>2. \A w \in Written : parent[w] = u => w \in marked /\ w \in Written \ stranded
      BY <1>3, <1>4
    <2>3. /\ IF next[u] = 0 THEN \A w \in marked : parent[w] # u
             ELSE /\ next[u] \in marked /\ parent[next[u]] = u
                  /\ \A w \in marked : parent[w] = u => w <= next[u]
          /\ IF sidecar[u] = 0 THEN \A w \in Written \ stranded : parent[w] # u
             ELSE /\ sidecar[u] \in Written \ stranded /\ parent[sidecar[u]] = u
                  /\ \A w \in Written \ stranded : parent[w] = u => w <= sidecar[u]
      BY <1>5, <2>1 DEF Names
    <2>4. next[u] # 0 => next[u] \in Children(u)
      BY <1>4, <2>3 DEF Children
    <2>5. next[u] = sidecar[u]
      <3>1. CASE next[u] = 0
        BY <1>4, <2>2, <2>3, <3>1
      <3>2. CASE next[u] # 0
        <4>1. next[u] \in marked /\ parent[next[u]] = u /\ next[u] \in Written \ stranded
          BY <1>4, <2>3, <3>2
        <4>2. sidecar[u] # 0 /\ sidecar[u] \in Written /\ parent[sidecar[u]] = u
          BY <2>3, <4>1
        <4>3. sidecar[u] \in marked
          BY <2>2, <4>2
        <4>4. sidecar[u] <= next[u] /\ next[u] <= sidecar[u]
          BY <2>3, <3>2, <4>1, <4>2, <4>3
        <4> QED  BY <1>4, <4>1, <4>2, <4>4
      <3> QED  BY <3>1, <3>2
    <2> QED  BY <1>2, <2>4, <2>5
  <1>9. /\ c \in Seq(Nat) /\ Len(c) \in Nat \ {0} /\ Last(c) = c[Len(c)] /\ c[1] = r /\ c # <<>>
        /\ \A n \in 1..Len(c) : c[n] \in Written /\ n <= c[n]
        /\ \A n \in 1..Len(c) - 1 : next[c[n]] # 0 /\ c[n + 1] = next[c[n]]
        /\ next[Last(c)] = 0
    BY <1>7, LastOf DEF Walked, Chained
  <1>10. ASSUME NEW n \in 1..Len(c)  PROVE  c[n] \in N
    <2> DEFINE T == {d \in Nat : d + 1 <= Len(c) => c[d + 1] \in N}
    <2>1. 0 \in T
      BY <1>2, <1>9
    <2>2. ASSUME NEW d \in Nat, d \in T  PROVE  d + 1 \in T
      <3>1. CASE (d + 1) + 1 <= Len(c)
        <4>1. d + 1 \in 1..Len(c) - 1 /\ c[d + 1] \in N
          BY <1>9, <2>2, <3>1
        <4>2. next[c[d + 1]] # 0 /\ c[(d + 1) + 1] = next[c[d + 1]]
          BY <1>9, <4>1
        <4> QED  BY <1>8, <4>1, <4>2
      <3> QED  BY <3>1
    <2>3. \A d \in Nat : d \in T
      <3> HIDE DEF T
      <3> QED  BY <2>1, <2>2, Induction
    <2>4. n - 1 \in Nat /\ (n - 1) + 1 = n /\ n <= Len(c)
      BY <1>9
    <2>5. n - 1 \in T
      BY <2>3, <2>4
    <2> QED  BY <2>4, <2>5
  <1>11. Walked(c, sidecar, r)
    <2>1. \A n \in 1..Len(c) - 1 : sidecar[c[n]] # 0 /\ c[n + 1] = sidecar[c[n]]
      <3>1. \A n \in 1..Len(c) - 1 : n \in 1..Len(c)
        BY <1>9
      <3> QED  BY <1>8, <1>9, <1>10, <3>1
    <2>2. Last(c) \in N
      BY <1>9, <1>10
    <2>3. sidecar[Last(c)] = 0
      BY <1>8, <1>9, <2>2
    <2> QED  BY <1>9, <2>1, <2>3 DEF Walked, Chained
  <1>12. Walked(History(r), sidecar, r)
    BY <1>2, <1>5, WalkIs DEF History
  <1>13. c = History(r)
    BY <1>11, <1>12, WalkIsUnique
  <1> QED  BY <1>1, <1>13

(* A read at a time: the last of the history that was there. *)
LEMMA AtIs ==
    ASSUME VersionSound, NEW v \in Written, NEW t \in Nat, NEW c, c = History(v)
    PROVE  /\ (At(c, t) = 0) = (t < v)
           /\ At(c, t) # 0 => \E m \in 1..Len(c) :
                 /\ At(c, t) = c[m] /\ c[m] <= t
                 /\ \A n \in 1..Len(c) : c[n] <= t => n <= m
  <1>1. PICK B : B = {n \in 1..Len(c) : c[n] <= t}
    OBVIOUS
  <1>2. Walked(c, sidecar, v) /\ Written \ stranded \in SUBSET Written
        /\ Names(parent, sidecar, Written \ stranded)
    BY WalkIs DEF History, VersionSound
  <1>3. /\ DOMAIN c = 1..Len(c) /\ Len(c) \in Nat \ {0} /\ c[1] = v /\ v \in Nat
        /\ \A n \in 1..Len(c) : c[n] \in Nat \ {0}
    BY <1>2, LastOf, LenProperties, WrittenAre DEF Walked, Chained
  <1>4. \A m, n \in 1..Len(c) : m <= n => c[m] <= c[n]
    BY <1>2, WalkSound
  <1>5. B \subseteq 0..Len(c) /\ B \subseteq 1..Len(c)
    BY <1>1, <1>3
  <1>6. B # {} => Max(B) \in B /\ \A n \in B : n <= Max(B)
    BY <1>3, <1>5, GreatestNumber
  <1>7. At(c, t) = IF B = {} THEN 0 ELSE c[Max(B)]
    BY <1>1, <1>3 DEF At
  <1>8. B = {} <=> t < v
    <2>1. 1 \in 1..Len(c) /\ \A n \in 1..Len(c) : v <= c[n]
      BY <1>3, <1>4
    <2>2. CASE t < v
      <3>1. \A n \in 1..Len(c) : ~(c[n] <= t)
        BY <1>3, <2>1, <2>2
      <3> QED  BY <1>1, <2>2, <3>1
    <2>3. CASE ~(t < v)
      <3>1. 1 \in B
        BY <1>1, <1>3, <2>1, <2>3
      <3> QED  BY <2>3, <3>1
    <2> QED  BY <2>2, <2>3
  <1>9. B # {} => c[Max(B)] # 0
    BY <1>3, <1>5, <1>6
  <1>10. (At(c, t) = 0) = (t < v)
    BY <1>7, <1>8, <1>9
  <1>11. ASSUME At(c, t) # 0
         PROVE  \E m \in 1..Len(c) : /\ At(c, t) = c[m] /\ c[m] <= t
                                      /\ \A n \in 1..Len(c) : c[n] <= t => n <= m
    <2>1. PICK m : m = Max(B)
      OBVIOUS
    <2>2. m \in B /\ At(c, t) = c[m] /\ \A n \in B : n <= m
      BY <1>6, <1>7, <1>11, <2>1
    <2> QED  BY <1>1, <2>2
  <1> QED  BY <1>10, <1>11

LEMMA ReadsAre ==
    ASSUME VersionSound, NEW v \in Written, NEW t \in Written
    PROVE  LET c == History(v)
           IN  /\ t > 1 => At(c, t - 1) <= At(c, t)
               /\ \A w \in v..t :
                     parent[w] = At(c, t) => w \in stranded \/ sidecar[At(c, t)] > t
  <1>1. PICK c : c = History(v)
    OBVIOUS
  <1>2. Walked(c, sidecar, v) /\ Written \ stranded \in SUBSET Written
        /\ Names(parent, sidecar, Written \ stranded)
    BY <1>1, WalkIs DEF History, VersionSound
  <1>3. /\ Len(c) \in Nat \ {0} /\ t \in Nat /\ v \in Nat
        /\ \A n \in 1..Len(c) : c[n] \in Nat /\ c[n] \in Written
        /\ \A n \in 1..Len(c) - 1 : sidecar[c[n]] # 0 /\ c[n + 1] = sidecar[c[n]]
        /\ sidecar[c[Len(c)]] = 0
    BY <1>2, LastOf, WrittenAre DEF Walked, Chained
  <1>4. \A m, n \in 1..Len(c) : m <= n => c[m] <= c[n]
    BY <1>2, WalkSound
  <1>5. /\ (At(c, t) = 0) = (t < v)
        /\ At(c, t) # 0 => \E m \in 1..Len(c) :
              /\ At(c, t) = c[m] /\ c[m] <= t
              /\ \A n \in 1..Len(c) : c[n] <= t => n <= m
    <2>1. t \in Nat
      BY <1>3
    <2> QED  BY <1>1, <2>1, AtIs
  <1>6. ASSUME t > 1  PROVE  At(c, t - 1) <= At(c, t)
    <2>1. PICK s : s = t - 1
      OBVIOUS
    <2>2. s \in Nat /\ s <= t
      BY <1>3, <1>6, <2>1
    <2>3. /\ (At(c, s) = 0) = (s < v)
          /\ At(c, s) # 0 => \E m \in 1..Len(c) : At(c, s) = c[m] /\ c[m] <= s
      BY <1>1, <2>2, AtIs
    <2>4. CASE At(c, s) = 0
      <3>1. At(c, t) \in Nat
        BY <1>3, <1>5
      <3> QED  BY <2>1, <2>4, <3>1
    <2>5. CASE At(c, s) # 0
      <3>1. PICK k \in 1..Len(c) : At(c, s) = c[k] /\ c[k] <= s
        BY <2>3, <2>5
      <3>2. c[k] <= t /\ ~(t < v)
        BY <1>3, <2>2, <2>3, <2>5, <3>1
      <3>3. PICK m \in 1..Len(c) : At(c, t) = c[m] /\ \A n \in 1..Len(c) : c[n] <= t => n <= m
        BY <1>5, <3>2
      <3>4. c[k] <= c[m]
        BY <1>4, <3>2, <3>3
      <3> QED  BY <2>1, <3>1, <3>3, <3>4
    <2> QED  BY <2>4, <2>5
  <1>7. ASSUME NEW w \in v..t, parent[w] = At(c, t), w \notin stranded
        PROVE  sidecar[At(c, t)] > t
    <2>1. ~(t < v) /\ w \in Written
      BY <1>3, <1>7, WrittenAre
    <2>2. PICK m \in 1..Len(c) : At(c, t) = c[m] /\ \A n \in 1..Len(c) : c[n] <= t => n <= m
      BY <1>5, <2>1
    <2>3. PICK u : u = c[m]
      OBVIOUS
    <2>4. u \in DOMAIN parent /\ w \in Written \ stranded /\ parent[w] = u
      BY <1>3, <1>7, <2>1, <2>2, <2>3 DEF Written
    <2>5. sidecar[u] # 0
      BY <1>2, <2>4 DEF Names
    <2>6. m # Len(c)
      BY <1>3, <2>3, <2>5
    <2>7. m \in 1..Len(c) - 1 /\ m + 1 \in 1..Len(c) /\ ~(m + 1 <= m)
      BY <1>3, <2>6
    <2>8. c[m + 1] = sidecar[u] /\ ~(c[m + 1] <= t) /\ c[m + 1] \in Nat
      BY <1>3, <2>2, <2>3, <2>7
    <2> QED  BY <1>3, <2>2, <2>3, <2>8
  <1> QED  BY <1>1, <1>6, <1>7

LEMMA LineageImplied == VersionSound => LineageConsistent
  <1> SUFFICES ASSUME VersionSound, NEW v \in Written
               PROVE  LET root    == VersionRoot(v)
                          nodes   == LineageNodes(v)
                          history == History(v)
                      IN  /\ nodes = {w \in Written : VersionRoot(w) = root}
                          /\ FollowsNewest(SupersessionChain(v), marked)
                          /\ FollowsNewest(history, Written \ stranded)
                          /\ AllMarked(root, nodes) => SupersessionChain(v) = History(root)
                          /\ \A t \in Written : (At(history, t) = 0) = (t < v)
    BY HeadsAre, ReadsAre DEF LineageConsistent
  <1>1. /\ marked \in SUBSET Written /\ Written \ stranded \in SUBSET Written
        /\ Names(parent, next, marked) /\ Names(parent, sidecar, Written \ stranded)
        /\ \A t \in Written : t \in Nat
    BY WrittenAre DEF VersionSound
  <1>2. Back[v] \in Written /\ SupersessionChain(v) = Walk(next, Back[v])
    BY BackIs DEF SupersessionChain, Back
  <1>3. FollowsNewest(SupersessionChain(v), marked)
    BY <1>1, <1>2, WalkIs, WalkSound
  <1>4. FollowsNewest(History(v), Written \ stranded)
    BY <1>1, WalkIs, WalkSound DEF History
  <1> QED  BY <1>1, <1>3, <1>4, LineageNodesAre, ChainIsHistory, AtIs

(* One version more. *)
LEMMA NamesGrow ==
    ASSUME NEW par \in Seq(Nat), NEW links \in Seq(Nat), Len(links) = Len(par),
           NEW n, n = Len(par) + 1, NEW ws, ws \subseteq DOMAIN par,
           \A v \in DOMAIN par : par[v] < v, NEW p \in {0} \cup DOMAIN par,
           Names(par, links, ws)
    PROVE  /\ Names(Append(par, p), Append(links, 0), ws)
           /\ p = 0 => Names(Append(par, p), Append(links, 0), ws \cup {n})
           /\ p # 0 => Names(Append(par, p), Append([links EXCEPT ![p] = n], 0), ws \cup {n})
  <1>1. /\ Len(par) \in Nat /\ DOMAIN par = 1..Len(par) /\ n \in Nat \ {0} /\ p \in Nat /\ p < n
        /\ \A v \in 1..Len(par) : v \in Nat /\ par[v] \in Nat /\ par[v] < v /\ v < n
        /\ \A v \in 1..Len(par) : links[v] \in Nat
        /\ \A w \in ws : w \in 1..Len(par)
    <2>1. Len(par) \in Nat /\ DOMAIN par = 1..Len(par)
      BY LenProperties
    <2>2. n \in Nat \ {0} /\ p \in Nat /\ p < n
      BY <2>1
    <2>3. \A v \in 1..Len(par) : par[v] \in Nat /\ links[v] \in Nat
      BY <2>1, ElementOfSeq
    <2>4. \A v \in 1..Len(par) : par[v] < v
      BY <2>1
    <2>5. \A v \in 1..Len(par) : v \in Nat /\ v < n
      BY <2>1
    <2>6. \A w \in ws : w \in 1..Len(par)
      BY <2>1
    <2> QED  BY ONLY <2>1, <2>2, <2>3, <2>4, <2>5, <2>6
  <1>2. PICK q : q = Append(par, p)
    OBVIOUS
  <1>3. /\ DOMAIN q = 1..n /\ q[n] = p
        /\ \A v \in 1..Len(par) : q[v] = par[v]
    <2>1. q \in Seq(Nat) /\ Len(q) = n
      BY <1>1, <1>2, Grown
    <2> QED  BY <1>1, <1>2, <2>1, Grown, LenProperties
  <1>4. \A v \in 1..n : v \in 1..Len(par) \/ v = n
    BY <1>1
  <1>5. \A v \in 1..Len(par) : IF links[v] = 0
                               THEN \A w \in ws : par[w] # v
                               ELSE /\ links[v] \in ws /\ par[links[v]] = v
                                    /\ \A w \in ws : par[w] = v => w <= links[v]
    BY <1>1 DEF Names
  <1>6. \A w \in ws : q[w] = par[w] /\ q[w] # n /\ w # n
    BY <1>1, <1>3
  <1>7. PICK l : l = Append(links, 0)
    OBVIOUS
  <1>8. l[n] = 0 /\ \A v \in 1..Len(par) : l[v] = links[v]
    <2>1. /\ \A v \in 1..Len(links) : Append(links, 0)[v] = links[v]
          /\ Append(links, 0)[Len(links) + 1] = 0
      <3>1. links \in Seq(Nat) /\ 0 \in Nat
        OBVIOUS
      <3> QED  BY ONLY <3>1, Grown
    <2>2. Len(links) = Len(par) /\ n = Len(links) + 1
      OBVIOUS
    <2> QED  BY ONLY <1>7, <2>1, <2>2
  <1>9. Names(q, l, ws)
    <2>1. ASSUME NEW v \in 1..n
          PROVE  IF l[v] = 0
                 THEN \A w \in ws : q[w] # v
                 ELSE /\ l[v] \in ws /\ q[l[v]] = v
                      /\ \A w \in ws : q[w] = v => w <= l[v]
      <3>1. CASE v = n
        <4>1. l[v] = 0 /\ \A w \in ws : q[w] # v
          BY <1>6, <1>8, <3>1
        <4> QED  BY <4>1
      <3>2. CASE v \in 1..Len(par)
        <4>1. l[v] = links[v]
          BY <1>8, <3>2
        <4>2. CASE links[v] = 0
          BY <1>5, <1>6, <3>2, <4>1, <4>2
        <4>3. CASE links[v] # 0
          BY <1>5, <1>6, <3>2, <4>1, <4>3
        <4> QED  BY <4>2, <4>3
      <3> QED  BY <1>4, <3>1, <3>2
    <2> QED  BY <1>3, <2>1 DEF Names
  <1>10. ASSUME p = 0  PROVE  Names(q, l, ws \cup {n})
    <2>1. ASSUME NEW v \in 1..n
          PROVE  IF l[v] = 0
                 THEN \A w \in ws \cup {n} : q[w] # v
                 ELSE /\ l[v] \in ws \cup {n} /\ q[l[v]] = v
                      /\ \A w \in ws \cup {n} : q[w] = v => w <= l[v]
      <3>1. q[n] # v
        BY <1>3, <1>10
      <3>2. IF l[v] = 0
            THEN \A w \in ws : q[w] # v
            ELSE l[v] \in ws /\ q[l[v]] = v /\ \A w \in ws : q[w] = v => w <= l[v]
        BY <1>3, <1>9 DEF Names
      <3> QED  BY <3>1, <3>2
    <2> QED  BY <1>3, <2>1 DEF Names
  <1>11. ASSUME p # 0  PROVE  Names(q, Append([links EXCEPT ![p] = n], 0), ws \cup {n})
    <2>1. p \in 1..Len(par)
      BY <1>1, <1>11
    <2>2. PICK b, k : b = [links EXCEPT ![p] = n] /\ k = Append(b, 0)
      OBVIOUS
    <2>3. b \in Seq(Nat) /\ Len(b) = Len(par)
          /\ \A v \in 1..Len(par) : b[v] = IF v = p THEN n ELSE links[v]
      <3>1. DOMAIN links = 1..Len(par)
        BY <1>1, LenProperties
      <3>2. b \in Seq(Nat) /\ Len(b) = Len(links)
        BY <1>1, <2>1, <2>2, ExceptSeq
      <3>3. \A v \in 1..Len(par) : b[v] = IF v = p THEN n ELSE links[v]
        BY <2>2, <3>1
      <3> QED  BY <3>2, <3>3
    <2>4. k[n] = 0 /\ \A v \in 1..Len(par) : k[v] = IF v = p THEN n ELSE links[v]
      <3>1. Len(b) + 1 = n /\ 0 \in Nat
        BY <2>3
      <3>2. k[Len(b) + 1] = 0 /\ \A v \in 1..Len(b) : k[v] = b[v]
        BY <2>2, <2>3, <3>1, Grown
      <3> QED  BY <2>3, <3>1, <3>2
    <2>5. ASSUME NEW v \in 1..n
          PROVE  IF k[v] = 0
                 THEN \A w \in ws \cup {n} : q[w] # v
                 ELSE /\ k[v] \in ws \cup {n} /\ q[k[v]] = v
                      /\ \A w \in ws \cup {n} : q[w] = v => w <= k[v]
      <3>1. CASE v = n
        BY <1>1, <1>3, <1>6, <2>4, <3>1
      <3>2. CASE v = p
        <4>1. k[v] = n /\ n # 0 /\ q[n] = v
          BY <1>1, <1>3, <2>1, <2>4, <3>2
        <4>2. \A w \in ws \cup {n} : w <= n
          BY <1>1
        <4> QED  BY <4>1, <4>2
      <3>3. CASE v \in 1..Len(par) /\ v # p
        <4>1. k[v] = links[v] /\ q[n] # v
          BY <1>3, <2>4, <3>3
        <4>2. CASE links[v] = 0
          BY <1>5, <1>6, <3>3, <4>1, <4>2
        <4>3. CASE links[v] # 0
          <5>1. /\ links[v] \in ws /\ par[links[v]] = v
                /\ \A w \in ws : par[w] = v => w <= links[v]
            BY <1>5, <3>3, <4>3
          <5>2. q[links[v]] = v /\ \A w \in ws : q[w] = v => w <= links[v]
            BY <1>6, <5>1
          <5> QED  BY <4>1, <4>3, <5>1, <5>2
        <4> QED  BY <4>2, <4>3
      <3> QED  BY <1>4, <3>1, <3>2, <3>3
    <2> QED  BY <1>3, <2>2, <2>5 DEF Names
  <1> QED  BY <1>2, <1>7, <1>9, <1>10, <1>11

LEMMA OneVersionMore ==
    ASSUME VersionSound, NEW p \in {0} \cup Written, parent' = Append(parent, p),
           NEW n, n = Newest
    PROVE  /\ parent' \in Seq(Nat) /\ Len(parent') = n /\ Written' = Written \cup {n}
           /\ n \notin Written /\ n \in Nat \ {0} /\ p \in Nat /\ p < n /\ parent'[n] = p
           /\ \A v \in Written : parent'[v] = parent[v]
  <1>1. /\ parent \in Seq(Nat) /\ Len(parent) \in Nat /\ n = Len(parent) + 1
        /\ Written = 1..Len(parent)
    BY WrittenAre DEF VersionSound, Newest
  <1>2. /\ n \notin Written /\ n \in Nat \ {0} /\ p \in Nat /\ p < n
        /\ 1..n = Written \cup {n}
    BY <1>1
  <1>3. /\ parent' \in Seq(Nat) /\ Len(parent') = n /\ parent'[n] = p
        /\ \A v \in Written : parent'[v] = parent[v]
    BY <1>1, <1>2, Grown
  <1>4. Written' = 1..n
    BY <1>3, LenProperties DEF Written
  <1> QED  BY <1>2, <1>3, <1>4

LEMMA VersionsGrow ==
    ASSUME VersionSound, NEW p \in {0} \cup Written, parent' = Append(parent, p),
           \/ NoSidecar /\ p = 0 /\ UNCHANGED stranded
           \/ NoSidecar /\ stranded' = stranded \cup {Newest}
           \/ Sidecar(p) /\ p # 0 /\ UNCHANGED stranded,
           \/ NotMarked /\ indexed' \in {indexed, indexed \cup {Newest}}
           \/ MarkSuperseded(p) /\ p # 0 /\ EnterIndex /\ UNCHANGED stranded
    PROVE  VersionSound'
  <1>1. PICK n : n = Newest
    OBVIOUS
  <1>2. /\ parent \in Seq(Nat) /\ sidecar \in Seq(Nat) /\ next \in Seq(Nat)
        /\ Len(parent) \in Nat /\ Len(sidecar) = Len(parent) /\ Len(next) = Len(parent)
        /\ Written = 1..Len(parent) /\ n = Len(parent) + 1
        /\ \A v \in Written : parent[v] < v
        /\ indexed \subseteq Written /\ stranded \subseteq Written /\ marked \subseteq indexed \ stranded
        /\ \A w \in marked : parent[w] # 0
    BY <1>1, WrittenAre DEF VersionSound, Newest
  <1>3. /\ parent' \in Seq(Nat) /\ Len(parent') = n /\ Written' = Written \cup {n}
        /\ n \notin Written /\ n \in Nat \ {0} /\ p \in Nat /\ p < n /\ parent'[n] = p
        /\ \A v \in Written : parent'[v] = parent[v]
    BY <1>1, OneVersionMore
  <1>4. \A v \in Written' : parent'[v] < v
    BY <1>2, <1>3
  <1>5. ASSUME NEW links \in Seq(Nat), Len(links) = Len(parent)
        PROVE  Append(links, 0) \in Seq(Nat) /\ Len(Append(links, 0)) = n
    BY <1>2, <1>5, Grown
  <1>6. ASSUME NEW links \in Seq(Nat), Len(links) = Len(parent), p # 0
        PROVE  /\ Append([links EXCEPT ![p] = n], 0) \in Seq(Nat)
               /\ Len(Append([links EXCEPT ![p] = n], 0)) = n
    <2>1. p \in 1..Len(links) /\ n \in Nat
      BY <1>2, <1>3, <1>6
    <2>2. [links EXCEPT ![p] = n] \in Seq(Nat) /\ Len([links EXCEPT ![p] = n]) = Len(links)
      BY <2>1, ExceptSeq
    <2> QED  BY <1>5, <1>6, <2>2
  <1>7. ASSUME NEW links \in Seq(Nat), Len(links) = Len(parent), NEW ws \in SUBSET Written,
               Names(parent, links, ws)
        PROVE  /\ Names(parent', Append(links, 0), ws)
               /\ p = 0 => Names(parent', Append(links, 0), ws \cup {n})
               /\ p # 0 => Names(parent', Append([links EXCEPT ![p] = n], 0), ws \cup {n})
    <2>1. /\ p \in {0} \cup DOMAIN parent /\ ws \subseteq DOMAIN parent
          /\ \A v \in DOMAIN parent : parent[v] < v
      BY <1>2 DEF Written
    <2> QED  BY ONLY <1>2, <1>7, <2>1, parent' = Append(parent, p), NamesGrow
  <1>8. /\ sidecar' \in Seq(Nat) /\ Len(sidecar') = n
        /\ Names(parent', sidecar', Written' \ stranded') /\ stranded' \subseteq Written'
    <2>1. Names(parent, sidecar, Written \ stranded) /\ Written \ stranded \in SUBSET Written
      BY DEF VersionSound
    <2>2. CASE NoSidecar /\ p = 0 /\ UNCHANGED stranded
      <3>1. Written' \ stranded' = (Written \ stranded) \cup {n} /\ stranded' \subseteq Written'
        BY <1>2, <1>3, <2>2
      <3>2. Names(parent', Append(sidecar, 0), (Written \ stranded) \cup {n})
        BY <1>2, <1>7, <2>1, <2>2
      <3>3. sidecar' = Append(sidecar, 0)
        BY <2>2 DEF NoSidecar
      <3> QED  BY <1>2, <1>5, <3>1, <3>2, <3>3
    <2>3. CASE NoSidecar /\ stranded' = stranded \cup {Newest}
      <3>1. Written' \ stranded' = Written \ stranded /\ stranded' \subseteq Written'
        <4>1. /\ stranded' = stranded \cup {n} /\ Written' = Written \cup {n}
              /\ n \notin Written /\ stranded \subseteq Written
          BY <1>1, <1>2, <1>3, <2>3
        <4> QED  BY ONLY <4>1
      <3> QED  BY <1>2, <1>5, <1>7, <2>1, <2>3, <3>1 DEF NoSidecar
    <2>4. CASE Sidecar(p) /\ p # 0 /\ UNCHANGED stranded
      <3>1. Written' \ stranded' = (Written \ stranded) \cup {n} /\ stranded' \subseteq Written'
        BY <1>2, <1>3, <2>4
      <3>2. sidecar' = Append([sidecar EXCEPT ![p] = n], 0)
        BY <1>1, <2>4 DEF Sidecar
      <3> QED  BY <1>2, <1>6, <1>7, <2>1, <2>4, <3>1, <3>2
    <2> QED  BY <2>2, <2>3, <2>4
  <1>9. /\ next' \in Seq(Nat) /\ Len(next') = n /\ Names(parent', next', marked')
        /\ marked' \subseteq indexed' \ stranded' /\ indexed' \subseteq Written'
        /\ \A w \in marked' : parent'[w] # 0
    <2>1. Names(parent, next, marked) /\ marked \in SUBSET Written
      BY <1>2 DEF VersionSound
    <2>2. stranded' \in {stranded, stranded \cup {n}}
      BY <1>1
    <2>3. CASE NotMarked /\ indexed' \in {indexed, indexed \cup {Newest}}
      <3>1. next' = Append(next, 0) /\ marked' = marked
        BY <2>3 DEF NotMarked
      <3>2. marked \subseteq indexed' \ stranded' /\ indexed' \subseteq Written'
        BY <1>1, <1>2, <1>3, <2>2, <2>3
      <3>3. Names(parent', Append(next, 0), marked)
        BY <1>2, <1>7, <2>1
      <3>4. \A w \in marked : parent'[w] # 0
        BY <1>2, <1>3, <2>1
      <3> QED  BY <1>2, <1>5, <3>1, <3>2, <3>3, <3>4
    <2>4. CASE MarkSuperseded(p) /\ p # 0 /\ EnterIndex /\ UNCHANGED stranded
      <3>1. /\ next' = Append([next EXCEPT ![p] = n], 0) /\ marked' = marked \cup {n}
            /\ indexed' = indexed \cup {n} /\ stranded' = stranded
        BY <1>1, <2>4 DEF MarkSuperseded, EnterIndex
      <3>2. marked' \subseteq indexed' \ stranded' /\ indexed' \subseteq Written'
        BY <1>2, <1>3, <3>1
      <3>3. Names(parent', Append([next EXCEPT ![p] = n], 0), marked \cup {n})
        BY <1>2, <1>7, <2>1, <2>4
      <3>4. \A w \in marked \cup {n} : parent'[w] # 0
        BY <1>2, <1>3, <2>1, <2>4
      <3> QED  BY <1>2, <1>6, <2>4, <3>1, <3>2, <3>3, <3>4
    <2> QED  BY <2>3, <2>4
  <1> QED  BY <1>3, <1>4, <1>8, <1>9 DEF VersionSound

LEMMA VersionSoundKept == VersionSound /\ [VersionNext]_versionVars => VersionSound'
  <1> SUFFICES ASSUME VersionSound, [VersionNext]_versionVars  PROVE  VersionSound'
    OBVIOUS
  <1>1. ASSUME First \/ FirstUnseen  PROVE  VersionSound'
    <2>1. /\ parent' = Append(parent, 0) /\ NoSidecar /\ UNCHANGED stranded
          /\ NotMarked /\ indexed' \in {indexed, indexed \cup {Newest}}
      <3>1. CASE First
        BY <3>1 DEF First, Record, EnterIndex
      <3>2. CASE FirstUnseen
        BY <3>2 DEF FirstUnseen, Record
      <3> QED  BY <1>1, <3>1, <3>2
    <2>2. PICK p : p = 0
      OBVIOUS
    <2> QED  BY <2>1, <2>2, VersionsGrow
  <1>2. ASSUME NEW p \in Written, Update(p) \/ UpdateHalf(p) \/ UpdateUnseen(p) \/ Strand(p)
        PROVE  VersionSound'
    <2>1. parent' = Append(parent, p) /\ p # 0
      <3>1. Record(p) /\ p # 0
        BY <1>2, WrittenAre DEF Update, UpdateHalf, UpdateUnseen, Strand
      <3> QED  BY <3>1 DEF Record
    <2>2. CASE Update(p)
      BY <2>1, <2>2, VersionsGrow DEF Update
    <2>3. CASE UpdateHalf(p) \/ UpdateUnseen(p)
      <3>1. /\ Sidecar(p) /\ UNCHANGED stranded /\ NotMarked
            /\ indexed' \in {indexed, indexed \cup {Newest}}
        <4>1. CASE UpdateHalf(p)
          BY <4>1 DEF UpdateHalf, EnterIndex
        <4>2. CASE UpdateUnseen(p)
          BY <4>2 DEF UpdateUnseen
        <4> QED  BY <2>3, <4>1, <4>2
      <3> QED  BY <2>1, <3>1, VersionsGrow
    <2>4. CASE Strand(p)
      BY <2>1, <2>4, VersionsGrow DEF Strand
    <2> QED  BY <1>2, <2>2, <2>3, <2>4
  <1>3. CASE Reload
    <2>1. /\ UNCHANGED <<parent, sidecar, indexed, next, stranded>> /\ Written' = Written
          /\ marked' = {next[v] : v \in Written} \ {0}
      BY <1>3 DEF Reload, Written
    <2>2. /\ Names(parent, next, marked) /\ marked \subseteq indexed \ stranded
          /\ \A w \in marked : parent[w] # 0
      BY DEF VersionSound
    <2>3. \A v \in Written : next[v] # 0 => next[v] \in marked /\ parent[next[v]] = v
      BY <2>2 DEF Names, Written
    <2>4. marked' \subseteq marked
      BY <2>1, <2>3
    <2>5. Names(parent, next, marked')
      <3>1. ASSUME NEW v \in Written
            PROVE  IF next[v] = 0 THEN \A w \in marked' : parent[w] # v
                   ELSE /\ next[v] \in marked' /\ parent[next[v]] = v
                        /\ \A w \in marked' : parent[w] = v => w <= next[v]
        <4>1. IF next[v] = 0 THEN \A w \in marked : parent[w] # v
              ELSE \A w \in marked : parent[w] = v => w <= next[v]
          BY <2>2 DEF Names, Written
        <4> QED  BY <2>1, <2>3, <2>4, <4>1
      <3> QED  BY <3>1 DEF Names, Written
    <2>6. marked' \subseteq indexed \ stranded /\ \A w \in marked' : parent[w] # 0
      BY <2>2, <2>4
    <2> QED  BY <2>1, <2>5, <2>6 DEF VersionSound
  <1>4. CASE Rebuild
    <2>1. /\ UNCHANGED <<parent, sidecar, stranded>> /\ Written' = Written
          /\ indexed' = Written /\ next' = [v \in Written |-> 0] /\ marked' = {}
      BY <1>4 DEF Rebuild, Written
    <2>2. Len(parent) \in Nat /\ Written = 1..Len(parent)
      BY WrittenAre
    <2>3. next' \in Seq(Nat) /\ Len(next') = Len(parent)
      <3>1. next' \in [1..Len(parent) -> Nat]
        BY <2>1, <2>2
      <3> QED  BY <2>1, <2>2, <3>1, LenProperties
    <2>4. Names(parent, next', {})
      BY <2>1 DEF Names, Written
    <2> QED  BY <2>1, <2>3, <2>4 DEF VersionSound
  <1>5. CASE UNCHANGED versionVars
    <2>1. UNCHANGED <<parent, sidecar, indexed, next, marked, stranded>> /\ Written' = Written
      BY <1>5 DEF versionVars, Written
    <2> QED  BY <2>1 DEF VersionSound
  <1> QED  BY <1>1, <1>2, <1>3, <1>4, <1>5 DEF VersionNext

LEMMA VersionStarts == VersionInit => VersionSound
  <1> SUFFICES ASSUME VersionInit  PROVE  VersionSound
    OBVIOUS
  <1>1. /\ parent = <<>> /\ sidecar = <<>> /\ next = <<>>
        /\ indexed = {} /\ marked = {} /\ stranded = {} /\ Written = {}
    BY DEF VersionInit, Written
  <1> QED  BY <1>1, EmptySeq DEF VersionSound, Names, Written

(* The queries of a lineage agree, whatever faults, failed callbacks and    *)
(* rebuilds left out: the nodes are what is linked to one root, a fork adds *)
(* one head per later branch, the chain of the index and the history on     *)
(* disk follow the newest branch of what is marked and of what has its      *)
(* sidecar, and a read at a time shows the latest such version by then.     *)
THEOREM LineagesAreConsistent == VersionSpec => []LineageConsistent
  <1> QED  BY VersionStarts, VersionSoundKept, LineageImplied, PTL DEF VersionSpec

-----------------------------------------------------------------------------
(* The audit of a write.  What it joins is kept by different writers, so    *)
(* the invariant says how each agrees with the version graph.               *)

AuditKept == sources \in Seq(SUBSET Nat) /\ Len(sources) = Len(parent)

(* A version is derived from others, and the edges say so. *)
Derivations ==
    \A v \in Written : \A w \in sources[v] :
        w \in Written /\ w # v /\ (v \notin missed => <<v, "derived_from", w>> \in relations)

Supported == supports \subseteq Evidence \X Written

PromotedFirst == \A v \in promotedTo : v \in Written /\ parent[v] = 0

AuditInv == VersionSound /\ AuditKept /\ Derivations /\ Supported /\ PromotedFirst

LEMMA AuditStarts == AuditInit => AuditInv
  <1> SUFFICES ASSUME AuditInit  PROVE  AuditInv
    OBVIOUS
  <1>1. VersionSound
    BY VersionStarts DEF AuditInit
  <1>2. parent = <<>> /\ Written = {} /\ sources = <<>> /\ supports = {} /\ promotedTo = {}
    BY DEF AuditInit, VersionInit, Written
  <1> QED  BY <1>1, <1>2 DEF AuditInv, AuditKept, Derivations, Supported, PromotedFirst

(* One more version, written from p or from none. *)
LEMMA AuditWrites ==
    ASSUME AuditInv, VersionSound', NEW p \in {0} \cup Written, parent' = Append(parent, p),
           NEW s \in SUBSET Written, Recorded(s),
           Drawn(s) \/ NotDrawn
    PROVE  AuditInv'
  <1>1. PICK n : n = Newest
    OBVIOUS
  <1>2. /\ Written' = Written \cup {n} /\ n \notin Written /\ Len(parent') = n
        /\ \A v \in Written : parent'[v] = parent[v]
    BY <1>1, OneVersionMore DEF AuditInv
  <1>3. /\ sources' = Append(sources, s) /\ UNCHANGED <<supports, promotedTo>>
        /\ sources \in Seq(SUBSET Nat) /\ Len(sources) = Len(parent)
        /\ Written = 1..Len(sources) /\ n = Len(sources) + 1 /\ s \in SUBSET Nat
    <2>1. sources' = Append(sources, s) /\ UNCHANGED <<supports, promotedTo>>
      BY DEF Recorded
    <2>2. VersionSound /\ sources \in Seq(SUBSET Nat) /\ Len(sources) = Len(parent)
      BY DEF AuditInv, AuditKept
    <2> QED  BY <1>1, <2>1, <2>2, WrittenAre DEF Newest
  <1>4. /\ sources' \in Seq(SUBSET Nat) /\ Len(sources') = n /\ sources'[n] = s
        /\ \A v \in Written : sources'[v] = sources[v]
    BY <1>3, Grown
  <1>5. /\ relations \subseteq relations' /\ missed \subseteq missed'
        /\ n \in missed' \/ \A w \in s : <<n, "derived_from", w>> \in relations'
    <2>1. CASE Drawn(s)
      BY <1>1, <2>1 DEF Drawn, DerivationEdges
    <2>2. CASE NotDrawn
      BY <1>1, <2>2 DEF NotDrawn
    <2> QED  BY <2>1, <2>2
  <1>6. AuditKept'
    BY <1>2, <1>4 DEF AuditKept
  <1>7. Derivations'
    <2>1. ASSUME NEW v \in Written', NEW w \in sources'[v]
          PROVE  /\ w \in Written' /\ w # v
                 /\ v \notin missed' => <<v, "derived_from", w>> \in relations'
      <3>1. CASE v = n
        <4>1. w \in s /\ w \in Written
          BY <1>4, <2>1, <3>1
        <4> QED  BY <1>2, <1>5, <3>1, <4>1
      <3>2. CASE v \in Written
        <4>1. w \in sources[v]
          BY <1>4, <2>1, <3>2
        <4>2. w \in Written /\ w # v /\ (v \notin missed => <<v, "derived_from", w>> \in relations)
          BY <3>2, <4>1 DEF AuditInv, Derivations
        <4> QED  BY <1>2, <1>5, <4>2
      <3> QED  BY <1>2, <3>1, <3>2
    <2> QED  BY <2>1 DEF Derivations
  <1>8. Supported' /\ PromotedFirst'
    <2>1. supports \subseteq Evidence \X Written /\ \A v \in promotedTo : v \in Written /\ parent[v] = 0
      BY DEF AuditInv, Supported, PromotedFirst
    <2>2. supports' \subseteq Evidence \X Written'
      BY <1>2, <1>3, <2>1
    <2>3. \A v \in promotedTo' : v \in Written' /\ parent'[v] = 0
      BY <1>2, <1>3, <2>1
    <2> QED  BY <2>2, <2>3 DEF Supported, PromotedFirst
  <1> QED  BY <1>6, <1>7, <1>8 DEF AuditInv

LEMMA WritesKeep ==
    ASSUME AuditInv, NEW s \in {{}} \cup {{w} : w \in Written},
           WriteFirst(s) \/ \E p \in Written : WriteFrom(p, s)
    PROVE  AuditInv'
  <1>1. VersionSound /\ s \in SUBSET Written
    BY DEF AuditInv
  <1>2. CASE WriteFirst(s)
    <2>1. (First \/ FirstUnseen) /\ Recorded(s) /\ (Drawn(s) \/ NotDrawn)
      BY <1>2 DEF WriteFirst
    <2>2. VersionSound'
      BY <1>1, <2>1, VersionSoundKept DEF VersionNext
    <2>3. Record(0)
      BY <2>1 DEF First, FirstUnseen
    <2>4. PICK p : p = 0
      OBVIOUS
    <2>5. parent' = Append(parent, p) /\ p \in {0} \cup Written
      BY <2>3, <2>4 DEF Record
    <2> QED  BY <1>1, <2>1, <2>2, <2>5, AuditWrites
  <1>3. ASSUME NEW p \in Written, WriteFrom(p, s)  PROVE  AuditInv'
    <2>1. /\ Update(p) \/ UpdateUnseen(p) \/ UpdateHalf(p) \/ Strand(p)
          /\ Recorded(s) /\ (Drawn(s) \/ NotDrawn)
      BY <1>3 DEF WriteFrom
    <2>2. VersionSound'
      BY <1>1, <2>1, VersionSoundKept DEF VersionNext
    <2>3. Record(p)
      BY <2>1 DEF Update, UpdateUnseen, UpdateHalf, Strand
    <2>4. parent' = Append(parent, p)
      BY <2>3 DEF Record
    <2> QED  BY <1>1, <2>1, <2>2, <2>4, AuditWrites
  <1> QED  BY <1>2, <1>3

(* A rebuild draws the edges of every record. *)
LEMMA ConnectedKeeps == AuditInv /\ Connected => AuditInv'
  <1> SUFFICES ASSUME AuditInv, Connected  PROVE  AuditInv'
    OBVIOUS
  <1>1. VersionSound'
    BY VersionSoundKept DEF AuditInv, Connected, VersionNext
  <1>2. /\ UNCHANGED <<parent, sources, supports, promotedTo>> /\ relations \subseteq relations'
        /\ missed' = missed
           \/ \A v \in Written : \A w \in sources[v] : <<v, "derived_from", w>> \in relations'
    <2>1. CASE Reload /\ UNCHANGED auditOwnVars
      BY <2>1 DEF Reload, auditOwnVars
    <2>2. CASE ~(Reload /\ UNCHANGED auditOwnVars)
      <3>1. /\ UNCHANGED <<parent, sources, supports, promotedTo>>
            /\ relations' = relations \cup UNION {DerivationEdges(v, sources[v]) : v \in Written}
        BY <2>2 DEF Connected, Rebuild
      <3>2. ASSUME NEW v \in Written, NEW w \in sources[v]
            PROVE  <<v, "derived_from", w>> \in relations'
        <4>1. <<v, "derived_from", w>> \in DerivationEdges(v, sources[v])
          BY DEF DerivationEdges
        <4> QED  BY <3>1, <4>1
      <3> QED  BY <3>1, <3>2
    <2> QED  BY <2>1, <2>2
  <1>3. Written' = Written
    BY <1>2 DEF Written
  <1>4. Derivations'
    <2>1. ASSUME NEW v \in Written, NEW w \in sources[v]
          PROVE  /\ w \in Written /\ w # v
                 /\ v \notin missed' => <<v, "derived_from", w>> \in relations'
      BY <1>2 DEF AuditInv, Derivations
    <2> QED  BY <1>2, <1>3, <2>1 DEF Derivations
  <1> QED  BY <1>1, <1>2, <1>3, <1>4 DEF AuditInv, AuditKept, Supported, PromotedFirst

LEMMA FactsKeep ==
    ASSUME AuditInv, UNCHANGED <<versionVars, sources, missed>>, relations \subseteq relations',
           supports' \subseteq supports \cup (Evidence \X Written),
           promotedTo' \subseteq promotedTo \cup {v \in Written : parent[v] = 0}
    PROVE  AuditInv'
  <1>1. UNCHANGED <<parent, sources, missed>> /\ Written' = Written
    BY DEF versionVars, Written
  <1>2. VersionSound'
    BY VersionSoundKept DEF AuditInv
  <1>3. AuditKept' /\ Derivations'
    BY <1>1 DEF AuditInv, AuditKept, Derivations
  <1>4. Supported' /\ PromotedFirst'
    BY <1>1 DEF AuditInv, Supported, PromotedFirst
  <1> QED  BY <1>2, <1>3, <1>4 DEF AuditInv

LEMMA AuditInductive == AuditInv /\ [AuditNext]_auditVars => AuditInv'
  <1> SUFFICES ASSUME AuditInv, [AuditNext]_auditVars  PROVE  AuditInv'
    OBVIOUS
  <1>1. ASSUME NEW s \in {{}} \cup {{w} : w \in Written},
               WriteFirst(s) \/ \E p \in Written : WriteFrom(p, s)
        PROVE  AuditInv'
    BY <1>1, WritesKeep
  <1>2. CASE Connected
    BY <1>2, ConnectedKeeps
  <1>3. ASSUME NEW v \in Written, PromoteInto(v)  PROVE  AuditInv'
    BY <1>3, FactsKeep DEF PromoteInto, Fact
  <1>4. ASSUME NEW v \in Written, NEW e \in Evidence, Attach(e, v)  PROVE  AuditInv'
    BY <1>4, FactsKeep DEF Attach, Fact
  <1>5. ASSUME NEW v \in Written, NEW w \in Written, Contradict(v, w)  PROVE  AuditInv'
    BY <1>5, FactsKeep DEF Contradict, Fact
  <1>6. CASE UNCHANGED auditVars
    BY <1>6, FactsKeep DEF auditVars, auditOwnVars
  <1> QED  BY <1>1, <1>2, <1>3, <1>4, <1>5, <1>6 DEF AuditNext

(* By what a version was superseded, on disk and as far as it is indexed. *)
LEMMA SupersededIs ==
    ASSUME VersionSound, NEW v \in Written
    PROVE  /\ IF sidecar[v] = 0
              THEN \A w \in Written : parent[w] = v => w \in stranded
              ELSE NewestOf(Written \ stranded, v, sidecar[v])
           /\ Superseded(v) <=> \E w \in Written : parent[w] = v /\ w \notin stranded \ indexed
           /\ sidecar[v] \in indexed => Result(v) # "current"
  <1>1. /\ v # 0 /\ 0 \notin indexed
        /\ \A w \in indexed : w \in Written /\ Link(w) = parent[w]
        /\ \A w \in Written : Link(w) = v => w \in indexed /\ parent[w] = v
    <2>1. indexed \subseteq Written /\ 0 \notin Written
      BY WrittenAre DEF VersionSound
    <2> QED  BY <2>1, WrittenAre DEF Link
  <1>2. PICK b : b = sidecar[v]
    OBVIOUS
  <1>3. IF b = 0
        THEN \A w \in Written \ stranded : parent[w] # v
        ELSE /\ b \in Written \ stranded /\ parent[b] = v
             /\ \A w \in Written \ stranded : parent[w] = v => w <= b
    BY <1>2 DEF VersionSound, Names, Written
  <1>4. IF b = 0
        THEN \A w \in Written : parent[w] = v => w \in stranded
        ELSE NewestOf(Written \ stranded, v, b)
    BY <1>3 DEF NewestOf
  <1>5. Children(v) # {} <=> \E w \in indexed : parent[w] = v
    BY <1>1 DEF Children
  <1>6. Superseded(v) <=> \E w \in Written : parent[w] = v /\ w \notin stranded \ indexed
    <2>1. Superseded(v) <=> (\E w \in indexed : parent[w] = v) \/ b # 0
      BY <1>2, <1>5 DEF Superseded
    <2>2. b # 0 <=> \E w \in Written : parent[w] = v /\ w \notin stranded
      BY <1>3
    <2> QED  BY <1>1, <2>1, <2>2
  <1>7. b \in indexed => Result(v) # "current"
    <2>1. ASSUME b \in indexed  PROVE  Result(v) # "current"
      <3>1. Children(v) # {}
        BY <1>1, <1>3, <1>5, <2>1
      <3> QED  BY <3>1 DEF Result
    <2> QED  BY <2>1
  <1> QED  BY <1>2, <1>4, <1>6, <1>7

LEMMA AuditImplied == AuditInv => AuditTells
  <1> SUFFICES ASSUME AuditInv  PROVE  AuditTells
    OBVIOUS
  <1>1. VersionSound /\ DOMAIN sources = Written /\ 0 \notin Written
    <2>1. VersionSound /\ Len(sources) = Len(parent) /\ sources \in Seq(SUBSET Nat)
      BY DEF AuditInv, AuditKept
    <2> QED  BY <2>1, WrittenAre, LenProperties
  <1>2. ASSUME NEW v \in Written, NEW w \in Written
        PROVE  /\ v \in {w} \cup Descendants(w) <=> w \in AuditPath(v)
               /\ v \in Descendants(w) <=> w \in ToSet(Ancestors(v))
    <2>1. Descendants(w) = {x \in Written : w \in AuditPath(x)} \ {w}
      BY <1>1, DescendantsAre
    <2>2. ToSet(Ancestors(v)) = AuditPath(v) \ {v}
      BY <1>1, PathSound
    <2>3. v \in AuditPath(v)
      BY <1>1, AuditPathIs
    <2> QED  BY <2>1, <2>2, <2>3
  <1>3. ASSUME NEW v \in Written
        PROVE  AuditEvidence(v) = {ev \in supports : v \in {ev[2]} \cup Descendants(ev[2])}
    <2>1. AuditPath(v) \subseteq Written
      BY <1>1, PathSound
    <2>2. ASSUME NEW e \in Evidence, NEW w \in Written
          PROVE  <<e, w>> \in AuditEvidence(v) <=>
                    <<e, w>> \in supports /\ v \in {w} \cup Descendants(w)
      BY <1>2 DEF AuditEvidence, EvidenceFor
    <2>3. AuditEvidence(v) \subseteq Evidence \X Written
      BY <2>1 DEF AuditEvidence
    <2>4. supports \subseteq Evidence \X Written
      BY DEF AuditInv, Supported
    <2>5. ASSUME NEW ev \in Evidence \X Written
          PROVE  ev \in AuditEvidence(v) <=>
                    ev \in supports /\ v \in {ev[2]} \cup Descendants(ev[2])
      <3>1. PICK e \in Evidence, w \in Written : ev = <<e, w>>
        OBVIOUS
      <3>2. ev[2] = w
        BY <3>1
      <3> QED  BY <2>2, <3>1, <3>2
    <2> QED  BY <2>3, <2>4, <2>5
  <1>4. ASSUME NEW v \in Written
        PROVE  (AuditProposal(v) # {}) = (VersionRoot(v) \in promotedTo)
    <2>1. LineageNodes(v) = {w \in Written : VersionRoot(w) = VersionRoot(v)}
      BY <1>1, LineageNodesAre
    <2>2. VersionRoot(v) \in LineageNodes(v)
      BY DEF LineageNodes
    <2>3. ASSUME NEW w \in promotedTo \cap LineageNodes(v)  PROVE  w = VersionRoot(v)
      <3>1. w \in Written /\ Link(w) = 0
        BY <2>3 DEF AuditInv, PromotedFirst, Link
      <3>2. VersionRoot(w) = w
        BY <1>1, <3>1, RootIs
      <3> QED  BY <2>1, <2>3, <3>2
    <2> QED  BY <2>2, <2>3 DEF AuditProposal
  <1>5. ASSUME NEW v \in Written, v \notin missed  PROVE  sources[v] \subseteq CameBefore(v)
    BY <1>5 DEF AuditInv, Derivations, CameBefore, Referred
  <1>6. ASSUME NEW v \in Written, NEW w \in Written
        PROVE  /\ w \in CameBefore(v) <=> v \in DerivedFrom(w)
               /\ w \in ConflictsOf(v) <=> v \in ConflictsOf(w)
    <2>1. w \in CameBefore(v) <=> v \in DerivedFrom(w)
      BY <1>2 DEF CameBefore, DerivedFrom, Referred, Referring
    <2>2. w \in ConflictsOf(v) <=> v \in ConflictsOf(w)
      BY DEF ConflictsOf, Referred, Referring
    <2> QED  BY <2>1, <2>2
  <1>7. ASSUME NEW v
        PROVE  /\ AuditOf(v).evidence = AuditEvidence(v) /\ AuditOf(v).proposal = AuditProposal(v)
               /\ AuditOf(v).root = VersionRoot(v) /\ AuditOf(v).superseded = Superseded(v)
               /\ AuditOf(v).by = sidecar[v] /\ AuditOf(v).result = Result(v)
               /\ AuditOf(v).derivedFrom = sources[v] /\ AuditOf(v).conflicts = ConflictsOf(v)
    BY DEF AuditOf
  <1>8. ASSUME NEW v \in Written
        PROVE  /\ IF sidecar[v] = 0
                  THEN \A w \in Written : parent[w] = v => w \in stranded
                  ELSE NewestOf(Written \ stranded, v, sidecar[v])
               /\ Superseded(v) = (\E w \in Written : parent[w] = v /\ w \notin stranded \ indexed)
               /\ sidecar[v] \in indexed => Result(v) # "current"
    <2>1. Superseded(v) \in BOOLEAN
      BY DEF Superseded
    <2> QED  BY <1>1, <2>1, SupersededIs
  <1>9. ASSUME NEW v \in Written, NEW a, a = AuditOf(v), NEW before, before = CameBefore(v)
        PROVE  /\ a.evidence = {ev \in supports : v \in {ev[2]} \cup Descendants(ev[2])}
               /\ (a.proposal # {}) = (a.root \in promotedTo)
               /\ IF a.by = 0
                  THEN \A w \in Written : parent[w] = v => w \in stranded
                  ELSE NewestOf(Written \ stranded, v, a.by)
               /\ a.superseded = (\E w \in Written : parent[w] = v /\ w \notin stranded \ indexed)
               /\ a.by \in indexed => a.result # "current"
               /\ v \notin missed => a.derivedFrom \subseteq before
               /\ \A w \in Written : /\ w \in before <=> v \in DerivedFrom(w)
                                     /\ w \in a.conflicts <=> v \in ConflictsOf(w)
    <2>1. /\ a.evidence = AuditEvidence(v) /\ a.proposal = AuditProposal(v)
          /\ a.root = VersionRoot(v) /\ a.superseded = Superseded(v)
          /\ a.by = sidecar[v] /\ a.result = Result(v)
          /\ a.derivedFrom = sources[v] /\ a.conflicts = ConflictsOf(v)
      BY <1>7, <1>9
    <2>2. /\ a.evidence = {ev \in supports : v \in {ev[2]} \cup Descendants(ev[2])}
          /\ (a.proposal # {}) = (a.root \in promotedTo)
      BY <1>3, <1>4, <2>1
    <2>3. /\ v \notin missed => a.derivedFrom \subseteq before
          /\ \A w \in Written : /\ w \in before <=> v \in DerivedFrom(w)
                                /\ w \in a.conflicts <=> v \in ConflictsOf(w)
      BY <1>5, <1>6, <1>9, <2>1
    <2>4. /\ IF a.by = 0
             THEN \A w \in Written : parent[w] = v => w \in stranded
             ELSE NewestOf(Written \ stranded, v, a.by)
          /\ a.superseded = (\E w \in Written : parent[w] = v /\ w \notin stranded \ indexed)
          /\ a.by \in indexed => a.result # "current"
      BY <1>8, <2>1
    <2> QED  BY ONLY <2>2, <2>3, <2>4
  <1> QED  BY <1>1, <1>9 DEF AuditTells

(* An audit tells what was written and nothing else, whichever of the       *)
(* stores it is read from and whatever faults, failed callbacks and other   *)
(* handles left out: the evidence of the versions it was made from and of   *)
(* no other branch, the proposal that promoted the first version, by what   *)
(* it was superseded, and what came before it as seen from both ends.       *)
THEOREM AuditsTellWhatWasWritten == AuditSpec => []AuditTells
  <1> QED  BY AuditStarts, AuditInductive, AuditImplied, PTL DEF AuditSpec


-----------------------------------------------------------------------------
(* What an agent is told. *)

LEMMA SetOfBoth ==
    ASSUME NEW E, NEW s \in Seq(E), NEW t \in Seq(E)
    PROVE  s \o t \in Seq(E) /\ ToSet(s \o t) = ToSet(s) \cup ToSet(t)
  <1>1. PICK u : u = s \o t
    OBVIOUS
  <1>2. /\ u \in Seq(E) /\ Len(u) = Len(s) + Len(t) /\ Len(s) \in Nat /\ Len(t) \in Nat
        /\ \A n \in 1..Len(u) : u[n] = IF n <= Len(s) THEN s[n] ELSE t[n - Len(s)]
    BY <1>1, ConcatProperties, LenProperties
  <1>3. DOMAIN u = 1..Len(u) /\ DOMAIN s = 1..Len(s) /\ DOMAIN t = 1..Len(t)
    BY <1>2, LenProperties
  <1>4. ASSUME NEW n \in 1..Len(u)  PROVE  u[n] \in ToSet(s) \cup ToSet(t)
    <2>1. CASE n <= Len(s)
      BY <1>2, <1>3, <2>1 DEF ToSet
    <2>2. CASE ~(n <= Len(s))
      <3>1. n - Len(s) \in 1..Len(t)
        BY <1>2, <2>2
      <3> QED  BY <1>2, <1>3, <2>2, <3>1 DEF ToSet
    <2> QED  BY <2>1, <2>2
  <1>5. ASSUME NEW n \in 1..Len(s)  PROVE  s[n] \in ToSet(u)
    <2>1. n \in 1..Len(u) /\ n <= Len(s)
      BY <1>2
    <2> QED  BY <1>2, <1>3, <2>1 DEF ToSet
  <1>6. ASSUME NEW n \in 1..Len(t)  PROVE  t[n] \in ToSet(u)
    <2>1. /\ n + Len(s) \in 1..Len(u) /\ ~(n + Len(s) <= Len(s))
          /\ (n + Len(s)) - Len(s) = n
      BY <1>2
    <2> QED  BY <1>2, <1>3, <2>1 DEF ToSet
  <1>7. ToSet(u) \subseteq ToSet(s) \cup ToSet(t)
    BY <1>3, <1>4 DEF ToSet
  <1>8. ToSet(s) \cup ToSet(t) \subseteq ToSet(u)
    BY <1>3, <1>5, <1>6 DEF ToSet
  <1> QED  BY <1>1, <1>2, <1>7, <1>8

LEMMA SetOfOne ==
    ASSUME NEW E, NEW e \in E
    PROVE  <<e>> \in Seq(E) /\ Len(<<e>>) = 1 /\ <<e>>[1] = e /\ ToSet(<<e>>) = {e}
  <1>1. <<e>> \in Seq(E) /\ Len(<<e>>) = 1 /\ <<e>>[1] = e
    OBVIOUS
  <1>2. DOMAIN <<e>> = {1}
    BY <1>1
  <1> QED  BY <1>1, <1>2 DEF ToSet

(* A sequence cut in two at k. *)
LEMMA SetOfParts ==
    ASSUME NEW E, NEW s \in Seq(E), NEW k \in 1..(Len(s) + 1)
    PROVE  /\ SubSeq(s, 1, k - 1) \in Seq(E) /\ SubSeq(s, k, Len(s)) \in Seq(E)
           /\ ToSet(SubSeq(s, 1, k - 1)) \cup ToSet(SubSeq(s, k, Len(s))) = ToSet(s)
  <1>1. PICK a, b : a = SubSeq(s, 1, k - 1) /\ b = SubSeq(s, k, Len(s))
    OBVIOUS
  <1>2. Len(s) \in Nat /\ DOMAIN s = 1..Len(s) /\ \A n \in 1..Len(s) : s[n] \in E
    BY LenProperties, ElementOfSeq
  <1>3. /\ a \in Seq(E) /\ Len(a) = k - 1 /\ \A n \in 1..Len(a) : a[n] = s[n]
    <2>1. /\ k - 1 \in (1 - 1)..Len(s) /\ 1 \in 1..(Len(s) + 1) /\ (k - 1) - 1 + 1 = k - 1
          /\ 1 <= (k - 1) + 1 /\ \A n \in 1..(k - 1) : 1 + n - 1 = n
          /\ \A n \in 1..(k - 1) : s[n] \in E /\ n \in 1..Len(s)
      BY <1>2
    <2>2. a = [n \in 1..(k - 1) |-> s[n]]
      BY <1>1, <1>2, <2>1
    <2>3. k - 1 \in Nat
      OBVIOUS
    <2> QED  BY <2>1, <2>2, <2>3
  <1>4. /\ b \in Seq(E) /\ Len(b) = Len(s) - k + 1 /\ \A n \in 1..Len(b) : b[n] = s[k + n - 1]
    <2>1. Len(s) - k + 1 \in Nat /\ \A n \in 1..(Len(s) - k + 1) : k + n - 1 \in 1..Len(s)
      BY <1>2
    <2>2. b = [n \in 1..(Len(s) - k + 1) |-> s[k + n - 1]]
      BY <1>1, <1>2
    <2> QED  BY <1>2, <2>1, <2>2
  <1>5. DOMAIN a = 1..(k - 1) /\ DOMAIN b = 1..(Len(s) - k + 1)
    BY <1>3, <1>4, LenProperties
  <1>6. ASSUME NEW n \in 1..Len(s)  PROVE  s[n] \in ToSet(a) \cup ToSet(b)
    <2>1. CASE n < k
      <3>1. n \in 1..(k - 1)
        BY <1>2, <2>1
      <3> QED  BY <1>3, <1>5, <3>1 DEF ToSet
    <2>2. CASE ~(n < k)
      <3>1. n - k + 1 \in 1..(Len(s) - k + 1) /\ k + (n - k + 1) - 1 = n
        BY <1>2, <2>2
      <3> QED  BY <1>4, <1>5, <3>1 DEF ToSet
    <2> QED  BY <2>1, <2>2
  <1>7. ToSet(a) \subseteq ToSet(s)
    <2>1. \A n \in 1..(k - 1) : n \in 1..Len(s)
      BY <1>2
    <2> QED  BY <1>2, <1>3, <1>5, <2>1 DEF ToSet
  <1>8. ToSet(b) \subseteq ToSet(s)
    <2>1. \A n \in 1..(Len(s) - k + 1) : k + n - 1 \in 1..Len(s)
      BY <1>2
    <2> QED  BY <1>2, <1>4, <1>5, <2>1 DEF ToSet
  <1>9. ToSet(s) \subseteq ToSet(a) \cup ToSet(b)
    BY <1>2, <1>6 DEF ToSet
  <1> QED  BY <1>1, <1>3, <1>4, <1>7, <1>8, <1>9

(* What the timeline is given is in it, and nothing else is added or lost. *)
LEMMA InLineIs ==
    ASSUME NEW s \in Seq(Nat), NEW i \in Nat
    PROVE  InLine(s, i) \in Seq(Nat) /\ ToSet(InLine(s, i)) = ToSet(s) \cup {i}
  <1>1. PICK B : B = {n \in DOMAIN s : s[n] <= i}
    OBVIOUS
  <1>2. PICK k : k = 1 + Cardinality(B)
    OBVIOUS
  <1>3. Len(s) \in Nat /\ B \subseteq 1..Len(s)
    BY <1>1, LenProperties
  <1>4. k \in 1..(Len(s) + 1)
    <2>1. IsFiniteSet(1..Len(s)) /\ Cardinality(1..Len(s)) = Len(s)
      <3>1. PICK L : L = Len(s)
        OBVIOUS
      <3>2. L \in Int /\ 1 \in Int /\ (1 > L => L = 0) /\ L - 1 + 1 = L
        BY <1>3, <3>1
      <3>3. IsFiniteSet(1..L) /\ Cardinality(1..L) = IF 1 > L THEN 0 ELSE L - 1 + 1
        BY ONLY <3>2, FS_Interval
      <3> QED  BY <3>1, <3>2, <3>3
    <2>2. Cardinality(B) <= Len(s) /\ Cardinality(B) \in Nat
      BY <1>3, <2>1, FS_Subset, FS_CardinalityType
    <2> QED  BY <1>2, <1>3, <2>2
  <1>5. PICK a, b : a = SubSeq(s, 1, k - 1) /\ b = SubSeq(s, k, Len(s))
    OBVIOUS
  <1>6. InLine(s, i) = (a \o <<i>>) \o b
    <2>1. InLine(s, i) = InsertAt(s, k, i)
      BY <1>1, <1>2 DEF InLine
    <2> QED  BY <1>5, <2>1 DEF InsertAt
  <1>7. a \in Seq(Nat) /\ b \in Seq(Nat) /\ ToSet(a) \cup ToSet(b) = ToSet(s)
    BY <1>4, <1>5, SetOfParts
  <1>8. PICK one, c, E : one = <<i>> /\ c = a \o one /\ E = Nat
    OBVIOUS
  <1>9. one \in Seq(E) /\ ToSet(one) = {i}
    BY <1>8, SetOfOne
  <1>10. a \in Seq(E) /\ b \in Seq(E)
    BY <1>7, <1>8
  <1>11. a \o one \in Seq(E) /\ ToSet(a \o one) = ToSet(a) \cup ToSet(one)
    BY ONLY <1>9, <1>10, SetOfBoth
  <1>12. c \in Seq(E) /\ ToSet(c) = ToSet(a) \cup {i}
    BY ONLY <1>8, <1>9, <1>11
  <1>13. c \o b \in Seq(E) /\ ToSet(c \o b) = ToSet(c) \cup ToSet(b)
    BY ONLY <1>10, <1>12, SetOfBoth
  <1> QED  BY ONLY <1>6, <1>7, <1>8, <1>12, <1>13

(* The states of the indexes, whatever was lost of them. *)
IndexStates ==
    [master : SUBSET Nat, line : Seq(Nat), vector : SUBSET Nat, dim : Nat, text : SUBSET Nat]

(* Record i is found by its words and on the timeline, and no other is lost. *)
Indexes(ix, i, w) ==
    /\ IndexRecord(ix, i, w) \in IndexStates
    /\ IndexRecord(ix, i, w).text = ix.text \cup {i}
    /\ ToSet(IndexRecord(ix, i, w).line) = ToSet(ix.line) \cup {i}

LEMMA IndexRecordIs ==
    ASSUME NEW ix \in IndexStates, NEW i \in Nat, NEW w \in Nat
    PROVE  Indexes(ix, i, w)
  <1>1. PICK line : line = InLine(ix.line, i)
    OBVIOUS
  <1>2. line \in Seq(Nat) /\ ToSet(line) = ToSet(ix.line) \cup {i}
    <2>1. ix.line \in Seq(Nat)
      BY DEF IndexStates
    <2> QED  BY <1>1, <2>1, InLineIs
  <1>3. PICK listed : listed = [ix EXCEPT !.master = @ \cup {i}, !.line = line,
                                          !.text = @ \cup {i}]
    OBVIOUS
  <1>4. listed \in IndexStates /\ listed.text = ix.text \cup {i} /\ listed.line = line
    BY <1>2, <1>3 DEF IndexStates
  <1>5. IndexRecord(ix, i, w) = IF Fits(ix, w) THEN WithVector(listed, i, w) ELSE listed
    BY <1>1, <1>3 DEF IndexRecord
  <1>6. /\ WithVector(listed, i, w) \in IndexStates
        /\ WithVector(listed, i, w).text = listed.text
        /\ WithVector(listed, i, w).line = listed.line
    BY <1>4 DEF WithVector, IndexStates
  <1> QED  BY <1>2, <1>4, <1>5, <1>6 DEF Indexes

RecallTypes ==
    /\ memory \in Seq([matches : BOOLEAN, room : BOOLEAN, width : Nat, prev : Nat])
    /\ index \in IndexStates /\ saved \in IndexStates
    /\ width \in Nat

(* The records of ms are found by their words and on the timeline. *)
Found(ix, ms) == ms \subseteq ix.text /\ ms \subseteq ToSet(ix.line)

(* The last answer is exact; nothing it depends on has changed since. *)
Answered ==
    /\ \A i \in answer.ids : Live(i) /\ (answer.room => memory[i].room)
    /\ ~answer.cut =>
          {i \in expected : Live(i) /\ memory[i].matches /\ (answer.room => memory[i].room)}
             \subseteq answer.ids

(* What this connection wrote is in its indexes, and what was there at a    *)
(* checkpoint that completed is in those on disk, until one is cut short.   *)
RecallInv ==
    /\ RecallTypes
    /\ open => Found(index, expected)
    /\ Found(saved, kept)
    /\ Answered

LEMMA RebuiltIs ==
    ASSUME RecallTypes
    PROVE  Rebuilt \in IndexStates /\ Found(Rebuilt, Ids)
  <1>1. PICK L : L = Len(memory)
    OBVIOUS
  <1>2. /\ L \in Nat /\ Ids = 1..L /\ saved \in IndexStates
        /\ \A n \in 1..L : memory[n].width \in Nat
    <2>1. L \in Nat /\ Ids = 1..L /\ saved \in IndexStates
      BY <1>1, LenProperties DEF RecallTypes, Ids
    <2>2. ASSUME NEW n \in 1..L  PROVE  memory[n].width \in Nat
      <3>1. memory[n] \in [matches : BOOLEAN, room : BOOLEAN, width : Nat, prev : Nat]
        BY <1>1, ElementOfSeq DEF RecallTypes
      <3> QED  BY <3>1
    <2> QED  BY <2>1, <2>2
  <1> DEFINE S == IndexStates
             One(u, n) == IF n = 0 THEN saved ELSE IndexRecord(u[n - 1], n, memory[n].width)
  <1>3. PICK F : F = [u \in [0..L -> S] |-> [n \in 0..L |-> One(u, n)]]
    OBVIOUS
  <1>4. ASSUME NEW u \in [0..L -> S], NEW n \in 0..L  PROVE  One(u, n) \in S
    <2>1. CASE n = 0
      BY <1>2, <2>1
    <2>2. CASE n # 0
      <3>1. n - 1 \in 0..L /\ n \in 1..L /\ n \in Nat
        BY <1>2, <2>2
      <3>2. PICK ix, w : ix = u[n - 1] /\ w = memory[n].width
        OBVIOUS
      <3>3. ix \in IndexStates /\ w \in Nat
        BY <1>2, <3>1, <3>2
      <3>4. IndexRecord(ix, n, w) \in IndexStates
        BY ONLY <3>1, <3>3, IndexRecordIs DEF Indexes
      <3> QED  BY <2>2, <3>2, <3>4
    <2> QED  BY <2>1, <2>2
  <1>5. Progressive(F, 0..L, S)
    <2>1. F \in [[0..L -> S] -> [0..L -> S]]
      BY <1>3, <1>4
    <2>2. ASSUME NEW u \in [0..L -> S], NEW x \in [0..L -> S], NEW n \in 0..L,
                 \A k \in 0..L : k < n => u[k] = x[k]
          PROVE  F[u][n] = F[x][n]
      <3>1. F[u][n] = One(u, n) /\ F[x][n] = One(x, n)
        BY <1>3
      <3>2. CASE n = 0
        BY <3>1, <3>2
      <3>3. CASE n # 0
        <4>1. n - 1 \in 0..L /\ n - 1 < n
          BY <1>2, <3>3
        <4>2. u[n - 1] = x[n - 1]
          BY <2>2, <4>1
        <4> QED  BY <3>1, <4>2
      <3> QED  BY <3>2, <3>3
    <2> QED  BY <2>1, <2>2 DEF Progressive
  <1>6. PICK g0 \in [0..L -> S] : F[g0] = g0
    <2>1. PICK R, D : R = S /\ D = 0..L
      OBVIOUS
    <2>2. saved \in R
      BY <1>2, <2>1
    <2>3. R # {} /\ D \subseteq 0..L /\ Progressive(F, D, R) /\ L \in Nat
      BY <1>2, <1>5, <2>1, <2>2
    <2>4. HasFixpoint(F, D, R)
      BY ONLY <2>3, Recursive
    <2> QED  BY <2>1, <2>4 DEF HasFixpoint
  <1>7. g0 = [n \in 0..L |-> One(g0, n)]
    BY <1>3, <1>6
  <1> DEFINE Read == CHOOSE f : f = [n \in 0..L |-> One(f, n)]
  <1>8. Read = [n \in 0..L |-> One(Read, n)]
    BY <1>7
  <1>9. Rebuilt = Read[L]
    BY <1>1 DEF Rebuilt
  <1>10. PICK g : g = Read
    OBVIOUS
  <1>11. \A n \in 0..L : g[n] = One(g, n)
    <2>1. g = [n \in 0..L |-> One(g, n)]
      BY <1>8, <1>10
    <2> QED  BY ONLY <2>1
  <1> DEFINE T == {n \in Nat : n <= L => g[n] \in IndexStates /\ Found(g[n], 1..n)}
  <1>12. 0 \in T
    <2>1. 0 \in 0..L
      BY <1>2
    <2>2. g[0] = saved
      BY <1>11, <2>1
    <2>3. Found(saved, 1..0)
      BY DEF Found
    <2> QED  BY <1>2, <2>2, <2>3
  <1>13. ASSUME NEW n \in Nat, n \in T  PROVE  n + 1 \in T
    <2> SUFFICES ASSUME n + 1 <= L
                 PROVE  g[n + 1] \in IndexStates /\ Found(g[n + 1], 1..(n + 1))
      OBVIOUS
    <2>1. PICK m : m = n + 1
      OBVIOUS
    <2>2. m \in 0..L /\ m \in 1..L /\ m # 0 /\ m - 1 = n /\ n <= L /\ m \in Nat
          /\ 1..m \subseteq 1..n \cup {m}
      BY <1>2, <2>1
    <2>3. PICK ix, w : ix = g[n] /\ w = memory[m].width
      OBVIOUS
    <2>4. ix \in IndexStates /\ Found(ix, 1..n) /\ w \in Nat
      BY <1>2, <1>13, <2>2, <2>3
    <2>5. g[m] = IndexRecord(ix, m, w)
      BY <1>11, <2>2, <2>3
    <2>6. /\ g[m] \in IndexStates /\ g[m].text = ix.text \cup {m}
          /\ ToSet(g[m].line) = ToSet(ix.line) \cup {m}
      <3>1. Indexes(ix, m, w)
        BY ONLY <2>2, <2>4, IndexRecordIs
      <3> QED  BY ONLY <2>5, <3>1 DEF Indexes
    <2>7. Found(g[m], 1..m)
      BY ONLY <2>2, <2>4, <2>6 DEF Found
    <2> QED  BY <2>1, <2>6, <2>7
  <1>14. \A n \in Nat : n \in T
    <2> HIDE DEF T
    <2> QED  BY <1>12, <1>13, Induction
  <1>15. g[L] \in IndexStates /\ Found(g[L], 1..L)
    <2>1. L \in T /\ L <= L
      BY <1>2, <1>14
    <2> QED  BY <2>1
  <1> QED  BY <1>2, <1>9, <1>10, <1>15

LEMMA RecallStarts == RecallInit => RecallInv
  <1> SUFFICES ASSUME RecallInit  PROVE  RecallInv
    OBVIOUS
  <1>1. Empty \in IndexStates
    BY DEF Empty, IndexStates
  <1>2. RecallTypes
    BY <1>1 DEF RecallInit, RecallTypes
  <1>3. Found(index, expected) /\ Found(saved, kept)
    BY DEF RecallInit, Found
  <1>4. Answered
    BY DEF RecallInit, Answered, NoAnswer
  <1> QED  BY <1>2, <1>3, <1>4 DEF RecallInv

(* What changes anything an answer depends on takes the answer away. *)
LEMMA NothingAnswered == answer' = NoAnswer => Answered'
  BY DEF Answered, NoAnswer

LEMMA StoreKeeps ==
    ASSUME RecallInv, NEW m \in [matches : BOOLEAN, room : BOOLEAN, width : Nat, prev : Nat],
           Store(m)
    PROVE  RecallInv'
  <1>1. PICK i, w : i = Len(memory) + 1 /\ w = m.width
    OBVIOUS
  <1>2. /\ open /\ open' = open /\ saved' = saved /\ kept' = kept /\ width' = width
        /\ memory' = Append(memory, m) /\ index' = IndexRecord(index, i, w)
        /\ expected' = expected \cup {i} /\ answer' = NoAnswer
    BY <1>1 DEF Store
  <1>3. /\ memory \in Seq([matches : BOOLEAN, room : BOOLEAN, width : Nat, prev : Nat])
        /\ index \in IndexStates /\ saved \in IndexStates /\ width \in Nat
        /\ Found(index, expected) /\ Found(saved, kept)
    BY <1>2 DEF RecallInv, RecallTypes
  <1>4. i \in Nat /\ w \in Nat
    BY <1>1, <1>3, LenProperties
  <1>5. /\ index' \in IndexStates /\ index'.text = index.text \cup {i}
        /\ ToSet(index'.line) = ToSet(index.line) \cup {i}
    <2>1. PICK ix : ix = index
      OBVIOUS
    <2>2. Indexes(ix, i, w)
      BY ONLY <1>3, <1>4, <2>1, IndexRecordIs
    <2> QED  BY ONLY <1>2, <2>1, <2>2 DEF Indexes
  <1>6. memory' \in Seq([matches : BOOLEAN, room : BOOLEAN, width : Nat, prev : Nat])
    BY <1>2, <1>3, AppendProperties
  <1>7. RecallTypes'
    BY <1>2, <1>3, <1>5, <1>6 DEF RecallTypes
  <1>8. Found(index, expected)' /\ Found(saved, kept)'
    BY ONLY <1>2, <1>3, <1>5 DEF Found
  <1> QED  BY <1>2, <1>7, <1>8, NothingAnswered DEF RecallInv

LEMMA AnswerKeeps ==
    ASSUME RecallInv, NEW ids, NEW room, NEW cut, Answer(ids, room, cut),
           \A i \in ids : Live(i) /\ (room => memory[i].room),
           ~cut => {i \in expected : Live(i) /\ memory[i].matches /\ (room => memory[i].room)}
                      \subseteq ids
    PROVE  RecallInv'
  <1>1. /\ answer'.ids = ids /\ answer'.room = room /\ answer'.cut = cut
        /\ UNCHANGED <<memory, forgotten, index, saved, width, open, expected, kept>>
    BY DEF Answer
  <1>2. ASSUME NEW i  PROVE  Live(i)' = Live(i)
    BY <1>1 DEF Live, Ids
  <1>3. Answered'
    BY <1>1, <1>2 DEF Answered
  <1> QED  BY <1>1, <1>3 DEF RecallInv, RecallTypes, Found

LEMMA BestAreHits ==
    ASSUME NEW n, NEW hits, NEW best \in Best(n, hits)
    PROVE  best \subseteq hits
  BY DEF Best, kSubset

LEMMA RecollectKeeps ==
    ASSUME RecallInv, NEW room \in BOOLEAN, NEW semantic \in BOOLEAN, Recollect(room, semantic)
    PROVE  RecallInv'
  <1>1. PICK text \in TextHits(2 * TopK),
             vector \in (IF semantic THEN VectorHits(2 * TopK) ELSE {{}}) :
          LET ranked == {i \in text \cup vector : Live(i) /\ (room => memory[i].room)}
          IN  \E ids \in Best(TopK, ranked) :
                 Answer(ids, room, text # TextMatches \/ ids # ranked)
    BY DEF Recollect
  <1>2. PICK ranked : ranked = {i \in text \cup vector : Live(i) /\ (room => memory[i].room)}
    OBVIOUS
  <1>3. PICK ids \in Best(TopK, ranked) : Answer(ids, room, text # TextMatches \/ ids # ranked)
    BY <1>1, <1>2
  <1>4. ids \subseteq ranked
    BY <1>3, BestAreHits
  <1>5. \A i \in ids : Live(i) /\ (room => memory[i].room)
    BY <1>2, <1>4
  <1>6. expected \subseteq index.text
    <2>1. open
      BY DEF Recollect
    <2> QED  BY ONLY RecallInv, <2>1 DEF RecallInv, Found
  <1>7. text = TextMatches /\ ids = ranked =>
          {i \in expected : Live(i) /\ memory[i].matches /\ (room => memory[i].room)}
             \subseteq ids
    BY <1>2, <1>6 DEF TextMatches
  <1>8. PICK cut : cut = (text # TextMatches \/ ids # ranked)
    OBVIOUS
  <1> QED  BY <1>3, <1>5, <1>7, <1>8, AnswerKeeps

LEMMA HybridKeeps == RecallInv /\ HybridSearch => RecallInv'
  <1> SUFFICES ASSUME RecallInv, HybridSearch  PROVE  RecallInv'
    OBVIOUS
  <1>1. PICK text \in TextHits(2 * TopK), vector \in VectorHits(2 * TopK) :
          \E best \in Best(TopK, text \cup vector) :
             Answer({i \in best : Live(i)}, FALSE,
                    text # TextMatches \/ best # text \cup vector)
    BY DEF HybridSearch
  <1>2. PICK best \in Best(TopK, text \cup vector) :
             Answer({i \in best : Live(i)}, FALSE,
                    text # TextMatches \/ best # text \cup vector)
    BY <1>1
  <1>3. PICK ids, room, cut : /\ ids = {i \in best : Live(i)} /\ room = FALSE
                              /\ cut = (text # TextMatches \/ best # text \cup vector)
    OBVIOUS
  <1>4. Answer(ids, room, cut) /\ \A i \in ids : Live(i) /\ (room => memory[i].room)
    BY <1>2, <1>3
  <1>5. expected \subseteq index.text
    <2>1. open
      BY DEF HybridSearch
    <2> QED  BY ONLY RecallInv, <2>1 DEF RecallInv, Found
  <1>6. ~cut => {i \in expected : Live(i) /\ memory[i].matches /\ (room => memory[i].room)}
                   \subseteq ids
    BY <1>3, <1>5 DEF TextMatches
  <1> QED  BY <1>4, <1>6, AnswerKeeps

LEMMA ConnectKeeps ==
    ASSUME RecallInv, NEW w \in Width, Connect(w)
    PROVE  RecallInv'
  <1>1. PICK rebuild : rebuild = (saved.master = {} /\ memory # <<>>)
    OBVIOUS
  <1>2. /\ width' = w /\ answer' = NoAnswer
        /\ index' = (IF rebuild THEN Rebuilt ELSE saved)
        /\ expected' = (IF rebuild THEN Ids ELSE kept)
        /\ UNCHANGED <<memory, forgotten, saved, kept>>
    BY <1>1 DEF Connect
  <1>3. Rebuilt \in IndexStates /\ Found(Rebuilt, Ids)
    BY RebuiltIs DEF RecallInv
  <1>4. saved \in IndexStates /\ Found(saved, kept) /\ w \in Nat
    BY DEF RecallInv, RecallTypes, Width
  <1>5. index' \in IndexStates /\ Found(index', expected')
    BY ONLY <1>2, <1>3, <1>4
  <1>6. RecallTypes'
    BY <1>2, <1>4, <1>5 DEF RecallInv, RecallTypes
  <1>7. Found(index, expected)' /\ Found(saved, kept)'
    BY <1>2, <1>4, <1>5 DEF Found
  <1> QED  BY <1>2, <1>6, <1>7, NothingAnswered DEF RecallInv

LEMMA CutShortKeeps ==
    ASSUME RecallInv, NEW n \in 1..4, CutShort(n)
    PROVE  RecallInv'
  <1>1. /\ open' = FALSE /\ kept' = {} /\ answer' = NoAnswer
        /\ UNCHANGED <<memory, forgotten, index, width, expected>>
    BY DEF CutShort
  <1>2. saved' \in IndexStates
    <2> DEFINE At0(f) == IF f = "dim" THEN 3 ELSE CHOOSE k \in 1..4 : Files[k] = f
               File(f) == IF At0(f) < n THEN index[f]
                          ELSE IF At0(f) = n THEN Empty[f] ELSE saved[f]
    <2>1. saved' = [f \in DOMAIN saved |-> File(f)]
      BY DEF CutShort
    <2>2. index \in IndexStates /\ saved \in IndexStates /\ Empty \in IndexStates
      BY DEF RecallInv, RecallTypes, Empty, IndexStates
    <2>3. DOMAIN saved = {"master", "line", "vector", "dim", "text"}
      BY <2>2 DEF IndexStates
    <2>4. \A f : File(f) \in {index[f], Empty[f], saved[f]}
      OBVIOUS
    <2> HIDE DEF File
    <2>5. /\ File("master") \in SUBSET Nat /\ File("line") \in Seq(Nat)
          /\ File("vector") \in SUBSET Nat /\ File("dim") \in Nat
          /\ File("text") \in SUBSET Nat
      BY <2>2, <2>4 DEF IndexStates
    <2>6. saved' = [master |-> File("master"), line |-> File("line"),
                    vector |-> File("vector"), dim |-> File("dim"), text |-> File("text")]
      BY <2>1, <2>3
    <2> QED  BY <2>5, <2>6 DEF IndexStates
  <1>3. Found(saved, kept)'
    BY <1>1 DEF Found
  <1> QED  BY <1>1, <1>2, <1>3, NothingAnswered DEF RecallInv, RecallTypes

LEMMA RecallInductive == RecallInv /\ [RecallNext]_recallVars => RecallInv'
  <1> SUFFICES ASSUME RecallInv, [RecallNext]_recallVars  PROVE  RecallInv'
    OBVIOUS
  <1>1. CASE Remember
    <2>1. PICK matches, room \in BOOLEAN :
             Store([matches |-> matches, room |-> room, width |-> width, prev |-> 0])
      BY <1>1 DEF Remember
    <2>2. PICK m : m = [matches |-> matches, room |-> room, width |-> width, prev |-> 0]
      OBVIOUS
    <2>3. m \in [matches : BOOLEAN, room : BOOLEAN, width : Nat, prev : Nat]
      BY <2>2 DEF RecallInv, RecallTypes
    <2> QED  BY <2>1, <2>2, <2>3, StoreKeeps
  <1>2. CASE Revise
    <2>1. PICK i \in Ids, matches \in BOOLEAN :
             Store([matches |-> matches, room |-> FALSE, width |-> 0, prev |-> i])
      BY <1>2 DEF Revise
    <2>2. PICK m : m = [matches |-> matches, room |-> FALSE, width |-> 0, prev |-> i]
      OBVIOUS
    <2>3. i \in Nat
      BY LenProperties DEF RecallInv, RecallTypes, Ids
    <2>4. m \in [matches : BOOLEAN, room : BOOLEAN, width : Nat, prev : Nat]
      BY <2>2, <2>3
    <2> QED  BY <2>1, <2>2, <2>4, StoreKeeps
  <1>3. CASE HybridSearch
    BY <1>3, HybridKeeps
  <1>4. CASE Checkpoint
    <2>1. /\ open /\ saved' = index /\ kept' = expected
          /\ UNCHANGED <<memory, forgotten, index, width, open, answer, expected>>
      BY <1>4 DEF Checkpoint
    <2>2. ASSUME NEW i  PROVE  Live(i)' = Live(i)
      BY <2>1 DEF Live, Ids
    <2>3. Answered'
      BY <2>1, <2>2 DEF RecallInv, Answered
    <2> QED  BY <2>1, <2>3 DEF RecallInv, RecallTypes, Found
  <1>5. ASSUME NEW i \in Ids, Forget(i)  PROVE  RecallInv'
    <2>1. /\ answer' = NoAnswer
          /\ UNCHANGED <<memory, index, saved, width, open, expected, kept>>
      BY <1>5 DEF Forget
    <2> QED  BY <2>1, NothingAnswered DEF RecallInv, RecallTypes, Found
  <1>6. ASSUME NEW room \in BOOLEAN, NEW semantic \in BOOLEAN, Recollect(room, semantic)
        PROVE  RecallInv'
    BY <1>6, RecollectKeeps
  <1>7. ASSUME NEW n \in 1..4, CutShort(n)  PROVE  RecallInv'
    BY <1>7, CutShortKeeps
  <1>8. ASSUME NEW w \in Width, Connect(w)  PROVE  RecallInv'
    BY <1>8, ConnectKeeps
  <1>9. CASE UNCHANGED recallVars
    <2>1. UNCHANGED <<memory, forgotten, index, saved, width, open, answer, expected, kept>>
      BY <1>9 DEF recallVars
    <2>2. ASSUME NEW i  PROVE  Live(i)' = Live(i)
      BY <2>1 DEF Live, Ids
    <2>3. Answered'
      BY <2>1, <2>2 DEF RecallInv, Answered
    <2> QED  BY <2>1, <2>3 DEF RecallInv, RecallTypes, Found
  <1> QED  BY <1>1, <1>2, <1>3, <1>4, <1>5, <1>6, <1>7, <1>8, <1>9 DEF RecallNext

(* An agent is told nothing that was replaced, forgotten or is elsewhere,   *)
(* and every live memory with the words it asked for that this connection   *)
(* wrote or that a checkpoint kept, unless a limit cut the hits; however    *)
(* often the store was opened, checkpointed, or died in a checkpoint.       *)
THEOREM RecallIsExact == RecallSpec => []RecallExact
  <1>1. RecallInv => RecallExact
    BY DEF RecallInv, RecallExact, Answered, Found
  <1> QED  BY <1>1, RecallStarts, RecallInductive, PTL DEF RecallSpec

-----------------------------------------------------------------------------
(* The episodes of a stream. *)

LEMMA AtTheEnd ==
    ASSUME NEW E, NEW s \in Seq(E), NEW e \in E
    PROVE  /\ Append(s, e) \in Seq(E) /\ Len(Append(s, e)) = Len(s) + 1 /\ Len(s) \in Nat
           /\ \A n \in 1..Len(s) : Append(s, e)[n] = s[n]
           /\ Append(s, e)[Len(s) + 1] = e /\ Last(Append(s, e)) = e
           /\ ToSet(Append(s, e)) = ToSet(s) \cup {e}
  <1>1. PICK t, one : t = Append(s, e) /\ one = <<e>>
    OBVIOUS
  <1>2. /\ t \in Seq(E) /\ Len(t) = Len(s) + 1 /\ Len(s) \in Nat
        /\ \A n \in 1..Len(s) : t[n] = s[n]
        /\ t[Len(s) + 1] = e
    BY <1>1, AppendProperties, LenProperties
  <1>3. Last(t) = e
    BY <1>2 DEF Last
  <1>4. one \in Seq(E) /\ ToSet(one) = {e} /\ t = s \o one
    BY <1>1, SetOfOne, AppendIsConcat
  <1>5. ToSet(s \o one) = ToSet(s) \cup ToSet(one)
    BY ONLY <1>4, s \in Seq(E), SetOfBoth
  <1>6. ToSet(t) = ToSet(s) \cup {e}
    BY ONLY <1>4, <1>5
  <1> QED  BY <1>1, <1>2, <1>3, <1>6

(* g[i] is what the first i sequences of s make together. *)
Flattened(s, g, E) ==
    /\ g \in [1..Len(s) -> Seq(E)]
    /\ \A i \in 1..Len(s) : g[i] = IF i = 1 THEN s[i] ELSE g[i - 1] \o s[i]

Flattens(s, E) == \E g : Flattened(s, g, E) /\ FlattenSeq(s) = g[Len(s)]

LEMMA FlattenIs ==
    ASSUME NEW E, NEW s \in Seq(Seq(E)), s # <<>>
    PROVE  Flattens(s, E)
  <1>1. PICK L : L = Len(s)
    OBVIOUS
  <1>2. L \in Nat \ {0} /\ \A i \in 1..L : s[i] \in Seq(E)
    BY <1>1, EmptySeq, ElementOfSeq
  <1> DEFINE S == Seq(E)
             D == 1..L
             One(u, i) == IF i = 1 THEN s[i] ELSE u[i - 1] \o s[i]
  <1>3. PICK F : F = [u \in [D -> S] |-> [i \in D |-> One(u, i)]]
    OBVIOUS
  <1>4. ASSUME NEW u \in [D -> S], NEW i \in D  PROVE  One(u, i) \in S
    <2>1. CASE i = 1
      BY <1>2, <2>1
    <2>2. CASE i # 1
      <3>1. i - 1 \in D
        BY <1>2, <2>2
      <3>2. u[i - 1] \in Seq(E) /\ s[i] \in Seq(E)
        BY <1>2, <3>1
      <3>3. u[i - 1] \o s[i] \in Seq(E)
        BY ONLY <3>2, ConcatProperties
      <3> QED  BY <2>2, <3>3
    <2> QED  BY <2>1, <2>2
  <1>5. Progressive(F, D, S)
    <2>1. F \in [[D -> S] -> [D -> S]]
      BY <1>3, <1>4
    <2>2. ASSUME NEW u \in [D -> S], NEW x \in [D -> S], NEW n \in D,
                 \A k \in D : k < n => u[k] = x[k]
          PROVE  F[u][n] = F[x][n]
      <3>1. F[u][n] = One(u, n) /\ F[x][n] = One(x, n)
        BY <1>3
      <3>2. CASE n = 1
        BY <3>1, <3>2
      <3>3. CASE n # 1
        <4>1. n - 1 \in D /\ n - 1 < n
          BY <1>2, <3>3
        <4>2. u[n - 1] = x[n - 1]
          BY <2>2, <4>1
        <4> QED  BY <3>1, <4>2
      <3> QED  BY <3>2, <3>3
    <2> QED  BY <2>1, <2>2 DEF Progressive
  <1>6. PICK g0 \in [D -> S] : F[g0] = g0
    <2>1. PICK P, R : R = S /\ P = D
      OBVIOUS
    <2>2. <<>> \in R
      BY <2>1, EmptySeq
    <2>3. R # {} /\ P \subseteq 0..L /\ Progressive(F, P, R) /\ L \in Nat
      BY <1>2, <1>5, <2>1, <2>2
    <2>4. HasFixpoint(F, P, R)
      BY ONLY <2>3, Recursive
    <2> QED  BY <2>1, <2>4 DEF HasFixpoint
  <1>7. g0 = [i \in D |-> One(g0, i)]
    BY <1>3, <1>6
  <1> DEFINE Flat == CHOOSE f : f = [i \in D |-> One(f, i)]
  <1>8. Flat = [i \in D |-> One(Flat, i)]
    BY <1>7
  <1>9. FlattenSeq(s) = Flat[L]
    <2>1. Len(s) # 0 /\ L = Len(s)
      BY <1>1, <1>2
    <2> QED  BY ONLY <2>1 DEF FlattenSeq
  <1>10. PICK g : g = Flat
    OBVIOUS
  <1>11. g = [i \in D |-> One(g, i)]
    <2> HIDE DEF Flat, One
    <2> QED  BY ONLY <1>8, <1>10
  <1>12. \A i \in D : g[i] = One(g, i)
    BY ONLY <1>11
  <1> DEFINE T == {n \in Nat : n + 1 \in D => g[n + 1] \in Seq(E)}
  <1>13. 0 \in T
    <2>1. 0 + 1 = 1 /\ 1 \in D
      BY <1>2
    <2>2. g[1] = s[1] /\ s[1] \in Seq(E)
      BY <1>2, <1>12, <2>1
    <2> QED  BY <2>1, <2>2
  <1>14. ASSUME NEW n \in Nat, n \in T  PROVE  n + 1 \in T
    <2> SUFFICES ASSUME (n + 1) + 1 \in D  PROVE  g[(n + 1) + 1] \in Seq(E)
      OBVIOUS
    <2>1. PICK m : m = (n + 1) + 1
      OBVIOUS
    <2>2. m \in D /\ m # 1 /\ m - 1 = n + 1 /\ n + 1 \in D
      BY <1>2, <2>1
    <2>3. g[m - 1] \in Seq(E) /\ s[m] \in Seq(E) /\ g[m] = g[m - 1] \o s[m]
      BY <1>2, <1>12, <1>14, <2>2
    <2>4. g[m] \in Seq(E)
      BY ONLY <2>3, ConcatProperties
    <2> QED  BY <2>1, <2>4
  <1>15. \A n \in Nat : n \in T
    <2> HIDE DEF T
    <2> QED  BY <1>13, <1>14, Induction
  <1>16. \A i \in D : g[i] \in Seq(E)
    <2>1. ASSUME NEW i \in D  PROVE  g[i] \in Seq(E)
      <3>1. i - 1 \in Nat /\ (i - 1) + 1 = i
        BY <1>2
      <3>2. i - 1 \in T
        BY <1>15, <3>1
      <3> QED  BY <3>1, <3>2
    <2> QED  BY <2>1
  <1>17. g \in [1..L -> Seq(E)]
    BY <1>11, <1>16
  <1>18. Flattened(s, g, E)
    BY <1>1, <1>12, <1>17 DEF Flattened
  <1> QED  BY <1>1, <1>9, <1>10, <1>18 DEF Flattens

(* One sequence more is appended to what the others make. *)
LEMMA FlattenMore ==
    ASSUME NEW E, NEW s \in Seq(Seq(E)), NEW e \in Seq(E)
    PROVE  /\ FlattenSeq(s) \in Seq(E)
           /\ FlattenSeq(Append(s, e)) = FlattenSeq(s) \o e
  <1>1. PICK t, L, Q : t = Append(s, e) /\ L = Len(s) /\ Q = Seq(E)
    OBVIOUS
  <1>0. s \in Seq(Q) /\ e \in Q
    BY <1>1
  <1>2. /\ t \in Seq(Q) /\ Len(t) = L + 1 /\ L \in Nat /\ t # <<>>
        /\ \A n \in 1..L : t[n] = s[n]
        /\ t[L + 1] = e
    <2>1. L \in Nat
      BY ONLY <1>0, <1>1, LenProperties
    <2> QED  BY ONLY <1>0, <1>1, <2>1, AppendProperties
  <1>3. PICK h : Flattened(t, h, E) /\ FlattenSeq(t) = h[Len(t)]
    <2>1. t \in Seq(Seq(E)) /\ t # <<>>
      BY <1>1, <1>2
    <2>2. Flattens(t, E)
      BY ONLY <2>1, FlattenIs
    <2> QED  BY <2>2 DEF Flattens
  <1>4. /\ FlattenSeq(t) = h[L + 1] /\ L + 1 \in 1..(L + 1)
        /\ \A i \in 1..(L + 1) : h[i] = IF i = 1 THEN t[i] ELSE h[i - 1] \o t[i]
    <2>1. \A i \in 1..Len(t) : h[i] = IF i = 1 THEN t[i] ELSE h[i - 1] \o t[i]
      BY ONLY <1>3 DEF Flattened
    <2>2. L + 1 \in 1..(L + 1) /\ Len(t) = L + 1
      BY ONLY <1>2
    <2> QED  BY ONLY <1>3, <2>1, <2>2
  <1>5. CASE s = <<>>
    <2>1. FlattenSeq(s) = <<>> /\ L = 0
      BY <1>1, <1>5, EmptySeq DEF FlattenSeq
    <2>2. FlattenSeq(t) = e
      BY <1>2, <1>4, <2>1
    <2>3. <<>> \in Seq(E) /\ <<>> \o e = e
      BY EmptySeq, ConcatEmptySeq
    <2> QED  BY <1>1, <2>1, <2>2, <2>3
  <1>6. CASE s # <<>>
    <2>1. PICK g : Flattened(s, g, E) /\ FlattenSeq(s) = g[Len(s)]
      <3>1. Flattens(s, E)
        BY <1>6, FlattenIs
      <3> QED  BY <3>1 DEF Flattens
    <2>2. /\ L # 0 /\ L \in 1..L
          /\ g \in [1..L -> Seq(E)] /\ FlattenSeq(s) = g[L]
          /\ \A i \in 1..L : g[i] = IF i = 1 THEN s[i] ELSE g[i - 1] \o s[i]
      <3>1. L # 0
        BY ONLY <1>0, <1>1, <1>6, EmptySeq
      <3>2. L \in 1..L
        BY ONLY <1>2, <3>1
      <3> QED  BY ONLY <1>1, <2>1, <3>1, <3>2 DEF Flattened
    <2> DEFINE T == {n \in Nat : n + 1 <= L => h[n + 1] = g[n + 1]}
    <2>3. 0 \in T
      <3>1. 0 + 1 = 1 /\ 1 \in 1..L /\ 1 \in 1..(L + 1)
        BY <1>2, <2>2
      <3>2. h[1] = t[1] /\ g[1] = s[1] /\ t[1] = s[1]
        BY <1>2, <1>4, <2>2, <3>1
      <3> QED  BY <3>1, <3>2
    <2>4. ASSUME NEW n \in Nat, n \in T  PROVE  n + 1 \in T
      <3> SUFFICES ASSUME (n + 1) + 1 <= L  PROVE  h[(n + 1) + 1] = g[(n + 1) + 1]
        OBVIOUS
      <3>1. PICK m : m = (n + 1) + 1
        OBVIOUS
      <3>2. m \in 1..L /\ m \in 1..(L + 1) /\ m # 1 /\ m - 1 = n + 1 /\ n + 1 <= L
        BY <1>2, <3>1
      <3>3. h[m] = h[m - 1] \o t[m] /\ g[m] = g[m - 1] \o s[m] /\ t[m] = s[m]
        BY <1>2, <1>4, <2>2, <3>2
      <3>4. h[m - 1] = g[m - 1]
        BY <2>4, <3>2
      <3> QED  BY <3>1, <3>3, <3>4
    <2>5. \A n \in Nat : n \in T
      <3> HIDE DEF T
      <3> QED  BY <2>3, <2>4, Induction
    <2>6. h[L] = g[L]
      <3>1. L - 1 \in Nat /\ (L - 1) + 1 = L /\ L <= L
        BY <1>2, <2>2
      <3>2. L - 1 \in T
        BY <2>5, <3>1
      <3> QED  BY <3>1, <3>2
    <2>7. h[L + 1] = h[L] \o e
      <3>1. L + 1 # 1 /\ (L + 1) - 1 = L
        BY <1>2, <2>2
      <3> QED  BY <1>2, <1>4, <3>1
    <2>8. FlattenSeq(s) \in Seq(E)
      BY <2>2
    <2> QED  BY <1>1, <1>4, <2>2, <2>6, <2>7, <2>8
  <1> QED  BY <1>5, <1>6

Stream == 1..Records

EpisodeTypes ==
    /\ batch \in Seq(Stream) /\ current \in Seq(Stream)
    /\ closed \in Seq(Seq(Stream)) /\ episodes \in Seq(Seq(Stream))
    /\ episodeOf \in [Stream -> Nat] /\ last \in [Stream -> Nat] /\ runs \in Nat

(* The episode that grows ends with the last record met. *)
Segmenting ==
    /\ batch = <<>> => at = 0 /\ current = <<>> /\ closed = <<>>
    /\ batch # <<>> => at \in 2..(Len(batch) + 1) /\ runs # 0
    /\ Len(current) < MaxEpisode
    /\ current # <<>> => Last(current) = batch[at - 1]

AllWhole == \A e \in ToSet(closed) \cup ToSet(episodes) \cup {current} : Whole(e)

(* The episodes cs and the one that grows, c, hold the records of m, in order. *)
Cut(cs, c, m) ==
    /\ FlattenSeq(cs) \o c = m
    /\ \A r : r \in ToSet(m) <=> r \in ToSet(c) \/ \E e \in ToSet(cs) : r \in ToSet(e)

(* Every record that was segmented has an episode that holds it. *)
Remembered ==
    \A r \in Stream :
        /\ episodeOf[r] = 0 <=> last[r] = 0
        /\ episodeOf[r] <= Len(episodes)
        /\ episodeOf[r] # 0 => r \in ToSet(episodes[episodeOf[r]])
        /\ \A q \in Stream : episodeOf[r] = episodeOf[q] => last[r] = last[q]

EpisodesInv ==
    /\ EpisodeTypes /\ Segmenting /\ AllWhole
    /\ Cut(closed, current, SubSeq(batch, 1, at - 1))
    /\ Remembered

LEMMA NoSequence ==
    ASSUME NEW E
    PROVE  <<>> \in Seq(E) /\ Len(<<>>) = 0 /\ ToSet(<<>>) = {} /\ Whole(<<>>)
  <1>1. <<>> \in Seq(E) /\ Len(<<>>) = 0 /\ DOMAIN <<>> = {}
    BY EmptySeq
  <1>2. 0 <= MaxEpisode
    BY EpisodesAssumption
  <1>3. Whole(<<>>)
    <2>1. \A n \in 1..0 - 1 : FALSE
      OBVIOUS
    <2> QED  BY <1>1, <1>2, <2>1 DEF Whole
  <1> QED  BY <1>1, <1>3 DEF ToSet

(* Nothing is met while nothing is segmented. *)
LEMMA NothingMet ==
    /\ SubSeq(<<>>, 1, 0 - 1) = <<>> /\ FlattenSeq(<<>>) = <<>>
    /\ Cut(<<>>, <<>>, <<>>)
  <1>1. SubSeq(<<>>, 1, 0 - 1) = <<>>
    <2>1. 0 - 1 \in Int /\ 1 \in Int /\ 0 - 1 < 1
      OBVIOUS
    <2> QED  BY <2>1, SubSeqEmpty
  <1>2. FlattenSeq(<<>>) = <<>> /\ ToSet(<<>>) = {} /\ <<>> \o <<>> = <<>>
    <2>1. <<>> \in Seq(Nat) /\ ToSet(<<>>) = {} /\ Len(<<>>) = 0
      BY NoSequence
    <2> QED  BY <2>1, ConcatEmptySeq DEF FlattenSeq
  <1> QED  BY <1>1, <1>2 DEF Cut

LEMMA EpisodesStart == EpisodesInit => EpisodesInv
  <1> SUFFICES ASSUME EpisodesInit  PROVE  EpisodesInv
    OBVIOUS
  <1>1. /\ batch = <<>> /\ at = 0 /\ current = <<>> /\ closed = <<>> /\ episodes = <<>>
        /\ runs = 0 /\ episodeOf = [r \in Stream |-> 0] /\ last = [r \in Stream |-> 0]
    BY DEF EpisodesInit, Stream
  <1>2. /\ <<>> \in Seq(Stream) /\ <<>> \in Seq(Seq(Stream)) /\ Len(<<>>) = 0
        /\ ToSet(<<>>) = {} /\ Whole(<<>>)
    BY NoSequence
  <1>3. EpisodeTypes
    BY <1>1, <1>2 DEF EpisodeTypes
  <1>4. Segmenting
    BY <1>1, <1>2, EpisodesAssumption DEF Segmenting
  <1>5. AllWhole
    BY <1>1, <1>2 DEF AllWhole
  <1>6. Cut(closed, current, SubSeq(batch, 1, at - 1))
    BY <1>1, NothingMet
  <1>7. Remembered
    BY <1>1, <1>2 DEF Remembered
  <1> QED  BY <1>3, <1>4, <1>5, <1>6, <1>7 DEF EpisodesInv

LEMMA SegmentKeeps ==
    ASSUME EpisodesInv, NEW rs \in (SUBSET (1..Records)) \ {{}}, Segment(rs)
    PROVE  EpisodesInv'
  <1>1. PICK N : N = Cardinality(rs)
    OBVIOUS
  <1>2. N \in Nat \ {0}
    <2>1. IsFiniteSet(1..Records)
      BY EpisodesAssumption, FS_Interval
    <2>2. IsFiniteSet(rs)
      BY <2>1, FS_Subset
    <2> QED  BY <1>1, <2>2, FS_CardinalityType, FS_EmptySet
  <1>3. PICK b : /\ b \in [1..N -> rs] /\ batch' = b /\ current' = <<b[1]>>
    BY <1>1 DEF Segment
  <1>4. /\ batch = <<>> /\ at' = 2 /\ closed' = <<>> /\ runs' = runs + 1
        /\ UNCHANGED <<late, space, episodes, episodeOf, last>>
    BY DEF Segment
  <1>5. PICK r, one : r = b[1] /\ one = <<r>>
    OBVIOUS
  <1>6. b \in Seq(Stream) /\ Len(b) = N /\ b # <<>> /\ r \in Stream
    <2>1. b \in [1..N -> Stream] /\ N \in Nat /\ 1 \in 1..N
      <3>1. rs \subseteq Stream
        BY DEF Stream
      <3>2. N \in Nat /\ 1 \in 1..N
        BY ONLY <1>2
      <3> QED  BY ONLY <1>3, <3>1, <3>2
    <2>2. b \in Seq(Stream) /\ Len(b) = N
      BY ONLY <2>1
    <2>3. b # <<>>
      BY <1>2, <2>2, EmptySeq
    <2> QED  BY <1>5, <2>1, <2>2, <2>3
  <1>7. one \in Seq(Stream) /\ Len(one) = 1 /\ one[1] = r /\ ToSet(one) = {r} /\ one # <<>>
    <2>1. one \in Seq(Stream) /\ Len(one) = 1 /\ one[1] = r /\ ToSet(one) = {r}
      BY ONLY <1>5, <1>6, SetOfOne
    <2> QED  BY <2>1, EmptySeq
  <1>8. EpisodeTypes'
    <2>1. <<>> \in Seq(Seq(Stream))
      BY NoSequence
    <2> QED  BY <1>3, <1>4, <1>5, <1>6, <1>7, <2>1 DEF EpisodesInv, EpisodeTypes, Stream
  <1>9. Segmenting'
    <2>1. Last(one) = r /\ 1 < MaxEpisode
      BY <1>7, EpisodesAssumption DEF Last
    <2>2. 2 \in 2..(Len(b) + 1) /\ runs' # 0 /\ 2 - 1 = 1
      BY <1>2, <1>4, <1>6 DEF EpisodesInv, EpisodeTypes
    <2> QED  BY <1>3, <1>4, <1>5, <1>6, <1>7, <2>1, <2>2 DEF Segmenting
  <1>10. AllWhole'
    <2>1. ToSet(<<>>) = {}
      BY NoSequence
    <2>2. Whole(one)
      <3>1. DOMAIN one = {1} /\ 1 <= MaxEpisode
        BY <1>7, EpisodesAssumption, LenProperties
      <3>2. \A n \in 1..1 - 1 : FALSE
        OBVIOUS
      <3> QED  BY <1>7, <3>1, <3>2 DEF Whole
    <2>3. \A e \in ToSet(episodes) : Whole(e)
      BY DEF EpisodesInv, AllWhole
    <2>4. ASSUME NEW e  PROVE  Whole(e)' <=> Whole(e)
      BY <1>4 DEF Whole, Strong, GapBetween
    <2> QED  BY <1>3, <1>4, <1>5, <2>1, <2>2, <2>3, <2>4 DEF AllWhole
  <1>11. Cut(<<>>, one, SubSeq(b, 1, 2 - 1))
    <2>1. SubSeq(b, 1, 1) = one
      <3>1. 1 \in 1..Len(b) /\ 1 \in 1..1 /\ 1 \in 1..Len(b)
        BY <1>2, <1>6
      <3>2. SubSeq(b, 1, 1) = SubSeq(b, 1, 1 - 1) \o <<b[1]>>
        BY ONLY <1>6, <3>1, SubSeqRecursiveSecond
      <3>3. SubSeq(b, 1, 1 - 1) = <<>>
        BY SubSeqEmpty
      <3> QED  BY <1>5, <1>7, <3>2, <3>3, ConcatEmptySeq
    <2>2. FlattenSeq(<<>>) = <<>> /\ ToSet(<<>>) = {}
      BY NothingMet, NoSequence
    <2>3. <<>> \o one = one
      BY <1>7, ConcatEmptySeq
    <2>4. SubSeq(b, 1, 2 - 1) = one
      <3>1. 2 - 1 = 1
        OBVIOUS
      <3> QED  BY ONLY <2>1, <3>1
    <2>5. Cut(<<>>, one, one)
      BY ONLY <2>2, <2>3 DEF Cut
    <2> QED  BY ONLY <2>4, <2>5
  <1>12. Cut(closed, current, SubSeq(batch, 1, at - 1))'
    BY <1>3, <1>4, <1>5, <1>11 DEF Cut
  <1>13. Remembered'
    BY <1>4 DEF EpisodesInv, Remembered
  <1> QED  BY <1>8, <1>9, <1>10, <1>12, <1>13 DEF EpisodesInv

(* A record joins an episode that is not full, without a boundary. *)
LEMMA JoinsWhole ==
    ASSUME NEW e \in Seq(Stream), NEW r \in Stream, Whole(e), Len(e) < MaxEpisode,
           e # <<>> => ~Strong(Last(e), r)
    PROVE  Whole(Append(e, r))
  <1>1. PICK g, L : g = Append(e, r) /\ L = Len(e)
    OBVIOUS
  <1>2. /\ g \in Seq(Stream) /\ Len(g) = L + 1 /\ L \in Nat
        /\ \A n \in 1..L : g[n] = e[n]
        /\ g[L + 1] = r
    BY <1>1, AtTheEnd
  <1>3. /\ DOMAIN g = 1..(L + 1) /\ DOMAIN e = 1..L
        /\ \A n \in 1..(L + 1) : n \in 1..L \/ n = L + 1
    BY <1>1, <1>2, LenProperties
  <1>4. Len(g) <= MaxEpisode
    BY <1>1, <1>2, EpisodesAssumption
  <1>5. /\ \A n \in 1..L - 1 : ~Strong(e[n], e[n + 1])
        /\ \A n, k \in 1..L : space[e[n]] = space[e[k]]
    BY <1>1, <1>3 DEF Whole
  <1>6. L # 0 => L \in 1..L /\ ~Strong(e[L], r) /\ space[e[L]] = space[r]
    BY <1>1, <1>2, EmptySeq DEF Last, Strong
  <1>7. ASSUME NEW n \in 1..(L + 1) - 1  PROVE  ~Strong(g[n], g[n + 1])
    <2>1. CASE n = L
      BY <1>2, <1>6, <2>1
    <2>2. CASE n # L
      <3>1. n \in 1..L - 1 /\ n \in 1..L /\ n + 1 \in 1..L
        BY <1>2, <2>2
      <3> QED  BY <1>2, <1>5, <3>1
    <2> QED  BY <2>1, <2>2
  <1>8. \A n \in 1..(L + 1) : space[g[n]] = space[r]
    <2>1. ASSUME NEW n \in 1..L  PROVE  space[g[n]] = space[r]
      <3>1. L # 0
        BY <1>2
      <3> QED  BY <1>2, <1>5, <1>6, <3>1
    <2> QED  BY <1>2, <1>3, <2>1
  <1> QED  BY <1>1, <1>2, <1>3, <1>4, <1>7, <1>8 DEF Whole

(* An episode is closed. *)
LEMMA CutClosed ==
    ASSUME NEW cs \in Seq(Seq(Stream)), NEW c \in Seq(Stream), NEW m, Cut(cs, c, m)
    PROVE  Cut(Append(cs, c), <<>>, m)
  <1>1. PICK ds, Q : ds = Append(cs, c) /\ Q = Seq(Stream)
    OBVIOUS
  <1>2. ToSet(ds) = ToSet(cs) \cup {c} /\ cs \in Seq(Q) /\ c \in Q
    <2>1. cs \in Seq(Q) /\ c \in Q
      BY <1>1
    <2> QED  BY ONLY <1>1, <2>1, AtTheEnd
  <1>3. FlattenSeq(cs) \in Seq(Stream) /\ FlattenSeq(ds) = FlattenSeq(cs) \o c
    BY <1>1, FlattenMore
  <1>4. FlattenSeq(ds) \in Seq(Stream) /\ FlattenSeq(ds) \o <<>> = FlattenSeq(ds)
    BY <1>3, ConcatProperties, ConcatEmptySeq
  <1>5. ToSet(<<>>) = {}
    BY NoSequence
  <1> QED  BY <1>1, <1>2, <1>3, <1>4, <1>5 DEF Cut

(* One record more is met and joins the episode that grows. *)
LEMMA CutGrows ==
    ASSUME NEW cs \in Seq(Seq(Stream)), NEW c \in Seq(Stream), NEW m, Cut(cs, c, m),
           NEW r \in Stream
    PROVE  Cut(cs, Append(c, r), m \o <<r>>)
  <1>1. PICK d, one, f : d = Append(c, r) /\ one = <<r>> /\ f = FlattenSeq(cs)
    OBVIOUS
  <1>2. /\ f \in Seq(Stream) /\ m = f \o c /\ m \in Seq(Stream)
    <2>1. f \in Seq(Stream) /\ m = f \o c
      BY <1>1, FlattenMore DEF Cut
    <2> QED  BY <2>1, ConcatProperties
  <1>3. one \in Seq(Stream) /\ ToSet(one) = {r} /\ d = c \o one /\ ToSet(d) = ToSet(c) \cup {r}
    <2>1. one \in Seq(Stream) /\ ToSet(one) = {r}
      BY <1>1, SetOfOne
    <2>2. Append(c, r) = c \o <<r>>
      BY AppendIsConcat
    <2>3. ToSet(Append(c, r)) = ToSet(c) \cup {r}
      BY AtTheEnd
    <2> QED  BY ONLY <1>1, <2>1, <2>2, <2>3
  <1>4. f \o d = m \o one
    <2>1. c \in Seq(Stream) /\ f \in Seq(Stream) /\ one \in Seq(Stream)
      BY <1>2, <1>3
    <2>2. (f \o c) \o one = f \o (c \o one)
      BY ONLY <2>1, ConcatAssociative
    <2> QED  BY ONLY <1>2, <1>3, <2>2
  <1>5. ToSet(m \o one) = ToSet(m) \cup {r}
    <2>1. m \in Seq(Stream) /\ one \in Seq(Stream)
      BY <1>2, <1>3
    <2>2. ToSet(m \o one) = ToSet(m) \cup ToSet(one)
      BY ONLY <2>1, SetOfBoth
    <2> QED  BY <1>3, <2>2
  <1>6. \A x : x \in ToSet(m) <=> x \in ToSet(c) \/ \E e \in ToSet(cs) : x \in ToSet(e)
    BY DEF Cut
  <1>7. \A x : x \in ToSet(m \o one) <=> x \in ToSet(d) \/ \E e \in ToSet(cs) : x \in ToSet(e)
    BY ONLY <1>3, <1>5, <1>6
  <1> QED  BY <1>1, <1>4, <1>7 DEF Cut

LEMMA TakeKeeps ==
    ASSUME EpisodesInv, NEW weak \in BOOLEAN, Take(weak)
    PROVE  EpisodesInv'
  <1>1. PICK r, boundary, base, before, grown, full, m :
           /\ r = batch[at]
           /\ boundary = (weak \/ Strong(batch[at - 1], r))
           /\ base = (IF boundary THEN <<>> ELSE current)
           /\ before = (IF boundary THEN Append(closed, current) ELSE closed)
           /\ grown = Append(base, r)
           /\ full = (Len(grown) >= MaxEpisode)
           /\ m = SubSeq(batch, 1, at - 1)
    OBVIOUS
  <1>2. /\ batch # <<>> /\ at <= Len(batch) /\ at' = at + 1
        /\ closed' = (IF full THEN Append(before, grown) ELSE before)
        /\ current' = (IF full THEN <<>> ELSE grown)
        /\ UNCHANGED <<late, space, batch, episodes, episodeOf, last, runs>>
    BY <1>1 DEF Take
  <1>3. /\ batch \in Seq(Stream) /\ current \in Seq(Stream) /\ closed \in Seq(Seq(Stream))
        /\ Cut(closed, current, m)
        /\ at \in 2..(Len(batch) + 1) /\ Len(current) < MaxEpisode
        /\ current # <<>> => Last(current) = batch[at - 1]
        /\ \A e \in ToSet(closed) \cup ToSet(episodes) \cup {current} : Whole(e)
        /\ Len(batch) \in Nat /\ MaxEpisode \in Nat \ {0, 1}
    <2>1. batch \in Seq(Stream) /\ Len(batch) \in Nat
      BY LenProperties DEF EpisodesInv, EpisodeTypes
    <2> QED  BY <1>1, <1>2, <2>1, EpisodesAssumption
             DEF EpisodesInv, EpisodeTypes, Segmenting, AllWhole
  <1>4. at \in Nat /\ at \in 1..Len(batch) /\ r \in Stream
    <2>1. at \in Nat /\ at \in 1..Len(batch)
      BY <1>2, <1>3
    <2> QED  BY <1>1, <1>3, <2>1, ElementOfSeq
  <1>5. /\ base \in Seq(Stream) /\ Whole(base) /\ Len(base) < MaxEpisode
        /\ base # <<>> => ~Strong(Last(base), r)
    <2>1. <<>> \in Seq(Stream) /\ Whole(<<>>) /\ Len(<<>>) = 0
      BY NoSequence
    <2>2. 0 < MaxEpisode
      BY <1>3
    <2> QED  BY <1>1, <1>3, <2>1, <2>2
  <1>6. /\ grown \in Seq(Stream) /\ Whole(grown) /\ Last(grown) = r
        /\ Len(grown) \in Nat /\ grown # <<>>
    <2>1. Whole(grown)
      BY <1>1, <1>4, <1>5, JoinsWhole
    <2>2. base \in Seq(Stream) /\ r \in Stream /\ grown = Append(base, r)
      BY <1>1, <1>4, <1>5
    <2>3. /\ grown \in Seq(Stream) /\ Last(grown) = r
          /\ Len(grown) = Len(base) + 1 /\ Len(base) \in Nat
      BY ONLY <2>2, AtTheEnd
    <2>4. grown # <<>> /\ Len(grown) \in Nat
      BY ONLY <2>3, EmptySeq
    <2> QED  BY <2>1, <2>3, <2>4
  <1>7. PICK Q : Q = Seq(Stream)
    OBVIOUS
  <1>8. /\ before \in Seq(Q) /\ ToSet(before) \subseteq ToSet(closed) \cup {current}
        /\ Cut(before, base, m)
    <2>1. closed \in Seq(Q) /\ current \in Q
      BY <1>3, <1>7
    <2>2. Append(closed, current) \in Seq(Q)
          /\ ToSet(Append(closed, current)) = ToSet(closed) \cup {current}
      BY ONLY <2>1, AtTheEnd
    <2>3. Cut(Append(closed, current), <<>>, m)
      BY <1>3, CutClosed
    <2> QED  BY <1>1, <1>3, <2>1, <2>2, <2>3
  <1>9. SubSeq(batch, 1, at) = m \o <<r>>
    <2>1. 1 \in 1..Len(batch) /\ at \in 1..Len(batch)
      BY <1>4, <1>3
    <2> QED  BY ONLY <1>1, <1>3, <2>1, SubSeqRecursiveSecond
  <1>10. Cut(before, grown, SubSeq(batch, 1, at))
    BY <1>1, <1>4, <1>5, <1>7, <1>8, <1>9, CutGrows
  <1>11. /\ Append(before, grown) \in Seq(Q)
         /\ ToSet(Append(before, grown)) = ToSet(before) \cup {grown}
    <2>1. before \in Seq(Q) /\ grown \in Q
      BY <1>6, <1>7, <1>8
    <2> QED  BY ONLY <2>1, AtTheEnd
  <1>12. /\ closed' \in Seq(Q) /\ current' \in Q
         /\ ToSet(closed') \subseteq ToSet(closed) \cup {current, grown}
         /\ current' \in {<<>>, grown} /\ (current' = grown => ~full \/ grown = <<>>)
         /\ Cut(closed', current', SubSeq(batch, 1, at))
    <2>1. CASE full
      <3>1. Cut(Append(before, grown), <<>>, SubSeq(batch, 1, at))
        BY <1>6, <1>7, <1>8, <1>10, CutClosed
      <3>2. <<>> \in Q
        BY <1>7, NoSequence
      <3> QED  BY <1>2, <1>6, <1>8, <1>11, <2>1, <3>1, <3>2
    <2>2. CASE ~full
      BY <1>2, <1>6, <1>7, <1>8, <1>10, <2>2
    <2> QED  BY <1>1, <2>1, <2>2
  <1>13. EpisodeTypes'
    BY <1>2, <1>3, <1>7, <1>12 DEF EpisodesInv, EpisodeTypes, Stream
  <1>14. Segmenting'
    <2>1. at + 1 \in 2..(Len(batch) + 1) /\ (at + 1) - 1 = at
      BY <1>2, <1>3, <1>4
    <2>2. runs # 0
      BY <1>2 DEF EpisodesInv, Segmenting
    <2>3. Len(<<>>) = 0 /\ 0 < MaxEpisode
      BY <1>3, NoSequence
    <2>4. ASSUME ~full  PROVE  Len(grown) < MaxEpisode
      <3>1. ~(Len(grown) >= MaxEpisode)
        BY <1>1, <2>4
      <3>2. Len(grown) \in Nat /\ MaxEpisode \in Nat
        BY <1>3, <1>6
      <3> QED  BY ONLY <3>1, <3>2
    <2>5. Len(current') < MaxEpisode
      BY ONLY <1>12, <1>6, <2>3, <2>4
    <2>6. current' # <<>> => Last(current') = batch[at]
      BY <1>1, <1>6, <1>12
    <2> QED  BY <1>2, <2>1, <2>2, <2>5, <2>6 DEF Segmenting
  <1>15. AllWhole'
    <2>1. ASSUME NEW e  PROVE  Whole(e)' <=> Whole(e)
      BY <1>2 DEF Whole, Strong, GapBetween
    <2>2. Whole(<<>>)
      BY NoSequence
    <2>3. \A e \in ToSet(closed') \cup ToSet(episodes) \cup {current'} : Whole(e)
      BY ONLY <1>3, <1>6, <1>12, <2>2
    <2> QED  BY <1>2, <2>1, <2>3 DEF AllWhole
  <1>16. Cut(closed, current, SubSeq(batch, 1, at - 1))'
    <2>1. (at + 1) - 1 = at
      BY <1>4
    <2>2. SubSeq(batch, 1, at - 1)' = SubSeq(batch, 1, at)
      BY <1>2, <2>1
    <2> QED  BY <1>12, <2>2 DEF Cut
  <1>17. Remembered'
    BY <1>2 DEF EpisodesInv, Remembered
  <1> QED  BY <1>13, <1>14, <1>15, <1>16, <1>17 DEF EpisodesInv

LEMMA EndKeeps == EpisodesInv /\ EndSegment => EpisodesInv'
  <1> SUFFICES ASSUME EpisodesInv, EndSegment  PROVE  EpisodesInv'
    OBVIOUS
  <1>1. PICK found, all, Q :
           /\ found = (IF current = <<>> THEN closed ELSE Append(closed, current))
           /\ all = episodes \o found
           /\ Q = Seq(Stream)
    OBVIOUS
  <1>2. /\ batch # <<>> /\ at > Len(batch)
        /\ episodes' = all
        /\ episodeOf' = [r \in 1..Records |->
              IF \E e \in DOMAIN found : r \in ToSet(found[e])
              THEN CHOOSE e \in DOMAIN all : e > Len(episodes) /\ r \in ToSet(all[e])
              ELSE episodeOf[r]]
        /\ last' = [r \in 1..Records |-> IF r \in ToSet(batch) THEN runs ELSE last[r]]
        /\ batch' = <<>> /\ at' = 0 /\ current' = <<>> /\ closed' = <<>>
        /\ UNCHANGED <<late, space, runs>>
    BY <1>1 DEF EndSegment
  <1>3. /\ batch \in Seq(Stream) /\ current \in Q /\ closed \in Seq(Q) /\ episodes \in Seq(Q)
        /\ episodeOf \in [Stream -> Nat] /\ last \in [Stream -> Nat] /\ runs \in Nat
        /\ Cut(closed, current, SubSeq(batch, 1, at - 1))
        /\ at \in 2..(Len(batch) + 1) /\ runs # 0 /\ Len(batch) \in Nat
        /\ \A e \in ToSet(closed) \cup ToSet(episodes) \cup {current} : Whole(e)
    <2>1. batch \in Seq(Stream) /\ Len(batch) \in Nat
      BY LenProperties DEF EpisodesInv, EpisodeTypes
    <2> QED  BY <1>1, <1>2, <2>1 DEF EpisodesInv, EpisodeTypes, Segmenting, AllWhole
  <1>4. SubSeq(batch, 1, at - 1) = batch
    <2>1. at - 1 = Len(batch)
      BY <1>2, <1>3
    <2> QED  BY <1>3, <2>1, SubSeqFull
  <1>5. /\ found \in Seq(Q) /\ ToSet(found) \subseteq ToSet(closed) \cup {current}
        /\ \A r : r \in ToSet(batch) <=> \E e \in ToSet(found) : r \in ToSet(e)
    <2>1. Append(closed, current) \in Seq(Q)
          /\ ToSet(Append(closed, current)) = ToSet(closed) \cup {current}
      BY ONLY <1>3, AtTheEnd
    <2>2. ToSet(<<>>) = {}
      BY NoSequence
    <2>3. \A r : r \in ToSet(batch) <=>
                    r \in ToSet(current) \/ \E e \in ToSet(closed) : r \in ToSet(e)
      BY <1>3, <1>4 DEF Cut
    <2>4. CASE current = <<>>
      BY <1>1, <1>3, <2>2, <2>3, <2>4
    <2>5. CASE current # <<>>
      BY <1>1, <2>1, <2>3, <2>5
    <2> QED  BY <2>4, <2>5
  <1>6. PICK K, J : K = Len(episodes) /\ J = Len(found)
    OBVIOUS
  <1>7. /\ all \in Seq(Q) /\ Len(all) = K + J /\ K \in Nat /\ J \in Nat
        /\ \A n \in 1..(K + J) : all[n] = IF n <= K THEN episodes[n] ELSE found[n - K]
        /\ DOMAIN found = 1..J /\ DOMAIN all = 1..(K + J)
        /\ ToSet(all) = ToSet(episodes) \cup ToSet(found)
    <2>1. K \in Nat /\ J \in Nat /\ DOMAIN found = 1..J
      BY ONLY <1>3, <1>5, <1>6, LenProperties
    <2>2. /\ all \in Seq(Q) /\ Len(all) = K + J
          /\ \A n \in 1..(K + J) : all[n] = IF n <= K THEN episodes[n] ELSE found[n - K]
      <3>1. PICK e : e = episodes
        OBVIOUS
      <3>2. e \in Seq(Q) /\ found \in Seq(Q)
        BY <1>3, <1>5, <3>1
      <3>3. /\ e \o found \in Seq(Q) /\ Len(e \o found) = Len(e) + Len(found)
            /\ \A n \in 1..Len(e) + Len(found) :
                  (e \o found)[n] = IF n <= Len(e) THEN e[n] ELSE found[n - Len(e)]
        BY ONLY <3>2, ConcatProperties
      <3>4. all = e \o found /\ K = Len(e) /\ J = Len(found)
        BY <1>1, <1>6, <3>1
      <3> QED  BY ONLY <3>1, <3>3, <3>4
    <2>3. DOMAIN all = 1..(K + J)
      BY ONLY <2>2, LenProperties
    <2>4. ToSet(all) = ToSet(episodes) \cup ToSet(found)
      <3>1. PICK e : e = episodes
        OBVIOUS
      <3>2. e \in Seq(Q) /\ found \in Seq(Q) /\ all = e \o found
        BY <1>1, <1>3, <1>5, <3>1
      <3>3. ToSet(e \o found) = ToSet(e) \cup ToSet(found)
        BY ONLY <3>2, SetOfBoth
      <3> QED  BY ONLY <3>1, <3>2, <3>3
    <2> QED  BY <2>1, <2>2, <2>3, <2>4
  <1>8. ASSUME NEW r \in Stream, r \in ToSet(batch)
        PROVE  /\ last'[r] = runs /\ episodeOf'[r] \in Nat
               /\ episodeOf'[r] > K /\ episodeOf'[r] <= K + J /\ r \in ToSet(all[episodeOf'[r]])
    <2>1. PICK n \in 1..J : r \in ToSet(found[n])
      BY <1>5, <1>7, <1>8 DEF ToSet
    <2>2. /\ n + K \in 1..(K + J) /\ n + K > K /\ ~(n + K <= K) /\ (n + K) - K = n
      BY <1>7
    <2>3. r \in ToSet(all[n + K])
      BY <1>7, <2>1, <2>2
    <2>4. episodeOf'[r] = CHOOSE e \in DOMAIN all : e > K /\ r \in ToSet(all[e])
      BY <1>2, <1>6, <1>7, <2>1 DEF Stream
    <2>5. /\ episodeOf'[r] \in 1..(K + J) /\ episodeOf'[r] > K
          /\ r \in ToSet(all[episodeOf'[r]])
      BY <1>7, <2>2, <2>3, <2>4
    <2>6. last'[r] = runs
      BY <1>2, <1>8 DEF Stream
    <2> QED  BY <1>7, <2>5, <2>6
  <1>9. ASSUME NEW r \in Stream, r \notin ToSet(batch)
        PROVE  /\ last'[r] = last[r] /\ episodeOf'[r] = episodeOf[r]
               /\ episodeOf[r] \in Nat /\ last[r] \in Nat /\ episodeOf[r] <= K
               /\ episodeOf[r] = 0 <=> last[r] = 0
               /\ episodeOf[r] # 0 => r \in ToSet(all[episodeOf[r]])
               /\ \A q \in Stream : episodeOf[r] = episodeOf[q] => last[r] = last[q]
    <2>1. ~\E e \in DOMAIN found : r \in ToSet(found[e])
      BY <1>5, <1>9 DEF ToSet
    <2>2. last'[r] = last[r] /\ episodeOf'[r] = episodeOf[r]
      BY <1>2, <1>9, <2>1 DEF Stream
    <2>3. /\ episodeOf[r] \in Nat /\ last[r] \in Nat /\ episodeOf[r] <= K
          /\ episodeOf[r] = 0 <=> last[r] = 0
          /\ episodeOf[r] # 0 => r \in ToSet(episodes[episodeOf[r]])
          /\ \A q \in Stream : episodeOf[r] = episodeOf[q] => last[r] = last[q]
      BY <1>3, <1>6 DEF EpisodesInv, Remembered
    <2>4. episodeOf[r] # 0 => all[episodeOf[r]] = episodes[episodeOf[r]]
      BY <1>7, <2>3
    <2> QED  BY <2>2, <2>3, <2>4
  <1>10. EpisodeTypes'
    <2>1. <<>> \in Seq(Stream) /\ <<>> \in Seq(Seq(Stream))
      BY NoSequence
    <2>2. episodeOf' \in [Stream -> Nat] /\ last' \in [Stream -> Nat]
      <3>1. episodeOf' = [r \in Stream |-> episodeOf'[r]] /\ last' = [r \in Stream |-> last'[r]]
        BY <1>2 DEF Stream
      <3>2. \A r \in Stream : episodeOf'[r] \in Nat /\ last'[r] \in Nat
        BY <1>3, <1>8, <1>9
      <3> QED  BY ONLY <3>1, <3>2
    <2> QED  BY <1>1, <1>2, <1>3, <1>7, <2>1, <2>2 DEF EpisodeTypes, Stream
  <1>11. Segmenting'
    BY <1>2, NoSequence, EpisodesAssumption DEF Segmenting
  <1>12. AllWhole'
    <2>1. ASSUME NEW e  PROVE  Whole(e)' <=> Whole(e)
      BY <1>2 DEF Whole, Strong, GapBetween
    <2>2. Whole(<<>>) /\ ToSet(<<>>) = {}
      BY NoSequence
    <2>3. \A e \in ToSet(all) : Whole(e)
      BY <1>3, <1>5, <1>7
    <2> QED  BY <1>2, <2>1, <2>2, <2>3 DEF AllWhole
  <1>13. Cut(closed, current, SubSeq(batch, 1, at - 1))'
    BY <1>2, NothingMet DEF Cut
  <1>14. Remembered'
    <2>1. ASSUME NEW r \in Stream
          PROVE  /\ episodeOf'[r] = 0 <=> last'[r] = 0
                 /\ episodeOf'[r] <= K + J
                 /\ episodeOf'[r] # 0 => r \in ToSet(all[episodeOf'[r]])
      <3>1. CASE r \in ToSet(batch)
        <4>1. /\ last'[r] = runs /\ episodeOf'[r] \in Nat /\ episodeOf'[r] > K
              /\ episodeOf'[r] <= K + J /\ r \in ToSet(all[episodeOf'[r]])
          BY <1>8, <3>1
        <4>2. K \in Nat /\ runs # 0
          BY <1>3, <1>7
        <4> QED  BY ONLY <4>1, <4>2
      <3>2. CASE r \notin ToSet(batch)
        BY <1>7, <1>9, <3>2
      <3> QED  BY <3>1, <3>2
    <2>2. ASSUME NEW r \in Stream, NEW q \in Stream, episodeOf'[r] = episodeOf'[q]
          PROVE  last'[r] = last'[q]
      <3>1. CASE r \in ToSet(batch) /\ q \in ToSet(batch)
        BY <1>8, <3>1
      <3>2. CASE r \notin ToSet(batch) /\ q \notin ToSet(batch)
        BY <1>9, <2>2, <3>2
      <3>3. CASE r \in ToSet(batch) /\ q \notin ToSet(batch)
        <4>1. episodeOf'[r] \in Nat /\ episodeOf'[r] > K
          BY <1>8, <3>3
        <4>2. episodeOf'[q] \in Nat /\ episodeOf'[q] <= K
          BY <1>9, <3>3
        <4>3. K \in Nat
          BY <1>7
        <4> QED  BY ONLY <2>2, <4>1, <4>2, <4>3
      <3>4. CASE r \notin ToSet(batch) /\ q \in ToSet(batch)
        <4>1. episodeOf'[q] \in Nat /\ episodeOf'[q] > K
          BY <1>8, <3>4
        <4>2. episodeOf'[r] \in Nat /\ episodeOf'[r] <= K
          BY <1>9, <3>4
        <4>3. K \in Nat
          BY <1>7
        <4> QED  BY ONLY <2>2, <4>1, <4>2, <4>3
      <3> QED  BY <3>1, <3>2, <3>3, <3>4
    <2>3. episodes' = all /\ Len(all) = K + J
      BY <1>2, <1>7
    <2> QED  BY ONLY <2>1, <2>2, <2>3 DEF Remembered, Stream
  <1> QED  BY <1>10, <1>11, <1>12, <1>13, <1>14 DEF EpisodesInv

LEMMA EpisodesInductive == EpisodesInv /\ [EpisodesNext]_episodeVars => EpisodesInv'
  <1> SUFFICES ASSUME EpisodesInv, [EpisodesNext]_episodeVars  PROVE  EpisodesInv'
    OBVIOUS
  <1>1. ASSUME NEW rs \in (SUBSET (1..Records)) \ {{}}, Segment(rs)  PROVE  EpisodesInv'
    BY <1>1, SegmentKeeps
  <1>2. ASSUME NEW weak \in BOOLEAN, Take(weak)  PROVE  EpisodesInv'
    BY <1>2, TakeKeeps
  <1>3. CASE EndSegment
    BY <1>3, EndKeeps
  <1>4. CASE UNCHANGED episodeVars
    <2>1. UNCHANGED <<late, space, batch, at, current, closed, episodes, episodeOf, last, runs>>
      BY <1>4 DEF episodeVars
    <2>2. EpisodeTypes' /\ Segmenting' /\ Remembered'
      BY ONLY EpisodesInv, <2>1 DEF EpisodesInv, EpisodeTypes, Segmenting, Remembered, Stream
    <2>3. ASSUME NEW e  PROVE  Whole(e)' <=> Whole(e)
      BY <2>1 DEF Whole, Strong, GapBetween
    <2>4. AllWhole'
      BY ONLY EpisodesInv, <2>1, <2>3 DEF EpisodesInv, AllWhole
    <2>5. Cut(closed, current, SubSeq(batch, 1, at - 1))'
      BY ONLY EpisodesInv, <2>1 DEF EpisodesInv, Cut
    <2> QED  BY ONLY <2>2, <2>4, <2>5 DEF EpisodesInv
  <1> QED  BY <1>1, <1>2, <1>3, <1>4 DEF EpisodesNext

(* Segmenting a stream loses no record, repeats none and misses no boundary, *)
(* after a full episode as elsewhere, and every record that was ever        *)
(* segmented is in the episode it is said to be in.                         *)
THEOREM StreamsArePartitioned == EpisodesSpec => []EpisodesPartition
  <1>1. EpisodesInv => EpisodesPartition
    <2> SUFFICES ASSUME EpisodesInv  PROVE  EpisodesPartition
      OBVIOUS
    <2>1. FlattenSeq(Append(closed, current)) = FlattenSeq(closed) \o current
      BY FlattenMore DEF EpisodesInv, EpisodeTypes
    <2> QED  BY <2>1 DEF EpisodesInv, EpisodesPartition, AllWhole, Cut, Remembered, Stream
  <1> QED  BY <1>1, EpisodesStart, EpisodesInductive, PTL DEF EpisodesSpec

=============================================================================
