---------------------------- MODULE SurfacesProofs ---------------------------
(***************************************************************************)
(* Proofs about what the surfaces of a server stand on, for any handles,   *)
(* processes, callers, agents and bounds: Conflicts, Namespaces, Gateway.  *)
(*                                                                         *)
(* Conflicts: a version is superseded on the chain it was read from or not *)
(* at all, so a chain is a prefix it had before and one new version        *)
(* (SupersedingExtends), and the version before the new one is the one the *)
(* transition was checked against (CallsSound): chains stay legal whatever *)
(* overlaps.  As long as the calls on a conflict do not overlap, that      *)
(* version is the tip (Alone), so nothing falls off; and as long as the    *)
(* mappings of a pair do not, what a mapping found closed is closed when   *)
(* it stores (Cleared).                                                    *)
(*                                                                         *)
(* Namespaces: a change that does not clobber starts from a copy that is   *)
(* the namespace intended, so it turns both into the same value, and it    *)
(* leaves the file alone only where it changes neither.                    *)
(*                                                                         *)
(* Gateway: while a process serves a call its own copy of the registry     *)
(* does not change, so what was granted when the call was asked is still   *)
(* granted when it writes and when it answers; and what a call has stored  *)
(* stays as the call wrote it, so that the reason of an error stays true.  *)
(***************************************************************************)
EXTENDS Conflicts, Gateway, SequenceTheorems, TLAPS

-----------------------------------------------------------------------------
(* Conflicts. *)

Mapping == {"find", "store", "link"}

Supersedes(c, k) == phase[c] = "supersede" /\ call[c].conflict = k
Maps(c, p)       == phase[c] \in Mapping /\ call[c].pair = p
NextIs(k, n)     == n = Len(log[k]) + 1

(* The new version n of the call of c is linked to its base, or not yet. *)
MayPoint(c, k, n) == PointTo(k, call[c].base, n) \/ UNCHANGED <<chain, superseded>>

CallsSound ==
    \A c \in Caller :
        /\ phase[c] \in Mapping => call[c].pair \in Pair /\ call[c].conflict = None
        /\ phase[c] = "supersede" =>
              /\ call[c].pair = None /\ call[c].conflict \in Known
              /\ call[c].base \in Versions(call[c].conflict)
              /\ log[call[c].conflict][call[c].base] \notin Closed
              /\ call[c].target \in Target

ChainsSound ==
    /\ \A k \in Conflict \ Known : log[k] = <<>>
    /\ \A k \in Known :
          /\ chain[k] # <<>>
          /\ \A i, j \in DOMAIN chain[k] : chain[k][i] = chain[k][j] => i = j
          /\ Current(k) \notin superseded[k]

(* TypeOK, by what the calls, the store and the history take part in. *)
LocalOK ==
    /\ phase \in [Caller -> {"idle", "find", "store", "link", "supersede"}]
    /\ call \in [Caller -> Call \cup {None}]
    /\ \A c \in Caller : phase[c] = "idle" <=> call[c] = None

StoreOK ==
    /\ pair \in [Conflict -> Pair \cup {None}]
    /\ log \in [Conflict -> Seq(Status)]
    /\ chain \in [Conflict -> Seq(Nat)]
    /\ superseded \in [Conflict -> SUBSET Nat]
    /\ edges \subseteq Pair
    /\ \A k \in Conflict : On(chain[k]) \cup superseded[k] \subseteq Versions(k)

IndexOK ==
    /\ indexed \in [Handle -> [Conflict -> SUBSET Nat]]
    /\ \A k \in Conflict, h \in Handle : indexed[h][k] \subseteq Versions(k)

HistoryOK ==
    /\ acked \subseteq Conflict \X Nat
    /\ {disturbed, failed} \subseteq SUBSET (Pair \cup Conflict)
    /\ asked \in 0..MaxTransitions /\ faults \in 0..MaxFaults

LEMMA TypeParts == TypeOK <=> LocalOK /\ StoreOK /\ IndexOK /\ HistoryOK
  BY DEF TypeOK, LocalOK, StoreOK, IndexOK, HistoryOK

Inv == LocalOK /\ StoreOK /\ IndexOK /\ HistoryOK /\ CallsSound /\ ChainsSound

-----------------------------------------------------------------------------

(* Chain new is chain old cut after version b and continued with n. *)
Cut(old, new, b, n) ==
    \E i \in DOMAIN old :
       /\ old[i] = b /\ Len(new) = i + 1 /\ new[i + 1] = n
       /\ \A j \in 1..i : new[j] = old[j]

(* What supersedes a version follows it, and what followed it falls off. *)
LEMMA SupersedingExtends ==
    ASSUME NEW s \in Seq(Nat), NEW b \in Nat, NEW n \in Nat
    PROVE  /\ Superseding(s, b, n) \in Seq(Nat)
           /\ b \notin On(s) => Superseding(s, b, n) = s
           /\ b \in On(s) => Cut(s, Superseding(s, b, n), b, n)
  <1>1. CASE b \notin On(s)
    BY <1>1 DEF Superseding
  <1>2. CASE b \in On(s)
    <2> DEFINE i == CHOOSE i \in DOMAIN s : s[i] = b
               t == SubSeq(s, 1, i)
    <2>1. i \in DOMAIN s /\ s[i] = b
      BY <1>2 DEF On
    <2>2. i \in 1..Len(s) /\ DOMAIN s = 1..Len(s)
      BY <2>1
    <2>3. \A j \in 1..i : s[j] \in Nat
      BY <2>2
    <2> HIDE DEF i
    <2>4. t \in Seq(Nat) /\ Len(t) = i /\ \A j \in 1..i : t[j] = s[j]
      <3>1. i \in Int /\ 1 \in Int
        BY <2>2
      <3>2. /\ SubSeq(s, 1, i) \in Seq(Nat)
            /\ Len(SubSeq(s, 1, i)) = IF 1 <= i THEN i - 1 + 1 ELSE 0
            /\ \A j \in 1..i - 1 + 1 : SubSeq(s, 1, i)[j] = s[1 + j - 1]
        BY <2>3, <3>1, SubSeqProperties
      <3> QED BY <3>2, <2>2
    <2>5. Superseding(s, b, n) = Append(t, n)
      BY <1>2 DEF Superseding, i
    <2> HIDE DEF t
    <2>6. /\ Append(t, n) \in Seq(Nat) /\ Len(Append(t, n)) = i + 1
          /\ \A j \in 1..i : Append(t, n)[j] = s[j]
          /\ Append(t, n)[i + 1] = n
      BY <2>4, AppendProperties
    <2>7. Cut(s, Append(t, n), b, n)
      BY <2>1, <2>6 DEF Cut
    <2> QED BY <1>2, <2>5, <2>6, <2>7
  <1> QED BY <1>1, <1>2

-----------------------------------------------------------------------------
(* The steps of a call, by what they do to phase and call. *)

LEMMA BeginLocal ==
    ASSUME LocalOK, NEW c \in Caller, NEW h \in Handle, NEW p \in Pair \cup {None},
           NEW k \in Conflict \cup {None}, NEW b \in Nat, NEW t \in Status,
           NEW ph \in {"find", "store", "link", "supersede"}, Begin(c, h, p, k, b, t, ph)
    PROVE  /\ LocalOK'
           /\ phase[c] = "idle" /\ phase'[c] = ph
           /\ call'[c] = [handle |-> h, pair |-> p, conflict |-> k, base |-> b, target |-> t]
           /\ \A d \in Caller \ {c} : phase'[d] = phase[d] /\ call'[d] = call[d]
           /\ UNCHANGED <<triage, indexed, acked, failed, faults>>
  <1>1. [handle |-> h, pair |-> p, conflict |-> k, base |-> b, target |-> t] \in Call
    BY DEF Call
  <1> QED BY <1>1, CallAssumption DEF LocalOK, Begin

LEMMA DoneLocal ==
    ASSUME LocalOK, NEW c \in Caller, Done(c)
    PROVE  /\ LocalOK' /\ phase'[c] = "idle" /\ call'[c] = None
           /\ \A d \in Caller \ {c} : phase'[d] = phase[d] /\ call'[d] = call[d]
  BY DEF LocalOK, Done

LEMMA GotoLocal ==
    ASSUME LocalOK, NEW c \in Caller, phase[c] # "idle",
           NEW ph \in {"find", "store", "link", "supersede"}, Goto(c, ph)
    PROVE  /\ LocalOK' /\ phase'[c] = ph /\ call' = call
           /\ \A d \in Caller \ {c} : phase'[d] = phase[d]
  BY DEF LocalOK, Goto

(* The statuses a call can ask for. *)
LEMMA Statuses == "open" \in Status /\ Target \subseteq Status /\ "open" \notin Target
  BY ConflictAssumption DEF Status, Target

-----------------------------------------------------------------------------
(* The steps of the store: a new conflict, or a version more. *)

LEMMA PublishStep ==
    ASSUME Inv, NEW k \in Conflict, NEW p \in Pair, Publish(k, p)
    PROVE  /\ StoreOK' /\ ChainsSound'
           /\ k \notin Known /\ Known' = Known \cup {k}
           /\ pair'[k] = p /\ log'[k] = <<"open">> /\ chain'[k] = <<1>>
           /\ superseded'[k] = {}
           /\ \A l \in Conflict \ {k} :
                 /\ pair'[l] = pair[l] /\ log'[l] = log[l] /\ chain'[l] = chain[l]
                 /\ superseded'[l] = superseded[l]
  <1> USE DEF Inv, StoreOK
  <1>1. p # None /\ k \notin Known
    BY ConflictAssumption DEF Publish
  <1>2. /\ pair'[k] = p /\ log'[k] = <<"open">> /\ chain'[k] = <<1>>
        /\ superseded' = superseded /\ edges' = edges
        /\ \A l \in Conflict \ {k} :
              pair'[l] = pair[l] /\ log'[l] = log[l] /\ chain'[l] = chain[l]
    BY DEF Publish
  <1>3. superseded[k] = {}
    BY <1>1 DEF ChainsSound, Versions
  <1>4. Known' = Known \cup {k}
    BY <1>1, <1>2 DEF Known
  <1>5. <<"open">> \in Seq(Status) /\ <<1>> \in Seq(Nat)
    BY Statuses
  <1>6. /\ pair' \in [Conflict -> Pair \cup {None}]
        /\ log' \in [Conflict -> Seq(Status)]
        /\ chain' \in [Conflict -> Seq(Nat)]
    BY <1>5 DEF Publish
  <1>7. /\ DOMAIN <<1>> = {1} /\ DOMAIN <<"open">> = {1} /\ On(<<1>>) = {1} /\ <<1>>[1] = 1
        /\ <<1>> # <<>> /\ Tip(<<1>>) = 1
    BY DEF On, Tip
  <1>8. StoreOK'
    <2>1. ASSUME NEW l \in Conflict
          PROVE  On(chain'[l]) \cup superseded'[l] \subseteq DOMAIN (log'[l])
      <3>1. CASE l = k
        BY <1>2, <1>3, <1>7, <3>1
      <3>2. CASE l # k
        BY <1>2, <3>2 DEF Versions
      <3> QED BY <3>1, <3>2
    <2> QED BY <1>2, <1>6, <2>1 DEF Versions
  <1>9. ChainsSound'
    <2>1. \A l \in Conflict \ Known' : log'[l] = <<>>
      BY <1>2, <1>4 DEF ChainsSound
    <2>2. ASSUME NEW l \in Known'
          PROVE  /\ chain'[l] # <<>>
                 /\ \A i, j \in DOMAIN (chain'[l]) : chain'[l][i] = chain'[l][j] => i = j
                 /\ Tip(chain'[l]) \notin superseded'[l]
      <3>1. CASE l = k
        <4>1. chain'[l] = <<1>> /\ superseded'[l] = {}
          BY <1>2, <1>3, <3>1
        <4>2. \A i, j \in DOMAIN <<1>> : <<1>>[i] = <<1>>[j] => i = j
          BY <1>7
        <4> QED BY <1>7, <4>1, <4>2
      <3>2. CASE l # k
        BY <1>2, <1>4, <2>2, <3>2 DEF ChainsSound, Current, Known
      <3> QED BY <3>1, <3>2
    <2> QED BY <2>1, <2>2 DEF ChainsSound, Current
  <1> QED BY <1>1, <1>2, <1>3, <1>4, <1>8, <1>9

(* The chain of k after version n was made from b: as before, or cut. *)
Continued(old, new, b, n) == new = old \/ Cut(old, new, b, n)

LEMMA OneMore == ASSUME NEW m \in Nat PROVE 1..(m + 1) = 1..m \cup {m + 1} /\ m + 1 \notin 1..m
  OBVIOUS

LEMMA VersionStep ==
    ASSUME Inv, NEW c \in Caller, NEW k \in Conflict, Supersedes(c, k), AddVersion(c),
           NEW n \in Nat, NextIs(k, n),
           MayPoint(c, k, n)
    PROVE  /\ StoreOK' /\ ChainsSound'
           /\ k \in Known /\ n \in Nat
           /\ pair' = pair /\ edges' = edges /\ disturbed' = disturbed /\ asked' = asked
           /\ Versions(k)' = Versions(k) \cup {n} /\ n \notin Versions(k)
           /\ \A v \in Versions(k) : log'[k][v] = log[k][v]
           /\ log'[k][n] = call[c].target
           /\ Continued(chain[k], chain'[k], call[c].base, n)
           /\ superseded'[k] \subseteq superseded[k] \cup {call[c].base}
           /\ \A l \in Conflict \ {k} :
                 log'[l] = log[l] /\ chain'[l] = chain[l] /\ superseded'[l] = superseded[l]
  <1> USE DEF Inv, StoreOK
  <1> DEFINE b == call[c].base
             t == call[c].target
  <1>0. phase[c] = "supersede" /\ k = call[c].conflict /\ n = Len(log[k]) + 1
    BY DEF Supersedes, NextIs
  <1>1. k \in Known /\ k \in Conflict /\ b \in Versions(k) /\ t \in Status
    BY <1>0, Statuses DEF CallsSound, Known
  <1>2. log[k] \in Seq(Status) /\ chain[k] \in Seq(Nat) /\ n \in Nat /\ b \in Nat
        /\ Versions(k) = 1..Len(log[k]) /\ Len(log[k]) \in Nat
        /\ DOMAIN chain[k] = 1..Len(chain[k]) /\ Len(chain[k]) \in Nat
    BY <1>0, <1>1 DEF Versions
  <1>3. /\ Append(log[k], t) \in Seq(Status) /\ Len(Append(log[k], t)) = n
        /\ \A v \in 1..Len(log[k]) : Append(log[k], t)[v] = log[k][v]
        /\ Append(log[k], t)[n] = t
    BY <1>0, <1>1, <1>2, AppendProperties
  <1>4. log' = [log EXCEPT ![k] = Append(log[k], t)] /\ UNCHANGED <<pair, edges, disturbed, asked>>
    BY <1>0 DEF AddVersion
  <1>5. log' \in [Conflict -> Seq(Status)] /\ log'[k] = Append(log[k], t)
        /\ \A l \in Conflict \ {k} : log'[l] = log[l]
    BY <1>1, <1>3, <1>4
  <1>6. Versions(k)' = Versions(k) \cup {n} /\ n \notin Versions(k)
    <2>1. DOMAIN (log'[k]) = 1..n
      BY <1>3, <1>5
    <2>2. 1..n = 1..Len(log[k]) \cup {n} /\ n \notin 1..Len(log[k])
      BY <1>0, <1>2, OneMore
    <2> QED BY <1>2, <2>1, <2>2 DEF Versions
  <1>7. /\ chain' \in [Conflict -> Seq(Nat)] /\ superseded' \in [Conflict -> SUBSET Nat]
        /\ Continued(chain[k], chain'[k], b, n)
        /\ superseded'[k] \subseteq superseded[k] \cup {b}
        /\ b \in superseded'[k] /\ b \in On(chain[k]) =>
              chain'[k] # chain[k] \/ b \in superseded[k]
        /\ \A l \in Conflict \ {k} : chain'[l] = chain[l] /\ superseded'[l] = superseded[l]
    <2>1. CASE UNCHANGED <<chain, superseded>>
      BY <2>1 DEF Continued
    <2>2. CASE PointTo(k, b, n)
      <3> DEFINE s == Superseding(chain[k], b, n)
      <3>1. /\ chain' = [chain EXCEPT ![k] = s]
            /\ superseded' = [superseded EXCEPT ![k] = superseded[k] \cup {b}]
        BY <2>2 DEF PointTo
      <3>2. /\ s \in Seq(Nat) /\ Continued(chain[k], s, b, n)
            /\ b \in On(chain[k]) => s # chain[k]
        <4>0. /\ s \in Seq(Nat)
              /\ b \notin On(chain[k]) => s = chain[k]
              /\ b \in On(chain[k]) => Cut(chain[k], s, b, n)
          BY <1>2, SupersedingExtends
        <4> HIDE DEF s
        <4>1. CASE b \notin On(chain[k])
          BY <4>0, <4>1 DEF Continued
        <4>2. CASE b \in On(chain[k])
          <5>1. n \notin On(chain[k])
            BY <1>1, <1>6
          <5>2. PICK i \in DOMAIN chain[k] :
                    /\ chain[k][i] = b
                    /\ Len(s) = i + 1
                    /\ \A j \in 1..i : s[j] = chain[k][j]
                    /\ s[i + 1] = n
            BY <4>0, <4>2 DEF Cut
          <5>3. n \in On(s)
            <6>1. DOMAIN s = 1..(i + 1) /\ i + 1 \in 1..(i + 1)
              BY <1>2, <4>0, <5>2
            <6> QED BY <5>2, <6>1 DEF On
          <5> QED BY <4>0, <4>2, <5>1, <5>3 DEF Continued
        <4> QED BY <4>1, <4>2
      <3> HIDE DEF s
      <3> QED BY <1>1, <1>2, <3>1, <3>2
    <2> QED BY <2>1, <2>2 DEF MayPoint
  <1>8. On(chain'[k]) \subseteq On(chain[k]) \cup {n}
    <2>1. chain'[k] \in Seq(Nat)
      BY <1>1, <1>7
    <2>2. CASE chain'[k] = chain[k]
      BY <2>2
    <2>3. CASE chain'[k] # chain[k]
      <3>1. PICK i \in DOMAIN chain[k] :
                /\ Len(chain'[k]) = i + 1 /\ chain'[k][i + 1] = n
                /\ \A j \in 1..i : chain'[k][j] = chain[k][j]
        BY <1>7, <2>3 DEF Continued, Cut
      <3>2. DOMAIN (chain'[k]) = 1..(i + 1) /\ i \in 1..Len(chain[k])
        BY <1>2, <2>1, <3>1
      <3>3. ASSUME NEW j \in 1..(i + 1) PROVE chain'[k][j] \in On(chain[k]) \cup {n}
        <4>1. CASE j = i + 1
          BY <3>1, <4>1
        <4>2. CASE j # i + 1
          <5>1. j \in 1..i /\ j \in DOMAIN chain[k]
            BY <1>2, <3>2, <4>2
          <5> QED BY <3>1, <5>1 DEF On
        <4> QED BY <4>1, <4>2
      <3> QED BY <3>2, <3>3 DEF On
    <2> QED BY <2>2, <2>3
  <1>9. StoreOK'
    <2>1. ASSUME NEW l \in Conflict
          PROVE  On(chain'[l]) \cup superseded'[l] \subseteq DOMAIN (log'[l])
      <3>1. CASE l = k
        BY <1>1, <1>6, <1>7, <1>8, <3>1 DEF Versions
      <3>2. CASE l # k
        BY <1>5, <1>7, <3>2 DEF Versions
      <3> QED BY <3>1, <3>2
    <2> QED BY <1>4, <1>5, <1>7, <2>1 DEF Versions
  <1>10. ChainsSound'
    <2>1. Known' = Known
      BY <1>4 DEF Known
    <2>2. \A l \in Conflict \ Known' : log'[l] = <<>>
      BY <1>1, <1>5, <2>1 DEF ChainsSound
    <2>3. /\ chain'[k] # <<>>
          /\ \A i, j \in DOMAIN (chain'[k]) : chain'[k][i] = chain'[k][j] => i = j
          /\ Tip(chain'[k]) \notin superseded'[k]
      <3>1. /\ chain'[k] \in Seq(Nat) /\ chain[k] # <<>> /\ Len(chain[k]) > 0
            /\ \A i, j \in DOMAIN chain[k] : chain[k][i] = chain[k][j] => i = j
            /\ Tip(chain[k]) \notin superseded[k] /\ Tip(chain[k]) \in On(chain[k])
        <4>1. /\ chain'[k] \in Seq(Nat) /\ chain[k] # <<>>
              /\ \A i, j \in DOMAIN chain[k] : chain[k][i] = chain[k][j] => i = j
              /\ Tip(chain[k]) \notin superseded[k]
          BY <1>1, <1>7 DEF ChainsSound, Current
        <4>2. Len(chain[k]) \in DOMAIN chain[k]
          BY <1>2, <4>1
        <4>3. Tip(chain[k]) \in On(chain[k])
          BY <4>2 DEF Tip, On
        <4>4. Len(chain[k]) > 0
          BY <1>2, <4>2
        <4> QED BY <4>1, <4>3, <4>4
      <3>2. CASE chain'[k] = chain[k]
        BY <1>7, <3>1, <3>2
      <3>3. CASE chain'[k] # chain[k]
        <4>1. PICK i \in DOMAIN chain[k] :
                  /\ chain[k][i] = b /\ Len(chain'[k]) = i + 1 /\ chain'[k][i + 1] = n
                  /\ \A j \in 1..i : chain'[k][j] = chain[k][j]
          BY <1>7, <3>3 DEF Continued, Cut
        <4>2. ASSUME NEW j \in 1..i
              PROVE  j \in DOMAIN chain[k] /\ chain'[k][j] \in On(chain[k])
          <5>1. j \in DOMAIN chain[k]
            BY <1>2, <4>1
          <5> QED BY <4>1, <5>1 DEF On
        <4>3. \A j \in 1..i : chain'[k][j] # n
          BY <1>1, <1>6, <4>2
        <4>4. DOMAIN (chain'[k]) = 1..(i + 1) /\ i \in Nat
          BY <1>2, <3>1, <4>1
        <4>5. Tip(chain'[k]) = n /\ n \notin superseded'[k]
          BY <1>1, <1>6, <1>7, <4>1 DEF Tip
        <4>6. ASSUME NEW x \in 1..(i + 1), NEW y \in 1..(i + 1), chain'[k][x] = chain'[k][y]
              PROVE  x = y
          <5>1. CASE x = i + 1 \/ y = i + 1
            BY <4>1, <4>3, <4>4, <4>6, <5>1
          <5>2. CASE x \in 1..i /\ y \in 1..i
            BY <3>1, <4>1, <4>2, <4>6, <5>2
          <5> QED BY <4>4, <5>1, <5>2
        <4>7. chain'[k] # <<>>
          BY <4>1, <4>4
        <4> QED BY <4>4, <4>5, <4>6, <4>7
      <3> QED BY <3>2, <3>3
    <2>4. ASSUME NEW l \in Known, l # k
          PROVE  chain'[l] = chain[l] /\ superseded'[l] = superseded[l]
      BY <1>7, <2>4 DEF Known
    <2>5. ASSUME NEW l \in Known
          PROVE  /\ chain'[l] # <<>>
                 /\ \A i, j \in DOMAIN (chain'[l]) : chain'[l][i] = chain'[l][j] => i = j
                 /\ Tip(chain'[l]) \notin superseded'[l]
      <3>1. CASE l = k
        BY <2>3, <3>1
      <3>2. CASE l # k
        BY <2>4, <3>2 DEF ChainsSound, Current
      <3> QED BY <3>1, <3>2
    <2> QED BY <2>1, <2>2, <2>5 DEF ChainsSound, Current
  <1> QED BY <1>1, <1>2, <1>3, <1>4, <1>5, <1>6, <1>7, <1>9, <1>10

(* What is in an index stays there, and what is added to one was written. *)
LEMMA IndexStep ==
    ASSUME IndexOK, \A k \in Conflict : Versions(k) \subseteq Versions(k)',
           NEW h \in Handle, NEW k \in Conflict, NEW vs \in SUBSET Nat,
           vs \subseteq Versions(k)' \cup indexed[h][k],
           indexed' = [indexed EXCEPT ![h][k] = vs]
    PROVE  IndexOK'
  <1>1. /\ indexed' \in [Handle -> [Conflict -> SUBSET Nat]]
        /\ \A g \in Handle, l \in Conflict :
              indexed'[g][l] = IF g = h /\ l = k THEN vs ELSE indexed[g][l]
    BY DEF IndexOK
  <1>2. \A g \in Handle, l \in Conflict : indexed[g][l] \subseteq Versions(l)'
    BY DEF IndexOK
  <1>3. \A g \in Handle, l \in Conflict : indexed'[g][l] \subseteq Versions(l)'
    BY <1>1, <1>2
  <1> QED BY <1>1, <1>3 DEF IndexOK

(* What a call has been checked against does not change while others work. *)
LEMMA CallsStep ==
    ASSUME CallsSound, Known \subseteq Known',
           NEW c \in Caller,
           \A d \in Caller \ {c} : phase'[d] = phase[d] /\ call'[d] = call[d],
           \A k \in Known : \A v \in Versions(k) :
               v \in Versions(k)' /\ log'[k][v] = log[k][v],
           \/ phase'[c] = "idle"
           \/ phase'[c] \in Mapping /\ call'[c].pair \in Pair /\ call'[c].conflict = None
           \/ /\ phase'[c] = "supersede"
              /\ call'[c].pair = None /\ call'[c].conflict \in Known'
              /\ call'[c].base \in DOMAIN (log'[call'[c].conflict])
              /\ log'[call'[c].conflict][call'[c].base] \notin Closed
              /\ call'[c].target \in Target
    PROVE  CallsSound'
  <1>1. ASSUME NEW d \in Caller
        PROVE  /\ phase'[d] \in Mapping => call'[d].pair \in Pair /\ call'[d].conflict = None
               /\ phase'[d] = "supersede" =>
                     /\ call'[d].pair = None /\ call'[d].conflict \in Known'
                     /\ call'[d].base \in DOMAIN (log'[call'[d].conflict])
                     /\ log'[call'[d].conflict][call'[d].base] \notin Closed
                     /\ call'[d].target \in Target
    <2>1. CASE d = c
      BY <2>1 DEF Mapping, Versions
    <2>2. CASE d # c
      BY <2>2 DEF CallsSound, Versions
    <2> QED BY <2>1, <2>2
  <1> QED BY <1>1 DEF CallsSound, Versions

LEMMA FailingStep ==
    ASSUME Inv, NEW c \in Caller, Failing(c)
    PROVE  /\ LocalOK' /\ phase[c] # "idle" /\ phase'[c] = "idle"
           /\ \A d \in Caller \ {c} : phase'[d] = phase[d] /\ call'[d] = call[d]
           /\ failed' = failed \cup ({call[c].pair, call[c].conflict} \ {None})
           /\ failed' \subseteq Pair \cup Conflict /\ faults' \in 0..MaxFaults
  <1>1. call[c] \in Call
    BY DEF Inv, LocalOK, Failing
  <1>2. failed' = failed \cup ({call[c].pair, call[c].conflict} \ {None})
    BY DEF Failing
  <1>3. failed' \subseteq Pair \cup Conflict
    BY <1>1, <1>2 DEF Call, Inv, HistoryOK
  <1>4. faults' \in 0..MaxFaults
    BY ConflictAssumption DEF Failing, Inv, HistoryOK
  <1> QED BY <1>2, <1>3, <1>4, DoneLocal DEF Failing, Inv

(* Indexes that stay as they are keep naming versions that were written. *)
LEMMA IndexStays ==
    ASSUME IndexOK, \A k \in Conflict : Versions(k) \subseteq Versions(k)', UNCHANGED indexed
    PROVE  IndexOK'
  BY DEF IndexOK

(* Nothing in the store changes. *)
LEMMA StoreStays ==
    ASSUME Inv, UNCHANGED triage
    PROVE  /\ StoreOK' /\ ChainsSound' /\ Known' = Known
           /\ \A k \in Conflict : Versions(k)' = Versions(k)
           /\ \A k \in Known : \A v \in Versions(k) :
                  v \in Versions(k)' /\ log'[k][v] = log[k][v]
  BY DEF Inv, triage, StoreOK, ChainsSound, Known, Versions, Current

LEMMA PublishKeeps ==
    ASSUME Inv, NEW k \in Conflict, NEW p \in Pair, Publish(k, p)
    PROVE  /\ \A l \in Conflict : Versions(l) \subseteq Versions(l)'
           /\ Known \subseteq Known' /\ 1 \in Versions(k)'
           /\ \A l \in Known : \A v \in Versions(l) :
                  v \in Versions(l)' /\ log'[l][v] = log[l][v]
  <1>1. /\ k \notin Known /\ Known' = Known \cup {k} /\ log'[k] = <<"open">>
        /\ \A l \in Conflict \ {k} : log'[l] = log[l]
    BY PublishStep
  <1>2. log[k] = <<>>
    BY <1>1 DEF Inv, ChainsSound
  <1>3. \A l \in Known : l \in Conflict \ {k}
    BY <1>1 DEF Known
  <1>4. DOMAIN <<"open">> = {1}
    OBVIOUS
  <1> QED BY <1>1, <1>2, <1>3, <1>4 DEF Versions

LEMMA SupersedesOne ==
    ASSUME Inv, NEW c \in Caller, phase[c] = "supersede"
    PROVE  \E k \in Conflict, n \in Nat : k \in Known /\ Supersedes(c, k) /\ NextIs(k, n)
  <1>1. call[c].conflict \in Known
    BY DEF Inv, CallsSound
  <1>2. log[call[c].conflict] \in Seq(Status)
    BY <1>1 DEF Inv, StoreOK, Known
  <1>3. Len(log[call[c].conflict]) + 1 \in Nat
    BY <1>2
  <1> QED BY <1>1, <1>3 DEF Supersedes, NextIs, Known

LEMMA VersionKeeps ==
    ASSUME Inv, NEW c \in Caller, NEW k \in Conflict, Supersedes(c, k), AddVersion(c),
           NEW n \in Nat, NextIs(k, n),
           MayPoint(c, k, n)
    PROVE  /\ \A l \in Conflict : Versions(l) \subseteq Versions(l)'
           /\ Known' = Known
           /\ \A l \in Known : \A v \in Versions(l) :
                  v \in Versions(l)' /\ log'[l][v] = log[l][v]
  <1>1. /\ k \in Known /\ pair' = pair
        /\ Versions(k)' = Versions(k) \cup {n}
        /\ \A v \in Versions(k) : log'[k][v] = log[k][v]
        /\ \A l \in Conflict \ {k} : log'[l] = log[l]
    BY VersionStep
  <1>2. \A l \in Conflict \ {k} : Versions(l)' = Versions(l)
    BY <1>1 DEF Versions
  <1>3. Known' = Known
    BY <1>1 DEF Known
  <1> QED BY <1>1, <1>2, <1>3 DEF Known

-----------------------------------------------------------------------------

LEMMA InvKept == Inv /\ [Next]_vars => Inv'
  <1> SUFFICES ASSUME Inv, [Next]_vars PROVE Inv'
    OBVIOUS
  <1> USE DEF Inv
  <1>1. ASSUME NEW c \in Caller, NEW h \in Handle, NEW p \in Pair, BeginMap(c, h, p)
        PROVE  Inv'
    <2>1. /\ LocalOK' /\ phase'[c] = "find"
          /\ call'[c] = [handle |-> h, pair |-> p, conflict |-> None, base |-> 0,
                         target |-> "open"]
          /\ \A d \in Caller \ {c} : phase'[d] = phase[d] /\ call'[d] = call[d]
          /\ UNCHANGED <<triage, indexed, acked, failed, faults>>
      BY <1>1, Statuses, BeginLocal DEF BeginMap
    <2>2. HistoryOK'
      BY <1>1, <2>1 DEF BeginMap, HistoryOK
    <2>3. StoreOK' /\ ChainsSound' /\ IndexOK'
      BY <2>1, StoreStays, IndexStays
    <2>4. CallsSound'
      BY <2>1, StoreStays, CallsStep DEF Mapping
    <2> QED BY <2>1, <2>2, <2>3, <2>4
  <1>2. ASSUME NEW c \in Caller, Find(c) PROVE Inv'
    <2>1. /\ UNCHANGED <<triage, indexed, acked, failed, asked, faults>>
          /\ phase[c] = "find" /\ call[c].pair \in Pair /\ call[c].conflict = None
          /\ Done(c) \/ Goto(c, "store")
      BY <1>2 DEF Find, CallsSound, Mapping
    <2>2. /\ LocalOK' /\ (phase'[c] = "idle" \/ (phase'[c] = "store" /\ call' = call))
          /\ \A d \in Caller \ {c} : phase'[d] = phase[d] /\ call'[d] = call[d]
      BY <2>1, DoneLocal, GotoLocal
    <2>3. HistoryOK'
      BY <1>2, <2>1 DEF Find, HistoryOK
    <2>4. StoreOK' /\ ChainsSound' /\ IndexOK'
      BY <2>1, StoreStays, IndexStays
    <2>5. CallsSound'
      BY <2>1, <2>2, StoreStays, CallsStep DEF Mapping
    <2> QED BY <2>2, <2>3, <2>4, <2>5
  <1>3. ASSUME NEW c \in Caller, NEW k \in Conflict, Store(c, k) PROVE Inv'
    <2>1. /\ phase[c] = "store" /\ call[c].pair \in Pair /\ call[c].conflict = None
          /\ Publish(k, call[c].pair) /\ Goto(c, "link") /\ UNCHANGED <<failed, faults>>
          /\ indexed' = [indexed EXCEPT ![call[c].handle][k] = {1}]
          /\ UNCHANGED <<acked, disturbed, asked>>
      BY <1>3 DEF Store, Publish, CallsSound, Mapping
    <2>2. call[c] \in Call
      BY <2>1 DEF LocalOK
    <2>3. /\ LocalOK' /\ phase'[c] = "link" /\ call' = call
          /\ \A d \in Caller \ {c} : phase'[d] = phase[d] /\ call'[d] = call[d]
      BY <2>1, GotoLocal
    <2>4. HistoryOK'
      BY <2>1 DEF HistoryOK
    <2>5. StoreOK' /\ ChainsSound'
      BY <2>1, PublishStep
    <2>6. IndexOK'
      <3>1. call[c].handle \in Handle
        BY <2>2 DEF Call
      <3>2. 1 \in Versions(k)' /\ \A l \in Conflict : Versions(l) \subseteq Versions(l)'
        BY <2>1, PublishKeeps
      <3>3. {1} \in SUBSET Nat /\ {1} \subseteq Versions(k)' \cup indexed[call[c].handle][k]
        BY <3>2
      <3> QED BY <2>1, <3>1, <3>2, <3>3, IndexStep
    <2>7. CallsSound'
      BY <2>1, <2>3, PublishKeeps, CallsStep DEF Mapping
    <2> QED BY <2>3, <2>4, <2>5, <2>6, <2>7
  <1>4. ASSUME NEW c \in Caller, Link(c) PROVE Inv'
    <2>1. /\ phase[c] = "link" /\ call[c].pair \in Pair
          /\ edges' = edges \cup {call[c].pair} /\ Done(c)
          /\ UNCHANGED <<pair, log, chain, superseded, indexed, acked, disturbed, failed,
                         asked, faults>>
      BY <1>4 DEF Link, CallsSound, Mapping
    <2>2. /\ LocalOK' /\ phase'[c] = "idle"
          /\ \A d \in Caller \ {c} : phase'[d] = phase[d] /\ call'[d] = call[d]
      BY <2>1, DoneLocal
    <2>3. HistoryOK' /\ StoreOK' /\ ChainsSound' /\ IndexOK'
      BY <2>1 DEF HistoryOK, StoreOK, ChainsSound, IndexOK, Known, Versions, Current
    <2>4. /\ Known \subseteq Known'
          /\ \A l \in Known : \A v \in Versions(l) :
                 v \in Versions(l)' /\ log'[l][v] = log[l][v]
      BY <2>1 DEF Known, Versions
    <2>5. CallsSound'
      BY <2>2, <2>4, CallsStep
    <2> QED BY <2>2, <2>3, <2>5
  <1>5. ASSUME NEW c \in Caller, NEW h \in Handle, NEW k \in Conflict, NEW t \in Target,
               BeginTransition(c, h, k, t)
        PROVE  Inv'
    <2>1. /\ k \in Known /\ Current(k) \in Versions(k) /\ Current(k) \in Nat
          /\ log[k][Current(k)] \notin Closed
      <3>1. k \in Known /\ log[k][Current(k)] \notin Closed
        BY <1>5 DEF BeginTransition, Allowed, StatusOf
      <3>2. chain[k] \in Seq(Nat) /\ chain[k] # <<>>
        BY <3>1 DEF StoreOK, ChainsSound
      <3>3. Len(chain[k]) \in DOMAIN chain[k]
        BY <3>2
      <3>4. Current(k) \in On(chain[k]) /\ Current(k) \in Nat
        BY <3>2, <3>3 DEF Current, Tip, On
      <3> QED BY <3>1, <3>4 DEF StoreOK
    <2>2. /\ LocalOK' /\ phase'[c] = "supersede"
          /\ call'[c] = [handle |-> h, pair |-> None, conflict |-> k, base |-> Current(k),
                         target |-> t]
          /\ \A d \in Caller \ {c} : phase'[d] = phase[d] /\ call'[d] = call[d]
          /\ UNCHANGED <<triage, indexed, acked, failed, faults>>
      BY <1>5, <2>1, Statuses, BeginLocal DEF BeginTransition
    <2>3. HistoryOK'
      BY <1>5, <2>2, ConflictAssumption DEF BeginTransition, HistoryOK
    <2>4. StoreOK' /\ ChainsSound' /\ IndexOK'
      BY <2>2, StoreStays, IndexStays
    <2>5. /\ call'[c].pair = None /\ call'[c].conflict = k /\ call'[c].base = Current(k)
          /\ call'[c].target = t /\ Known' = Known /\ log' = log
      BY <2>2, StoreStays DEF triage
    <2>6. CallsSound'
      BY <2>1, <2>2, <2>5, StoreStays, CallsStep DEF Versions
    <2> QED BY <2>2, <2>3, <2>4, <2>6
  <1>6. ASSUME NEW c \in Caller, Supersede(c) PROVE Inv'
    <2>0. PICK k \in Conflict, n \in Nat : k \in Known /\ Supersedes(c, k) /\ NextIs(k, n)
      BY <1>6, SupersedesOne DEF Supersede
    <2>1. /\ AddVersion(c) /\ MayPoint(c, k, n)
          /\ indexed' = [indexed EXCEPT ![call[c].handle][k] =
                            indexed[call[c].handle][k] \cup {n}]
          /\ acked' = acked \cup {<<k, n>>} /\ Done(c) /\ UNCHANGED <<failed, faults>>
      BY <1>6, <2>0 DEF Supersede, Supersedes, NextIs, MayPoint
    <2>2. /\ StoreOK' /\ ChainsSound' /\ k \in Conflict
          /\ Versions(k)' = Versions(k) \cup {n} /\ disturbed' = disturbed /\ asked' = asked
      BY <2>0, <2>1, VersionStep DEF Known
    <2>3. /\ LocalOK' /\ phase'[c] = "idle"
          /\ \A d \in Caller \ {c} : phase'[d] = phase[d] /\ call'[d] = call[d]
      BY <2>1, DoneLocal
    <2>4. HistoryOK'
      BY <2>1, <2>2 DEF HistoryOK
    <2>5. call[c].handle \in Handle
      BY <2>0 DEF LocalOK, Call, Supersedes
    <2>6. IndexOK'
      <3> DEFINE vs == indexed[call[c].handle][k] \cup {n}
      <3>1. indexed[call[c].handle][k] \subseteq Nat
        BY <2>0, <2>5 DEF IndexOK
      <3>2. vs \in SUBSET Nat
        BY <2>0, <3>1
      <3>3. \A l \in Conflict : Versions(l) \subseteq Versions(l)'
        BY <2>0, <2>1, VersionKeeps
      <3>4. vs \subseteq Versions(k)' \cup indexed[call[c].handle][k]
        BY <2>2
      <3>5. indexed' = [indexed EXCEPT ![call[c].handle][k] = vs]
        BY <2>1
      <3> HIDE DEF vs
      <3> QED BY <2>0, <2>5, <3>2, <3>3, <3>4, <3>5, IndexStep
    <2>7. CallsSound'
      BY <2>0, <2>1, <2>3, VersionKeeps, CallsStep
    <2> QED BY <2>2, <2>3, <2>4, <2>6, <2>7
  <1>7. ASSUME NEW c \in Caller, Fail(c) PROVE Inv'
    <2>1. Failing(c) /\ UNCHANGED <<triage, indexed, acked, disturbed, asked>>
      BY <1>7 DEF Fail
    <2>2. HistoryOK'
      BY <2>1, FailingStep DEF HistoryOK
    <2>3. CallsSound'
      BY <2>1, FailingStep, StoreStays, CallsStep
    <2> QED BY <2>1, <2>2, <2>3, FailingStep, StoreStays, IndexStays
  <1>8. ASSUME NEW c \in Caller, NEW k \in Conflict, FailStoring(c, k) PROVE Inv'
    <2>1. /\ phase[c] = "store" /\ call[c].pair \in Pair /\ Failing(c)
          /\ Publish(k, call[c].pair) /\ UNCHANGED indexed
          /\ UNCHANGED <<acked, disturbed, asked>>
      BY <1>8 DEF FailStoring, Publish, CallsSound, Mapping
    <2>2. HistoryOK'
      BY <2>1, FailingStep DEF HistoryOK
    <2>3. CallsSound'
      BY <2>1, FailingStep, PublishKeeps, CallsStep
    <2> QED BY <2>1, <2>2, <2>3, FailingStep, PublishStep, PublishKeeps, IndexStays
  <1>9. ASSUME NEW c \in Caller, FailSuperseding(c) PROVE Inv'
    <2>0. PICK k \in Conflict, n \in Nat : k \in Known /\ Supersedes(c, k) /\ NextIs(k, n)
      BY <1>9, SupersedesOne DEF FailSuperseding
    <2>1. /\ Failing(c) /\ AddVersion(c)
          /\ MayPoint(c, k, n) /\ UNCHANGED <<indexed, acked>>
      BY <1>9, <2>0 DEF FailSuperseding, Supersedes, NextIs, MayPoint
    <2>2. StoreOK' /\ ChainsSound' /\ disturbed' = disturbed /\ asked' = asked
      BY <2>0, <2>1, VersionStep
    <2>3. HistoryOK'
      BY <2>1, <2>2, FailingStep DEF HistoryOK
    <2>4. CallsSound'
      BY <2>0, <2>1, FailingStep, VersionKeeps, CallsStep
    <2>5. IndexOK'
      BY <2>0, <2>1, VersionKeeps, IndexStays
    <2> QED BY <2>1, <2>2, <2>3, <2>4, <2>5, FailingStep
  <1>10. ASSUME NEW h \in Handle, Connect(h) PROVE Inv'
    <2>1. /\ UNCHANGED <<triage, local, acked, disturbed, failed, asked, faults>>
          /\ \/ \E g \in Handle : indexed' = [indexed EXCEPT ![h] = indexed[g]]
             \/ indexed' = [indexed EXCEPT ![h] = [k \in Conflict |-> Versions(k)]]
      BY <1>10 DEF Connect
    <2>2. /\ LocalOK' /\ HistoryOK' /\ StoreOK' /\ ChainsSound' /\ CallsSound'
          /\ \A k \in Conflict : Versions(k)' = Versions(k)
      BY <2>1 DEF triage, local, LocalOK, HistoryOK, StoreOK, ChainsSound, CallsSound, Known,
                  Versions, Current
    <2>3. \A k \in Conflict : Versions(k) \in SUBSET Nat
      BY DEF StoreOK, Versions
    <2>4. IndexOK'
      <3>1. CASE \E g \in Handle : indexed' = [indexed EXCEPT ![h] = indexed[g]]
        BY <2>2, <3>1 DEF IndexOK
      <3>2. CASE indexed' = [indexed EXCEPT ![h] = [k \in Conflict |-> Versions(k)]]
        BY <2>2, <2>3, <3>2 DEF IndexOK
      <3> QED BY <2>1, <3>1, <3>2
    <2> QED BY <2>2, <2>4
  <1>11. CASE UNCHANGED vars
    BY <1>11 DEF vars, triage, local, LocalOK, HistoryOK, StoreOK, IndexOK, ChainsSound,
                 CallsSound, Known, Versions, Current
  <1> QED BY <1>1, <1>2, <1>3, <1>4, <1>5, <1>6, <1>7, <1>8, <1>9, <1>10, <1>11 DEF Next

LEMMA InvAlways == Spec => []Inv
  <1>1. Init => Inv
    <2> SUFFICES ASSUME Init PROVE Inv
      OBVIOUS
    <2>1. LocalOK /\ CallsSound
      BY DEF Init, LocalOK, CallsSound, Mapping
    <2>2. HistoryOK
      BY ConflictAssumption DEF Init, HistoryOK
    <2>3. Known = {} /\ \A k \in Conflict : log[k] = <<>> /\ chain[k] = <<>>
      BY DEF Init, Known
    <2>4. ChainsSound
      BY <2>3 DEF ChainsSound
    <2>5. On(<<>>) = {} /\ <<>> \in Seq(Nat) /\ <<>> \in Seq(Status)
      BY DEF On
    <2>6. StoreOK /\ IndexOK
      BY <2>3, <2>5 DEF Init, StoreOK, IndexOK
    <2> QED BY <2>1, <2>2, <2>4, <2>6 DEF Inv
  <1> QED BY <1>1, InvKept, PTL DEF Spec

(* Calls, chains, sidecars and indexes keep their types, and name versions  *)
(* that were written (db.py map_conflict, update_conflict_status).          *)
THEOREM ConflictTypes == Spec => []TypeOK
  <1>1. Inv => TypeOK
    BY TypeParts DEF Inv
  <1> QED BY <1>1, InvAlways, PTL

-----------------------------------------------------------------------------
(* What a step does to the store: nothing but to draw an edge, a conflict   *)
(* more, or a version more.                                                 *)

Same == UNCHANGED <<pair, log, chain, superseded>>

(* The call that published k goes on to link it, or has failed. *)
Publishes ==
    \E c \in Caller, k \in Conflict :
        /\ phase[c] = "store" /\ Publish(k, call[c].pair)
        /\ \/ phase'[c] = "link" /\ call'[c] = call[c]
           \/ phase'[c] = "idle" /\ call[c].pair \in failed'

AddsVersion ==
    \E c \in Caller, k \in Conflict, n \in Nat :
        /\ k \in Known /\ Supersedes(c, k) /\ NextIs(k, n)
        /\ AddVersion(c) /\ MayPoint(c, k, n)
        /\ phase'[c] = "idle"

LEMMA StoreSteps == Inv /\ [Next]_vars => Same \/ Publishes \/ AddsVersion
  <1> SUFFICES ASSUME Inv, [Next]_vars PROVE Same \/ Publishes \/ AddsVersion
    OBVIOUS
  <1>1. ASSUME NEW c \in Caller, NEW h \in Handle,
               (\E p \in Pair : BeginMap(c, h, p))
                  \/ (\E k \in Conflict, t \in Target : BeginTransition(c, h, k, t))
        PROVE  Same
    BY <1>1 DEF BeginMap, BeginTransition, Begin, triage, Same
  <1>2. ASSUME NEW c \in Caller, Find(c) \/ Link(c) \/ Fail(c) PROVE Same
    BY <1>2 DEF Find, Link, Fail, triage, Same
  <1>3. ASSUME NEW c \in Caller, NEW k \in Conflict, Store(c, k) PROVE Publishes
    BY <1>3, GotoLocal DEF Store, Publishes, Inv
  <1>0. ASSUME NEW c \in Caller, NEW k \in Conflict, FailStoring(c, k) PROVE Publishes
    <2>1. phase[c] = "store" /\ Failing(c) /\ Publish(k, call[c].pair)
      BY <1>0 DEF FailStoring
    <2>2. call[c].pair \in Pair
      BY <2>1 DEF Inv, CallsSound, Mapping
    <2>3. call[c].pair \in failed'
      BY <2>1, <2>2, ConflictAssumption DEF Failing
    <2>4. phase'[c] = "idle"
      BY <2>1, DoneLocal DEF Failing, Inv
    <2> QED BY <2>1, <2>3, <2>4 DEF Publishes
  <1>4. ASSUME NEW c \in Caller, Supersede(c) \/ FailSuperseding(c) PROVE AddsVersion
    <2>1. PICK k \in Conflict, n \in Nat : k \in Known /\ Supersedes(c, k) /\ NextIs(k, n)
      BY <1>4, SupersedesOne DEF Supersede, FailSuperseding
    <2>2. AddVersion(c) /\ MayPoint(c, k, n)
      BY <1>4, <2>1 DEF Supersede, FailSuperseding, Supersedes, NextIs, MayPoint
    <2>3. phase'[c] = "idle"
      BY <1>4, DoneLocal DEF Supersede, FailSuperseding, Failing, Inv
    <2> QED BY <2>1, <2>2, <2>3 DEF AddsVersion
  <1>5. ASSUME NEW h \in Handle, Connect(h) PROVE Same
    BY <1>5 DEF Connect, triage, Same
  <1>6. CASE UNCHANGED vars
    BY <1>6 DEF vars, triage, Same
  <1> QED BY <1>0, <1>1, <1>2, <1>3, <1>4, <1>5, <1>6 DEF Next

(* The history of one conflict starts open and nothing follows a closing. *)
Legal(ch, st) ==
    /\ Len(ch) > 0 /\ ch[1] = 1 /\ st[1] = "open"
    /\ \A i \in 1 .. Len(ch) - 1 : st[ch[i]] \notin Closed /\ st[ch[i + 1]] # "open"

LEMMA ChainsLegalKept == Inv /\ ChainsLegal /\ [Next]_vars => ChainsLegal'
  <1> SUFFICES ASSUME Inv, ChainsLegal, [Next]_vars PROVE ChainsLegal'
    OBVIOUS
  <1>0. \A k \in Known : Legal(chain[k], log[k])
    BY DEF ChainsLegal, Legal
  <1> SUFFICES \A k \in Known' : Legal(chain'[k], log'[k])
    BY DEF ChainsLegal, Legal
  <1>1. CASE Same
    BY <1>0, <1>1 DEF Same, Known
  <1>2. CASE Publishes
    <2>1. PICK c \in Caller, k \in Conflict : phase[c] = "store" /\ Publish(k, call[c].pair)
      BY <1>2 DEF Publishes
    <2>2. call[c].pair \in Pair
      BY <2>1 DEF Inv, CallsSound, Mapping
    <2>3. /\ Known' = Known \cup {k} /\ k \notin Known
          /\ log'[k] = <<"open">> /\ chain'[k] = <<1>>
          /\ \A l \in Conflict \ {k} : log'[l] = log[l] /\ chain'[l] = chain[l]
      BY <2>1, <2>2, PublishStep
    <2>4. Legal(<<1>>, <<"open">>)
      BY DEF Legal
    <2> QED BY <1>0, <2>3, <2>4 DEF Known
  <1>3. CASE AddsVersion
    <2>1. PICK c \in Caller, k \in Conflict, n \in Nat :
              /\ k \in Known /\ Supersedes(c, k) /\ NextIs(k, n)
              /\ AddVersion(c) /\ MayPoint(c, k, n)
      BY <1>3 DEF AddsVersion
    <2> DEFINE b == call[c].base
    <2>2. /\ Continued(chain[k], chain'[k], b, n) /\ pair' = pair
          /\ n \notin Versions(k) /\ log'[k][n] = call[c].target
          /\ \A v \in Versions(k) : log'[k][v] = log[k][v]
          /\ \A l \in Conflict \ {k} : log'[l] = log[l] /\ chain'[l] = chain[l]
      BY <2>1, VersionStep
    <2>3. log[k][b] \notin Closed /\ call[c].target # "open"
      BY <2>1, Statuses DEF Supersedes, Inv, CallsSound
    <2>4. /\ chain[k] \in Seq(Nat) /\ Legal(chain[k], log[k])
          /\ \A i \in 1..Len(chain[k]) : chain[k][i] \in Versions(k)
      BY <1>0, <2>1 DEF Inv, StoreOK, On
    <2>5. \A i \in 1..Len(chain[k]) : log'[k][chain[k][i]] = log[k][chain[k][i]]
      BY <2>2, <2>4
    <2>6. log'[k][1] = "open"
      BY <2>4, <2>5 DEF Legal
    <2>7. Legal(chain'[k], log'[k])
      <3>1. CASE chain'[k] = chain[k]
        <4>1. \A i \in 1 .. Len(chain[k]) - 1 :
                  i \in 1..Len(chain[k]) /\ i + 1 \in 1..Len(chain[k])
          BY <2>4
        <4> QED BY <2>4, <2>5, <2>6, <3>1, <4>1 DEF Legal
      <3>2. CASE chain'[k] # chain[k]
        <4>1. PICK i \in DOMAIN chain[k] :
                  /\ chain[k][i] = b /\ Len(chain'[k]) = i + 1 /\ chain'[k][i + 1] = n
                  /\ \A j \in 1..i : chain'[k][j] = chain[k][j]
          BY <2>2, <3>2 DEF Continued, Cut
        <4>2. i \in 1..Len(chain[k]) /\ i \in Nat /\ Len(chain[k]) \in Nat
          BY <2>4, <4>1
        <4>3. chain'[k][1] = 1
          BY <2>4, <4>1, <4>2 DEF Legal
        <4>4. ASSUME NEW j \in 1..i
              PROVE  /\ log'[k][chain'[k][j]] \notin Closed
                     /\ log'[k][chain'[k][j + 1]] # "open"
          <5>1. CASE j = i
            BY <2>2, <2>3, <2>5, <4>1, <4>2, <5>1
          <5>2. CASE j # i
            <6>1. j \in 1 .. Len(chain[k]) - 1 /\ j + 1 \in 1..i /\ j + 1 \in 1..Len(chain[k])
              BY <4>2, <5>2
            <6>2. log[k][chain[k][j]] \notin Closed /\ log[k][chain[k][j + 1]] # "open"
              BY <2>4, <6>1 DEF Legal
            <6>3. j \in 1..Len(chain[k])
              BY <4>2
            <6>4. chain'[k][j] = chain[k][j] /\ chain'[k][j + 1] = chain[k][j + 1]
              BY <4>1, <6>1
            <6> QED BY <2>5, <6>1, <6>2, <6>3, <6>4
          <5> QED BY <5>1, <5>2
        <4>5. Len(chain'[k]) - 1 = i /\ Len(chain'[k]) >= 1
          BY <4>1, <4>2
        <4>6. \A j \in 1 .. Len(chain'[k]) - 1 :
                  /\ log'[k][chain'[k][j]] \notin Closed
                  /\ log'[k][chain'[k][j + 1]] # "open"
          <5>1. 1 .. Len(chain'[k]) - 1 = 1..i
            BY ONLY <4>5
          <5> QED BY ONLY <4>4, <5>1
        <4>7. Len(chain'[k]) > 0
          BY <4>1, <4>2
        <4> QED BY ONLY <2>6, <4>3, <4>6, <4>7 DEF Legal
      <3> QED BY <3>1, <3>2
    <2>8. Known' = Known
      BY <2>2 DEF Known
    <2> QED BY <1>0, <2>2, <2>7, <2>8 DEF Known
  <1> QED BY <1>1, <1>2, <1>3, StoreSteps

(* Whatever overlaps or fails, and however many agents and handles there    *)
(* are, the history of a conflict takes allowed steps only and nothing      *)
(* follows its closing (update_conflict_status).                            *)
THEOREM HistoriesLegal == Spec => []ChainsLegal
  <1>1. Init => ChainsLegal
    BY DEF Init, ChainsLegal, Known
  <1> QED BY <1>1, InvAlways, ChainsLegalKept, PTL DEF Spec

-----------------------------------------------------------------------------
(* Calls that do not overlap.                                              *)

Alone ==
    \A k \in Conflict \ disturbed : \A c \in Caller : Supersedes(c, k) =>
        /\ call[c].base = Current(k)
        /\ \A d \in Caller : Supersedes(d, k) => d = c

MapsAlone ==
    \A p \in Pair \ disturbed : \A c, d \in Caller : Maps(c, p) /\ Maps(d, p) => c = d

(* Conflict k, its pair and all calls on both: none overlapped or failed. *)
Sound(k) == {k, pair[k]} \cap (disturbed \cup failed) = {}

Cleared ==
    \A c \in Caller : phase[c] = "store" =>
        \A k \in Known : pair[k] = call[c].pair /\ Sound(k) => ~Live(k)

OneLive == \A k, l \in Known : pair[k] = pair[l] /\ Live(k) /\ Live(l) /\ Sound(k) /\ Sound(l) => k = l

LEMMA OneLiveIs == OneLive <=> OneLiveConflict
  BY DEF OneLive, OneLiveConflict, Sound

(* Steps never forget a disturbance or a failure. *)
LEMMA HistoryGrows ==
    Inv /\ [Next]_vars => disturbed \subseteq disturbed' /\ failed \subseteq failed'
  <1> SUFFICES ASSUME Inv, [Next]_vars
               PROVE  disturbed \subseteq disturbed' /\ failed \subseteq failed'
    OBVIOUS
  <1>1. ASSUME NEW c \in Caller, NEW h \in Handle,
               (\E p \in Pair : BeginMap(c, h, p))
                  \/ (\E k \in Conflict, t \in Target : BeginTransition(c, h, k, t))
        PROVE  disturbed \subseteq disturbed' /\ failed \subseteq failed'
    BY <1>1 DEF BeginMap, BeginTransition, Begin
  <1>2. ASSUME NEW c \in Caller, Find(c) \/ Link(c) \/ Fail(c)
        PROVE  disturbed \subseteq disturbed' /\ failed \subseteq failed'
    BY <1>2 DEF Find, Link, Fail, Failing
  <1>3. ASSUME NEW c \in Caller, NEW k \in Conflict, Store(c, k) \/ FailStoring(c, k)
        PROVE  disturbed \subseteq disturbed' /\ failed \subseteq failed'
    BY <1>3 DEF Store, FailStoring, Publish, Failing
  <1>4. ASSUME NEW c \in Caller, Supersede(c) \/ FailSuperseding(c)
        PROVE  disturbed \subseteq disturbed' /\ failed \subseteq failed'
    BY <1>4 DEF Supersede, FailSuperseding, AddVersion, Failing
  <1>5. ASSUME NEW h \in Handle, Connect(h)
        PROVE  disturbed \subseteq disturbed' /\ failed \subseteq failed'
    BY <1>5 DEF Connect
  <1>6. CASE UNCHANGED vars
    BY <1>6 DEF vars
  <1> QED BY <1>1, <1>2, <1>3, <1>4, <1>5, <1>6 DEF Next

(* What the calls of the others are stays; c goes on, ends, or begins. *)
Others(c) == \A d \in Caller \ {c} : phase'[d] = phase[d] /\ call'[d] = call[d]

(* c ends its call, or goes on with it. *)
Proceeds(c) ==
    /\ Others(c)
    /\ \/ phase'[c] = "idle"
       \/ /\ phase[c] \in Mapping /\ phase'[c] \in Mapping /\ call'[c] = call[c]
          /\ phase'[c] = "store" => Find(c)

Starts(c) == phase[c] = "idle" /\ Others(c)

(* The steps of the callers, once more: a call begins alone or is recorded  *)
(* as overlapping; a call proceeds; or nobody's does.                       *)
LEMMA CallerSteps ==
    ASSUME Inv, [Next]_vars
    PROVE  \/ UNCHANGED <<phase, call>> /\ Same
           \/ \E c \in Caller : phase[c] # "idle" /\ Proceeds(c)
           \/ \E c \in Caller, p \in Pair :
                 /\ Starts(c) /\ phase'[c] = "find" /\ call'[c].pair = p
                 /\ Busy(p) # {} => p \in disturbed'
                 /\ Same
           \/ \E c \in Caller, k \in Conflict :
                 /\ Starts(c) /\ phase'[c] = "supersede" /\ call'[c].conflict = k
                 /\ call'[c].base = Current(k)
                 /\ Busy(k) # {} => k \in disturbed'
                 /\ Same
  <1>1. ASSUME NEW c \in Caller, NEW h \in Handle, NEW p \in Pair, BeginMap(c, h, p)
        PROVE  /\ Starts(c) /\ phase'[c] = "find" /\ call'[c].pair = p
               /\ Busy(p) # {} => p \in disturbed'
               /\ Same
    <2>1. /\ phase[c] = "idle" /\ phase'[c] = "find" /\ Others(c)
          /\ call'[c] = [handle |-> h, pair |-> p, conflict |-> None, base |-> 0,
                         target |-> "open"]
      BY <1>1, Statuses, BeginLocal DEF BeginMap, Inv, Others
    <2>2. Busy(p) # {} => p \in disturbed'
      BY <1>1 DEF BeginMap
    <2>3. Same
      BY <1>1 DEF BeginMap, Begin, triage, Same
    <2> QED BY <2>1, <2>2, <2>3 DEF Starts
  <1>2. ASSUME NEW c \in Caller, NEW h \in Handle, NEW k \in Conflict, NEW t \in Target,
               BeginTransition(c, h, k, t)
        PROVE  /\ Starts(c) /\ phase'[c] = "supersede" /\ call'[c].conflict = k
               /\ call'[c].base = Current(k)
               /\ Busy(k) # {} => k \in disturbed'
               /\ Same
    <2>1. Current(k) \in Nat
      <3>1. k \in Known
        BY <1>2 DEF BeginTransition
      <3>2. chain[k] \in Seq(Nat) /\ chain[k] # <<>>
        BY <3>1 DEF Inv, StoreOK, ChainsSound
      <3>3. Len(chain[k]) \in DOMAIN chain[k]
        BY <3>2
      <3> QED BY <3>2, <3>3 DEF Current, Tip
    <2>2. /\ phase[c] = "idle" /\ phase'[c] = "supersede" /\ Others(c)
          /\ call'[c] = [handle |-> h, pair |-> None, conflict |-> k, base |-> Current(k),
                         target |-> t]
      BY <1>2, <2>1, Statuses, BeginLocal DEF BeginTransition, Inv, Others
    <2>3. Busy(k) # {} => k \in disturbed'
      BY <1>2 DEF BeginTransition
    <2>4. Same
      BY <1>2 DEF BeginTransition, Begin, triage, Same
    <2> QED BY <2>2, <2>3, <2>4 DEF Starts
  <1>3. ASSUME NEW c \in Caller, Find(c) PROVE phase[c] # "idle" /\ Proceeds(c)
    <2>1. phase[c] = "find" /\ (Done(c) \/ Goto(c, "store"))
      BY <1>3 DEF Find
    <2>2. CASE Done(c)
      BY <2>1, <2>2, DoneLocal DEF Inv, Proceeds, Others
    <2>3. CASE Goto(c, "store")
      BY <1>3, <2>1, <2>3, GotoLocal DEF Inv, Proceeds, Others, Mapping
    <2> QED BY <2>1, <2>2, <2>3
  <1>4. ASSUME NEW c \in Caller, NEW k \in Conflict, Store(c, k)
        PROVE  phase[c] # "idle" /\ Proceeds(c)
    BY <1>4, GotoLocal DEF Store, Inv, Proceeds, Others, Mapping
  <1>5. ASSUME NEW c \in Caller, Link(c) \/ Supersede(c) PROVE phase[c] # "idle" /\ Proceeds(c)
    BY <1>5, DoneLocal DEF Link, Supersede, Inv, Proceeds, Others
  <1>6. ASSUME NEW c \in Caller,
               Fail(c) \/ FailSuperseding(c) \/ (\E k \in Conflict : FailStoring(c, k))
        PROVE  phase[c] # "idle" /\ Proceeds(c)
    BY <1>6, FailingStep DEF Fail, FailSuperseding, FailStoring, Proceeds, Others
  <1>7. ASSUME NEW h \in Handle, Connect(h) PROVE UNCHANGED <<phase, call>> /\ Same
    BY <1>7 DEF Connect, local, triage, Same
  <1>8. CASE UNCHANGED vars
    BY <1>8 DEF vars, local, triage, Same
  <1> QED BY <1>1, <1>2, <1>3, <1>4, <1>5, <1>6, <1>7, <1>8 DEF Next

(* A version that supersedes the tip of a chain is put behind all of it. *)
LEMMA CutAtTip ==
    ASSUME NEW s \in Seq(Nat), NEW t \in Seq(Nat), NEW n, s # <<>>, Cut(s, t, Tip(s), n),
           \A i, j \in DOMAIN s : s[i] = s[j] => i = j
    PROVE  On(s) \subseteq On(t) /\ n \in On(t) /\ Tip(t) = n
  <1>1. PICK i \in DOMAIN s :
            /\ s[i] = s[Len(s)] /\ Len(t) = i + 1 /\ t[i + 1] = n
            /\ \A j \in 1..i : t[j] = s[j]
    BY DEF Cut, Tip
  <1>2. i = Len(s) /\ DOMAIN s = 1..i /\ DOMAIN t = 1..(i + 1) /\ i \in Nat
    BY <1>1
  <1>3. \A j \in DOMAIN s : s[j] = t[j] /\ j \in DOMAIN t
    BY <1>1, <1>2
  <1> QED BY <1>1, <1>2, <1>3 DEF On, Tip

(* Only the version of its own call is put on the chain of a conflict. *)
LEMMA AloneKept == Inv /\ Alone /\ [Next]_vars => Alone'
  <1> SUFFICES ASSUME Inv, Alone, [Next]_vars,
                      NEW k \in Conflict, k \notin disturbed',
                      NEW c \in Caller, Supersedes(c, k)'
               PROVE  /\ call'[c].base = Current(k)'
                      /\ \A d \in Caller : Supersedes(d, k)' => d = c
    BY DEF Alone
  <1>1. k \notin disturbed
    BY HistoryGrows
  <1>2. ASSUME Supersedes(c, k), call'[c] = call[c],
               \A d \in Caller : Supersedes(d, k)' => Supersedes(d, k)
        PROVE  /\ call'[c].base = Current(k)'
               /\ \A d \in Caller : Supersedes(d, k)' => d = c
    <2>1. call[c].base = Current(k) /\ \A d \in Caller : Supersedes(d, k) => d = c
      BY <1>1, <1>2 DEF Alone
    <2>2. chain'[k] = chain[k]
      <3>1. CASE Same
        BY <3>1 DEF Same
      <3>2. CASE Publishes
        <4>1. k \in Known
          BY <1>2 DEF Supersedes, Inv, CallsSound
        <4> QED BY <3>2, <4>1 DEF Publishes, Publish
      <3>3. CASE AddsVersion
        <4>1. PICK d \in Caller, l \in Conflict, n \in Nat :
                  /\ Supersedes(d, l) /\ NextIs(l, n) /\ AddVersion(d) /\ MayPoint(d, l, n)
                  /\ phase'[d] = "idle"
          BY <3>3 DEF AddsVersion
        <4>2. l # k
          BY <2>1, <4>1 DEF Supersedes
        <4> QED BY <4>1, <4>2, VersionStep
      <3> QED BY <3>1, <3>2, <3>3, StoreSteps
    <2> QED BY <1>2, <2>1, <2>2 DEF Current
  <1>3. CASE UNCHANGED <<phase, call>>
    BY <1>2, <1>3 DEF Supersedes
  <1>4. CASE \E d \in Caller : phase[d] # "idle" /\ Proceeds(d)
    BY <1>2, <1>4 DEF Supersedes, Proceeds, Others, Mapping
  <1>5. CASE \E d \in Caller : Starts(d) /\ phase'[d] = "find"
    BY <1>2, <1>5 DEF Supersedes, Starts, Others
  <1>6. ASSUME NEW d \in Caller, NEW l \in Conflict,
               Starts(d), phase'[d] = "supersede", call'[d].conflict = l,
               call'[d].base = Current(l), Busy(l) # {} => l \in disturbed', Same
        PROVE  /\ call'[c].base = Current(k)'
               /\ \A e \in Caller : Supersedes(e, k)' => e = c
    <2>1. CASE l = k
      <3>1. \A e \in Caller : ~Supersedes(e, k)
        BY <1>6, <2>1 DEF Busy, Supersedes, Inv, LocalOK
      <3>2. \A e \in Caller : Supersedes(e, k)' => e = d
        BY <1>6, <3>1 DEF Supersedes, Starts, Others
      <3> QED BY <1>6, <2>1, <3>2 DEF Same, Current
    <2>2. CASE l # k
      BY <1>2, <1>6, <2>2 DEF Supersedes, Starts, Others
    <2> QED BY <2>1, <2>2
  <1> QED BY <1>3, <1>4, <1>5, <1>6, CallerSteps

(* The base of a version that is added to an undisturbed conflict is its tip. *)
LEMMA ChainsGrow ==
    ASSUME Inv, Alone, [Next]_vars, NEW k \in Conflict, k \notin disturbed
    PROVE  On(chain[k]) \subseteq On(chain'[k])
  <1>1. CASE Same
    BY <1>1 DEF Same
  <1>2. CASE Publishes
    <2>1. PICK c \in Caller, l \in Conflict : phase[c] = "store" /\ Publish(l, call[c].pair)
      BY <1>2 DEF Publishes
    <2>2. CASE l = k
      <3>1. k \notin Known
        BY <2>1, <2>2 DEF Publish
      <3>2. log[k] = <<>> /\ On(chain[k]) \subseteq DOMAIN log[k]
        BY <3>1 DEF Inv, ChainsSound, StoreOK, Versions
      <3> QED BY <3>2
    <2>3. CASE l # k
      BY <2>1, <2>3 DEF Publish
    <2> QED BY <2>2, <2>3
  <1>3. CASE AddsVersion
    <2>1. PICK c \in Caller, l \in Conflict, n \in Nat :
              /\ l \in Known /\ Supersedes(c, l) /\ NextIs(l, n)
              /\ AddVersion(c) /\ MayPoint(c, l, n)
      BY <1>3 DEF AddsVersion
    <2>2. /\ Continued(chain[l], chain'[l], call[c].base, n) /\ StoreOK'
          /\ \A m \in Conflict \ {l} : chain'[m] = chain[m]
      BY <2>1, VersionStep
    <2>3. CASE l = k
      <3>1. call[c].base = Tip(chain[k])
        BY <2>1, <2>3 DEF Alone, Current
      <3>2. /\ chain[k] \in Seq(Nat) /\ chain'[k] \in Seq(Nat) /\ chain[k] # <<>>
            /\ \A i, j \in DOMAIN chain[k] : chain[k][i] = chain[k][j] => i = j
        BY <2>1, <2>2, <2>3 DEF Inv, StoreOK, ChainsSound
      <3> QED BY <2>2, <2>3, <3>1, <3>2, CutAtTip DEF Continued
    <2>4. CASE l # k
      BY <2>2, <2>4
    <2> QED BY <2>3, <2>4
  <1> QED BY <1>1, <1>2, <1>3, StoreSteps

(* What a step adds to acked is the version it links. *)
LEMMA AckedSteps ==
    ASSUME Inv, [Next]_vars
    PROVE  \/ acked' = acked
           \/ \E c \in Caller, k \in Known, n \in Nat :
                 /\ Supersedes(c, k) /\ NextIs(k, n)
                 /\ AddVersion(c) /\ PointTo(k, call[c].base, n)
                 /\ acked' = acked \cup {<<k, n>>}
  <1>1. ASSUME NEW c \in Caller, NEW h \in Handle,
               (\E p \in Pair : BeginMap(c, h, p))
                  \/ (\E k \in Conflict, t \in Target : BeginTransition(c, h, k, t))
        PROVE  acked' = acked
    BY <1>1 DEF BeginMap, BeginTransition, Begin
  <1>2. ASSUME NEW c \in Caller, Find(c) \/ Link(c) \/ Fail(c) \/ FailSuperseding(c)
        PROVE  acked' = acked
    BY <1>2 DEF Find, Link, Fail, FailSuperseding
  <1>3. ASSUME NEW c \in Caller, NEW k \in Conflict, Store(c, k) \/ FailStoring(c, k)
        PROVE  acked' = acked
    BY <1>3 DEF Store, FailStoring, Publish
  <1>4. ASSUME NEW c \in Caller, Supersede(c)
        PROVE  \E k \in Known, n \in Nat :
                 /\ Supersedes(c, k) /\ NextIs(k, n)
                 /\ AddVersion(c) /\ PointTo(k, call[c].base, n)
                 /\ acked' = acked \cup {<<k, n>>}
    <2>1. PICK k \in Conflict, n \in Nat : k \in Known /\ Supersedes(c, k) /\ NextIs(k, n)
      BY <1>4, SupersedesOne DEF Supersede
    <2>2. AddVersion(c) /\ PointTo(k, call[c].base, n) /\ acked' = acked \cup {<<k, n>>}
      BY <1>4, <2>1 DEF Supersede, Supersedes, NextIs
    <2> QED BY <2>1, <2>2
  <1>5. ASSUME NEW h \in Handle, Connect(h) PROVE acked' = acked
    BY <1>5 DEF Connect
  <1>6. CASE UNCHANGED vars
    BY <1>6 DEF vars
  <1> QED BY <1>1, <1>2, <1>3, <1>4, <1>5, <1>6 DEF Next

(* A transition that returned stays in the history of its conflict as long  *)
(* as the transitions of that conflict do not overlap, whatever fails and   *)
(* whoever restarts (update_conflict_status).                               *)
THEOREM DecisionsStay == Spec => []DecisionsKept
  <1>1. Init => Alone /\ DecisionsKept
    BY DEF Init, Alone, Supersedes, DecisionsKept
  <1>2. Inv /\ Alone /\ DecisionsKept /\ [Next]_vars => DecisionsKept'
    <2> SUFFICES ASSUME Inv, Alone, DecisionsKept, [Next]_vars,
                        NEW d \in acked', d[1] \notin disturbed'
                 PROVE  d[2] \in On(chain'[d[1]])
      BY DEF DecisionsKept
    <2>0. d[1] \notin disturbed
      BY HistoryGrows
    <2>1. CASE d \in acked
      <3>1. d[1] \in Conflict /\ d[2] \in On(chain[d[1]])
        BY <2>0, <2>1 DEF DecisionsKept, Inv, HistoryOK
      <3> QED BY <2>0, <3>1, ChainsGrow
    <2>2. CASE d \notin acked
      <3>1. PICK c \in Caller, k \in Known, n \in Nat :
                /\ Supersedes(c, k) /\ NextIs(k, n)
                /\ AddVersion(c) /\ PointTo(k, call[c].base, n) /\ d = <<k, n>>
        BY <2>2, AckedSteps
      <3>2. call[c].base = Tip(chain[k]) /\ k \in Conflict
        BY <2>0, <3>1 DEF Alone, Current, Known
      <3>3. /\ chain[k] \in Seq(Nat) /\ chain[k] # <<>>
            /\ \A i, j \in DOMAIN chain[k] : chain[k][i] = chain[k][j] => i = j
        BY <3>2 DEF Inv, StoreOK, ChainsSound
      <3>4. Len(chain[k]) \in DOMAIN chain[k]
        BY <3>3
      <3>5. Tip(chain[k]) \in On(chain[k]) /\ Tip(chain[k]) \in Nat
        BY <3>3, <3>4 DEF Tip, On
      <3>6. chain'[k] = Superseding(chain[k], Tip(chain[k]), n)
        BY <3>1, <3>2 DEF PointTo, Inv, StoreOK
      <3>7. chain'[k] \in Seq(Nat) /\ Cut(chain[k], chain'[k], Tip(chain[k]), n)
        BY <3>3, <3>5, <3>6, SupersedingExtends
      <3>8. n \in On(chain'[k])
        BY <3>3, <3>7, CutAtTip
      <3> QED BY <3>1, <3>8
    <2> QED BY <2>1, <2>2
  <1> QED BY <1>1, <1>2, InvAlways, AloneKept, PTL DEF Spec

-----------------------------------------------------------------------------
(* One live conflict of a pair.                                            *)

LEMMA MapsAloneKept == Inv /\ MapsAlone /\ [Next]_vars => MapsAlone'
  <1> SUFFICES ASSUME Inv, MapsAlone, [Next]_vars,
                      NEW p \in Pair, p \notin disturbed', NEW c \in Caller, NEW d \in Caller,
                      Maps(c, p)', Maps(d, p)'
               PROVE  c = d
    BY DEF MapsAlone
  <1>1. ASSUME \A e \in {c, d} : Maps(e, p) PROVE c = d
    BY <1>1, HistoryGrows DEF MapsAlone
  <1>2. CASE UNCHANGED <<phase, call>>
    BY <1>1, <1>2 DEF Maps
  <1>3. CASE \E e \in Caller : phase[e] # "idle" /\ Proceeds(e)
    BY <1>1, <1>3 DEF Maps, Proceeds, Others, Mapping
  <1>4. ASSUME NEW e \in Caller, NEW q \in Pair,
               Starts(e), phase'[e] = "find", call'[e].pair = q, Busy(q) # {} => q \in disturbed'
        PROVE  c = d
    <2>1. CASE q = p
      <3>1. \A f \in Caller : ~Maps(f, p)
        BY <1>4, <2>1 DEF Busy, Maps, Mapping, Inv, LocalOK
      <3> QED BY <1>4, <3>1 DEF Maps, Starts, Others
    <2>2. CASE q # p
      BY <1>1, <1>4, <2>2 DEF Maps, Starts, Others
    <2> QED BY <2>1, <2>2
  <1>5. ASSUME NEW e \in Caller, Starts(e), phase'[e] = "supersede"
        PROVE  c = d
    BY <1>1, <1>5 DEF Maps, Starts, Others, Mapping
  <1> QED BY <1>2, <1>3, <1>4, <1>5, CallerSteps

(* A conflict only comes to life when it is published. *)
LEMMA LiveBefore ==
    ASSUME Inv, Alone, [Next]_vars, NEW k \in Known, k \notin disturbed, Live(k)'
    PROVE  Live(k)
  <1>0. k \in Conflict
    BY DEF Known
  <1>1. CASE Same
    BY <1>1 DEF Same, Live, StatusOf, Current
  <1>2. CASE Publishes
    BY <1>0, <1>2 DEF Publishes, Publish, Live, StatusOf, Current
  <1>3. CASE AddsVersion
    <2>1. PICK c \in Caller, l \in Conflict, n \in Nat :
              /\ l \in Known /\ Supersedes(c, l) /\ NextIs(l, n)
              /\ AddVersion(c) /\ MayPoint(c, l, n)
      BY <1>3 DEF AddsVersion
    <2>2. CASE l = k
      BY <1>0, <2>1, <2>2 DEF Alone, Supersedes, Inv, CallsSound, Live, StatusOf
    <2>3. CASE l # k
      <3>1. log'[k] = log[k] /\ chain'[k] = chain[k]
        BY <1>0, <2>1, <2>3, VersionStep
      <3> QED BY <3>1 DEF Live, StatusOf, Current
    <2> QED BY <2>2, <2>3
  <1> QED BY <1>1, <1>2, <1>3, StoreSteps

(* Conflicts keep their pairs, and the pair of a new one is that of a call  *)
(* that stored it and has nothing more to store.                            *)
LEMMA KnownSteps ==
    ASSUME Inv, [Next]_vars
    PROVE  \/ Known' = Known /\ \A k \in Known : pair'[k] = pair[k]
           \/ \E c \in Caller, l \in Conflict :
                 /\ phase[c] = "store" /\ phase'[c] # "store"
                 /\ l \notin Known /\ Known' = Known \cup {l} /\ pair'[l] = call[c].pair
                 /\ \A k \in Known : pair'[k] = pair[k]
  <1>1. CASE Same
    BY <1>1 DEF Same, Known
  <1>2. CASE Publishes
    <2>1. PICK c \in Caller, l \in Conflict :
              /\ phase[c] = "store" /\ Publish(l, call[c].pair) /\ phase'[c] # "store"
      BY <1>2 DEF Publishes
    <2>2. call[c].pair \in Pair
      BY <2>1 DEF Inv, CallsSound, Mapping
    <2> QED BY <2>1, <2>2, PublishStep DEF Known
  <1>3. CASE AddsVersion
    BY <1>3, VersionStep DEF AddsVersion, Known
  <1> QED BY <1>1, <1>2, <1>3, StoreSteps

(* What a mapping does not find is closed. *)
LEMMA FoundClosed ==
    ASSUME Inv, NEW c \in Caller, Find(c), phase'[c] = "store",
           NEW k \in Known, pair[k] = call[c].pair, pair[k] \notin disturbed'
    PROVE  ~Live(k)
  <1> DEFINE h == call[c].handle
             p == call[c].pair
  <1>1. Mapped(h, p) = {} /\ ~Behind(h, p)
    <2>1. Mapped(h, p) # {} => phase'[c] = "idle"
      BY DoneLocal DEF Find, Inv
    <2> QED BY <2>1 DEF Find
  <1>2. Current(k) \in indexed[h][k] /\ Current(k) \notin superseded[k]
    BY <1>1 DEF Behind, Inv, ChainsSound
  <1>3. log[k][Current(k)] \in Closed
    BY <1>1, <1>2 DEF Mapped, Listed
  <1> QED BY <1>3 DEF Live, StatusOf

LEMMA ClearedKept ==
    Inv /\ Alone /\ MapsAlone /\ Cleared /\ [Next]_vars => Cleared'
  <1> SUFFICES ASSUME Inv, Alone, MapsAlone, Cleared, [Next]_vars,
                      NEW c \in Caller, phase'[c] = "store",
                      NEW k \in Known', pair'[k] = call'[c].pair, Sound(k)'
               PROVE  ~Live(k)'
    BY DEF Cleared
  <1>1. /\ k \notin disturbed' /\ pair'[k] \notin disturbed'
        /\ k \notin disturbed /\ pair'[k] \notin disturbed
        /\ k \notin failed /\ pair'[k] \notin failed
    BY HistoryGrows DEF Sound
  <1>2. call'[c] = call[c] /\ (phase[c] = "store" \/ Find(c))
    BY CallerSteps DEF Proceeds, Others, Starts
  <1>3. call[c].pair \in Pair
    BY <1>2 DEF Find, Inv, CallsSound, Mapping
  <1>4. CASE k \in Known
    <2>1. pair'[k] = pair[k]
      BY <1>4, KnownSteps
    <2>2. ~Live(k)
      <3>1. CASE phase[c] = "store"
        BY <1>1, <1>2, <1>4, <2>1, <3>1 DEF Cleared, Sound
      <3>2. CASE Find(c)
        BY <1>1, <1>2, <1>4, <2>1, <3>2, FoundClosed
      <3> QED BY <1>2, <3>1, <3>2
    <2> QED BY <1>1, <1>4, <2>2, LiveBefore
  <1>5. CASE k \notin Known
    <2>1. PICK d \in Caller : phase[d] = "store" /\ phase'[d] # "store" /\ pair'[k] = call[d].pair
      BY <1>5, KnownSteps
    <2>2. Maps(c, pair'[k]) /\ Maps(d, pair'[k])
      BY <1>2, <2>1 DEF Maps, Mapping, Find
    <2> QED BY <1>1, <1>2, <1>3, <2>1, <2>2 DEF MapsAlone
  <1> QED BY <1>4, <1>5

LEMMA OneLiveKept == Inv /\ Alone /\ Cleared /\ OneLive /\ [Next]_vars => OneLive'
  <1> SUFFICES ASSUME Inv, Alone, Cleared, OneLive, [Next]_vars,
                      NEW k \in Known', NEW l \in Known', pair'[k] = pair'[l],
                      Live(k)', Live(l)', Sound(k)', Sound(l)'
               PROVE  k = l
    BY DEF OneLive
  <1>1. /\ {k, pair'[k]} \cap (disturbed \cup failed) = {}
        /\ {l, pair'[l]} \cap (disturbed \cup failed) = {}
    BY HistoryGrows DEF Sound
  <1>2. ASSUME NEW m \in {k, l}, m \in Known
        PROVE  pair'[m] = pair[m] /\ Live(m) /\ Sound(m)
    <2>1. pair'[m] = pair[m]
      BY <1>2, KnownSteps
    <2>2. Live(m)
      BY <1>1, <1>2, LiveBefore
    <2> QED BY <1>1, <2>1, <2>2 DEF Sound
  <1>3. CASE k \in Known /\ l \in Known
    BY <1>2, <1>3 DEF OneLive
  <1>4. CASE ~(k \in Known /\ l \in Known)
    <2>1. PICK c \in Caller, m \in Conflict :
              /\ phase[c] = "store"
              /\ m \notin Known /\ Known' = Known \cup {m} /\ pair'[m] = call[c].pair
              /\ \A j \in Known : pair'[j] = pair[j]
      BY <1>4, KnownSteps
    <2>2. \A j \in Known : pair[j] = call[c].pair /\ Sound(j) => ~Live(j)
      BY <2>1 DEF Cleared
    <2>3. ASSUME NEW j \in {k, l}, j \in Known PROVE FALSE
      <3>1. m \in {k, l}
        BY <1>4, <2>1
      <3>2. pair'[j] = call[c].pair
        BY <2>1, <3>1
      <3> QED BY <1>2, <2>2, <2>3, <3>2
    <2> QED BY <2>1, <2>3
  <1> QED BY <1>3, <1>4

(* However many agents map a pair, one after the other, and through which   *)
(* handle they do, the pair has at most one live conflict                   *)
(* (db.py map_conflict).                                                    *)
THEOREM OneConflict == Spec => []OneLiveConflict
  <1>1. Init => Alone /\ MapsAlone /\ Cleared /\ OneLive
    BY DEF Init, Alone, MapsAlone, Cleared, OneLive, Supersedes, Maps, Mapping, Known
  <1>2. /\ Inv /\ Alone /\ MapsAlone /\ Cleared /\ OneLive /\ [Next]_vars
        => (Alone /\ MapsAlone /\ Cleared /\ OneLive)'
    BY AloneKept, MapsAloneKept, ClearedKept, OneLiveKept
  <1> QED BY <1>1, <1>2, InvAlways, OneLiveIs, PTL DEF Spec

-----------------------------------------------------------------------------
(* The edge of a conflict.                                                 *)

(* A call that has an edge to draw draws it, fails, or has it still to do.  *)
LEMMA LinkSteps ==
    ASSUME Inv, [Next]_vars
    PROVE  /\ edges \subseteq edges'
           /\ \A c \in Caller : phase[c] = "link" =>
                 \/ phase'[c] = "link" /\ call'[c] = call[c]
                 \/ call[c].pair \in edges' \cup failed'
  <1> DEFINE Goal == /\ edges \subseteq edges'
                     /\ \A c \in Caller : phase[c] = "link" =>
                           \/ phase'[c] = "link" /\ call'[c] = call[c]
                           \/ call[c].pair \in edges' \cup failed'
  <1>0. \A c \in Caller : phase[c] = "link" => call[c].pair # None
    BY ConflictAssumption DEF Inv, CallsSound, Mapping
  <1>1. ASSUME NEW c \in Caller, NEW h \in Handle, NEW p \in Pair, BeginMap(c, h, p) PROVE Goal
    BY <1>1 DEF BeginMap, Begin, triage, Inv, LocalOK
  <1>2. ASSUME NEW c \in Caller, NEW h \in Handle, NEW k \in Conflict, NEW t \in Target,
               BeginTransition(c, h, k, t)
        PROVE  Goal
    BY <1>2 DEF BeginTransition, Begin, triage, Inv, LocalOK
  <1>3. ASSUME NEW c \in Caller, Find(c) PROVE Goal
    BY <1>3 DEF Find, Done, Goto, triage, Inv, LocalOK
  <1>4. ASSUME NEW c \in Caller, NEW k \in Conflict, Store(c, k) PROVE Goal
    BY <1>4 DEF Store, Publish, Goto, Inv, LocalOK
  <1>5. ASSUME NEW c \in Caller, Link(c) PROVE Goal
    BY <1>5 DEF Link, Done, Inv, LocalOK
  <1>6. ASSUME NEW c \in Caller, Supersede(c) PROVE Goal
    BY <1>6 DEF Supersede, AddVersion, Done, Inv, LocalOK
  <1>7. ASSUME NEW c \in Caller,
               Fail(c) \/ FailSuperseding(c) \/ (\E k \in Conflict : FailStoring(c, k))
        PROVE  Goal
    <2>1. Failing(c) /\ edges' = edges
      BY <1>7 DEF Fail, FailSuperseding, FailStoring, triage, AddVersion, Publish
    <2> QED BY <1>0, <2>1 DEF Failing, Done, Inv, LocalOK
  <1>8. ASSUME NEW h \in Handle, Connect(h) PROVE Goal
    BY <1>8 DEF Connect, triage, local
  <1>9. CASE UNCHANGED vars
    BY <1>9 DEF vars, triage, local
  <1> QED BY <1>1, <1>2, <1>3, <1>4, <1>5, <1>6, <1>7, <1>8, <1>9 DEF Next

(* The promotion gate sees every conflict whose mapping is over and did not *)
(* fail between the record and the edge (db.py map_conflict).               *)
THEOREM ConflictsLinked == Spec => []MappedIsLinked
  <1>1. Init => MappedIsLinked
    BY DEF Init, MappedIsLinked, Known
  <1>2. Inv /\ MappedIsLinked /\ [Next]_vars => MappedIsLinked'
    <2> SUFFICES ASSUME Inv, MappedIsLinked, [Next]_vars, NEW k \in Known'
                 PROVE  \/ pair'[k] \in edges' \cup failed'
                        \/ \E c \in Caller : phase'[c] = "link" /\ call'[c].pair = pair'[k]
      BY DEF MappedIsLinked
    <2>1. CASE k \in Known
      <3>1. pair'[k] = pair[k]
        BY <2>1, KnownSteps
      <3>2. CASE pair[k] \in edges \cup failed
        BY <3>1, <3>2, LinkSteps, HistoryGrows
      <3>3. CASE \E c \in Caller : phase[c] = "link" /\ call[c].pair = pair[k]
        BY <3>1, <3>3, LinkSteps
      <3> QED BY <2>1, <3>2, <3>3 DEF MappedIsLinked
    <2>2. CASE k \notin Known
      <3>1. CASE Publishes
        <4>1. PICK c \in Caller, l \in Conflict :
                  /\ phase[c] = "store" /\ Publish(l, call[c].pair)
                  /\ \/ phase'[c] = "link" /\ call'[c] = call[c]
                     \/ phase'[c] = "idle" /\ call[c].pair \in failed'
          BY <3>1 DEF Publishes
        <4>2. call[c].pair \in Pair
          BY <4>1 DEF Inv, CallsSound, Mapping
        <4>3. k = l /\ pair'[k] = call[c].pair
          BY <2>2, <4>1, <4>2, PublishStep
        <4> QED BY <4>1, <4>3
      <3>2. CASE Same
        BY <2>2, <3>2 DEF Same, Known
      <3>3. CASE AddsVersion
        BY <2>2, <3>3, VersionStep DEF AddsVersion, Known
      <3> QED BY <3>1, <3>2, <3>3, StoreSteps
    <2> QED BY <2>1, <2>2
  <1> QED BY <1>1, <1>2, InvAlways, PTL DEF Spec

-----------------------------------------------------------------------------
(* Namespaces and the calls of the gateway. *)

(* Every change keeps a namespace a namespace. *)
LEMMA ChangesAreSpaces ==
    ASSUME NEW s \in Space \cup {NoSpace}, NEW a \in Agent, NEW l \in Level
    PROVE  /\ Created(s, l, a) \in Space \cup {NoSpace}
           /\ Deleted(s) \in Space \cup {NoSpace}
           /\ GrantedRead(s, a) \in Space \cup {NoSpace}
           /\ GrantedWrite(s, a) \in Space \cup {NoSpace}
           /\ RevokedRead(s, a) \in Space \cup {NoSpace}
           /\ RevokedWrite(s, a) \in Space \cup {NoSpace}
  BY DEF Created, Deleted, GrantedRead, GrantedWrite, RevokedRead, RevokedWrite, Space, Level

(* A change asked of a handle is one of the six, on its copy and on the     *)
(* namespace alike.                                                         *)
Alike(h, here, wanted) == registry[h] = intended => here = wanted

LEMMA ChangeForms ==
    ASSUME NEW h \in Process, ChangeAccess(h), AccessTypeOK
    PROVE  \E here, wanted \in Space \cup {NoSpace} :
               Alike(h, here, wanted) /\ Change(h, here, wanted)
  <1>1. registry[h] \in Space \cup {NoSpace} /\ intended \in Space \cup {NoSpace}
    BY DEF AccessTypeOK
  <1>2. CASE \E l \in Level, a \in Agent :
                Change(h, Created(registry[h], l, a), Created(intended, l, a))
    BY <1>1, <1>2, ChangesAreSpaces DEF Alike
  <1>3. CASE Change(h, Deleted(registry[h]), Deleted(intended))
    BY <1>3 DEF Alike, Deleted
  <1>4. ASSUME NEW a \in Agent,
               \/ Change(h, GrantedRead(registry[h], a), GrantedRead(intended, a))
               \/ Change(h, GrantedWrite(registry[h], a), GrantedWrite(intended, a))
               \/ Change(h, RevokedRead(registry[h], a), RevokedRead(intended, a))
               \/ Change(h, RevokedWrite(registry[h], a), RevokedWrite(intended, a))
        PROVE  \E here, wanted \in Space \cup {NoSpace} :
                   Alike(h, here, wanted) /\ Change(h, here, wanted)
    <2>1. "public" \in Level
      BY DEF Level
    <2> QED BY <1>1, <1>4, <2>1, ChangesAreSpaces DEF Alike
  <1> QED BY <1>2, <1>3, <1>4 DEF ChangeAccess

-----------------------------------------------------------------------------
(* The registry.                                                           *)

LEMMA AccessTypesKept == AccessTypeOK /\ [AccessNext]_accessVars => AccessTypeOK'
  <1> SUFFICES ASSUME AccessTypeOK, [AccessNext]_accessVars PROVE AccessTypeOK'
    OBVIOUS
  <1> USE NamespaceAssumption DEF AccessTypeOK
  <1>1. CASE TearRegistry
    BY <1>1 DEF TearRegistry
  <1>2. ASSUME NEW h \in Process, ChangeAccess(h) PROVE AccessTypeOK'
    <2>1. PICK here \in Space \cup {NoSpace}, wanted \in Space \cup {NoSpace} :
              Change(h, here, wanted)
      BY <1>2, ChangeForms
    <2> QED BY <2>1 DEF Change, Persist
  <1>3. ASSUME NEW h \in Process, PersistCopy(h) PROVE AccessTypeOK'
    BY <1>3 DEF PersistCopy, Persist
  <1>4. ASSUME NEW h \in Process, LoadRegistry(h) PROVE AccessTypeOK'
    BY <1>4 DEF LoadRegistry
  <1>5. CASE UNCHANGED accessVars
    BY <1>5 DEF accessVars
  <1> QED BY <1>1, <1>2, <1>3, <1>4, <1>5 DEF AccessNext

(* The registry, its copies and its history keep their types (manager.py). *)
THEOREM AccessTypes == AccessSpec => []AccessTypeOK
  <1>1. AccessInit => AccessTypeOK
    <2> SUFFICES ASSUME AccessInit PROVE AccessTypeOK
      OBVIOUS
    <2>1. registry \in [Process -> Space \cup {NoSpace}] /\ clobbered \in BOOLEAN
      BY Zenon DEF AccessInit
    <2>2. changes \in 0..MaxChanges /\ tears \in 0..MaxTears
      BY NamespaceAssumption DEF AccessInit
    <2> QED BY <2>1, <2>2 DEF AccessInit, AccessTypeOK
  <1> QED BY <1>1, AccessTypesKept, PTL DEF AccessSpec

LEMMA RegistryFollowsKept ==
    AccessTypeOK /\ RegistryFollows /\ [AccessNext]_accessVars => RegistryFollows'
  <1> SUFFICES ASSUME AccessTypeOK, RegistryFollows, [AccessNext]_accessVars
               PROVE  RegistryFollows'
    OBVIOUS
  <1> USE DEF RegistryFollows
  <1>1. CASE TearRegistry
    BY <1>1 DEF TearRegistry
  <1>2. ASSUME NEW h \in Process, ChangeAccess(h) PROVE RegistryFollows'
    <2>1. PICK here \in Space \cup {NoSpace}, wanted \in Space \cup {NoSpace} :
              Alike(h, here, wanted) /\ Change(h, here, wanted)
      BY <1>2, ChangeForms
    <2>2. CASE clobbered \/ registry[h] # intended
      BY <2>1, <2>2 DEF Change
    <2>3. CASE ~clobbered /\ registry[h] = intended
      <3>1. here = wanted /\ intended' = wanted /\ registryFile = registry[h]
        BY <2>1, <2>3 DEF Alike, Change
      <3>2. registryFile' = here
        BY <2>1, <3>1 DEF Change, Persist
      <3> QED BY <3>1, <3>2
    <2> QED BY <2>2, <2>3
  <1>3. ASSUME NEW h \in Process, PersistCopy(h) PROVE RegistryFollows'
    BY <1>3 DEF PersistCopy, Persist
  <1>4. ASSUME NEW h \in Process, LoadRegistry(h) PROVE RegistryFollows'
    BY <1>4 DEF LoadRegistry
  <1>5. CASE UNCHANGED accessVars
    BY <1>5 DEF accessVars
  <1> QED BY <1>1, <1>2, <1>3, <1>4, <1>5 DEF AccessNext

(* For any number of processes, agents and changes, a process that connects *)
(* decides by the changes asked for, as long as nobody rewrote the registry *)
(* from an older copy or tore it (manager.py persist, _load).               *)
THEOREM RegistryCurrent == AccessSpec => []RegistryFollows
  <1>1. AccessInit => RegistryFollows
    BY DEF AccessInit, RegistryFollows
  <1> QED BY <1>1, AccessTypes, RegistryFollowsKept, PTL DEF AccessSpec

-----------------------------------------------------------------------------
(* The calls.                                                              *)

(* The registered namespace under which h serves its call is h's own copy,  *)
(* and the call may write in it.                                            *)
Admitted(h) ==
    serving[h] # Nothing =>
        /\ serving[h].under \in {registry[h], Nothing}
        /\ CanWrite(h, serving[h].agent, serving[h].space)

(* What a call has stored is what it was asked to store. *)
StoredAsAsked(h) ==
    Stores(h) =>
        /\ serving[h].item \in Stored
        /\ memory[serving[h].item] =
              [space |-> serving[h].space, session |-> serving[h].session,
               base |-> serving[h].base]

GatewayTypes ==
    /\ AccessTypeOK
    /\ startedBy \in [Session -> Agent \cup {Nothing}]
    /\ memory \in [Item -> Memory \cup {Nothing}]
    /\ serving \in [Process -> Request \cup {Nothing}]

GatewayInv ==
    /\ GatewayTypes
    /\ \A h \in Process : Admitted(h) /\ StoredAsAsked(h)
    /\ blamed \subseteq Stored
    /\ AccessHeld
    /\ ErrorsExplained

LEMMA GatewayStarts == GatewayInit /\ Loaded => GatewayInv
  <1> SUFFICES ASSUME GatewayInit, Loaded PROVE GatewayInv
    OBVIOUS
  <1>1. AccessTypeOK
    <2>1. PICK n \in Space \cup {NoSpace} :
              registry = [h \in Process |-> n] /\ registryFile = n /\ intended = n
      BY DEF Loaded
    <2>2. 0 \in 0..MaxChanges /\ 0 \in 0..MaxTears
      BY NamespaceAssumption
    <2> QED BY <2>1, <2>2 DEF Loaded, AccessTypeOK
  <1>2. GatewayTypes
    BY <1>1 DEF GatewayInit, GatewayTypes
  <1>3. \A h \in Process : serving[h] = Nothing
    BY DEF GatewayInit
  <1> QED BY <1>2, <1>3 DEF GatewayInit, GatewayInv, Admitted, StoredAsAsked, Stores,
                            AccessHeld, ErrorsExplained

(* What a step has to leave alone for a process to go on with its call. *)
LEMMA CallKept ==
    ASSUME GatewayInv, NEW h \in Process,
           serving'[h] = serving[h], registry'[h] = registry[h],
           \A i \in Stored : memory'[i] = memory[i]
    PROVE  Admitted(h)' /\ StoredAsAsked(h)'
  <1>1. Admitted(h)'
    BY DEF GatewayInv, Admitted, CanWrite
  <1>2. StoredAsAsked(h)'
    BY DEF GatewayInv, StoredAsAsked, Stores, Stored
  <1> QED BY <1>1, <1>2

(* A process that serves no call has nothing to keep. *)
LEMMA NoCallKept ==
    ASSUME NEW h \in Process, serving'[h] = Nothing
    PROVE  Admitted(h)' /\ StoredAsAsked(h)'
  BY DEF Admitted, StoredAsAsked, Stores

(* The reason of an error stays true. *)
LEMMA ErrorsKept ==
    ASSUME GatewayInv, over \subseteq over', deprecated \subseteq deprecated',
           \A i \in Stored : memory'[i] = memory[i]
    PROVE  /\ Stored \subseteq Stored'
           /\ Gone \subseteq Gone'
           /\ \A i \in blamed \ faulted :
                 IF memory'[i].base = Nothing THEN memory'[i].session \in over'
                                              ELSE i \in Gone'
  <1>1. Stored \subseteq Stored'
    BY DEF Stored
  <1>2. Gone \subseteq Gone'
    BY <1>1 DEF Gone
  <1>3. blamed \subseteq Stored /\ ErrorsExplained
    BY DEF GatewayInv
  <1> QED BY <1>1, <1>2, <1>3 DEF ErrorsExplained

-----------------------------------------------------------------------------
(* One lemma per kind of step.                                             *)

LEMMA Beginning ==
    ASSUME GatewayInv,
           \/ \E s \in Session : EndSession(s) \/ \E a \in Agent : BeginSession(a, s)
           \/ \E i \in Item : Deprecate(i)
           \/ UNCHANGED gatewayVars
    PROVE  GatewayInv'
  <1>1. /\ UNCHANGED <<accessVars, memory, serving, blamed, faulted, trespasses>>
        /\ over \subseteq over' /\ deprecated \subseteq deprecated'
        /\ startedBy' \in [Session -> Agent \cup {Nothing}]
    BY DEF EndSession, BeginSession, Deprecate, gatewayVars, gatewayOwnVars, GatewayInv,
           GatewayTypes
  <1>2. GatewayTypes'
    BY <1>1 DEF GatewayInv, GatewayTypes, AccessTypeOK, accessVars
  <1>3. \A h \in Process : Admitted(h)' /\ StoredAsAsked(h)'
    BY <1>1, CallKept DEF accessVars
  <1>4. blamed' \subseteq Stored' /\ ErrorsExplained'
    BY <1>1, ErrorsKept DEF ErrorsExplained, GatewayInv
  <1> QED BY <1>1, <1>2, <1>3, <1>4 DEF GatewayInv, AccessHeld

(* Grants, and processes that come back: only a process without a call has  *)
(* its copy of the registry changed.                                        *)
LEMMA Granting ==
    ASSUME GatewayInv, NEW h \in Process, Grant(h) \/ Reconnect(h)
    PROVE  GatewayInv'
  <1>0. serving \in [Process -> Request \cup {Nothing}] /\ AccessTypeOK
    BY DEF GatewayInv, GatewayTypes
  <1>1. /\ UNCHANGED <<startedBy, over, memory, deprecated, blamed, faulted, trespasses>>
        /\ serving' \in [Process -> Request \cup {Nothing}]
        /\ serving'[h] = Nothing
        /\ \A g \in Process \ {h} : serving'[g] = serving[g]
    BY <1>0 DEF Grant, Reconnect, Close
  <1>2. AccessTypeOK' /\ \A g \in Process \ {h} : registry'[g] = registry[g]
    <2>1. AccessNext
      BY DEF Grant, Reconnect, AccessNext
    <2>2. \A g \in Process \ {h} : registry'[g] = registry[g]
      <3>1. CASE Reconnect(h)
        BY <1>0, <3>1 DEF Reconnect, LoadRegistry, AccessTypeOK
      <3>2. CASE Grant(h)
        <4>1. PICK here, wanted \in Space \cup {NoSpace} : Change(h, here, wanted)
          BY <1>0, <3>2, ChangeForms DEF Grant
        <4> QED BY <1>0, <4>1 DEF Change, AccessTypeOK
      <3> QED BY <3>1, <3>2
    <2> QED BY <1>0, <2>1, <2>2, AccessTypesKept
  <1>3. \A g \in Process : Admitted(g)' /\ StoredAsAsked(g)'
    BY <1>1, <1>2, CallKept, NoCallKept
  <1>4. blamed' \subseteq Stored' /\ ErrorsExplained'
    BY <1>1, ErrorsKept DEF ErrorsExplained, GatewayInv
  <1> QED BY <1>1, <1>2, <1>3, <1>4 DEF GatewayInv, GatewayTypes, AccessHeld

LEMMA Asking ==
    ASSUME GatewayInv, NEW h \in Process, NEW a \in Agent,
           NEW s \in Session \cup {Nothing}, NEW sp \in Spaces,
           NEW base \in Item \cup {Nothing}, Ask(h, a, s, sp, base)
    PROVE  GatewayInv'
  <1> DEFINE q == [agent |-> a, session |-> s, space |-> sp, base |-> base,
                   item |-> Nothing, under |-> Under(h)]
  <1>0. serving \in [Process -> Request \cup {Nothing}] /\ AccessTypeOK
    BY DEF GatewayInv, GatewayTypes
  <1>1. UNCHANGED <<accessVars, startedBy, over, memory, deprecated, blamed, faulted, trespasses>>
    BY DEF Ask
  <1>2. Under(h) \in {registry[h], Nothing}
    BY DEF Under
  <1>3. q \in Request
    BY <1>0, <1>2 DEF Request, AccessTypeOK
  <1>4. /\ serving' \in [Process -> Request \cup {Nothing}]
        /\ serving'[h] = q
        /\ \A g \in Process \ {h} : serving'[g] = serving[g]
    BY <1>0, <1>3 DEF Ask
  <1>5. Admitted(h)' /\ StoredAsAsked(h)'
    <2>1. CanWrite(h, a, sp)
      BY DEF Ask
    <2>2. registry' = registry
      BY <1>1 DEF accessVars
    <2>3. Admitted(h)'
      BY <1>2, <1>4, <2>1, <2>2 DEF Admitted, CanWrite
    <2>4. StoredAsAsked(h)'
      BY <1>4 DEF StoredAsAsked, Stores
    <2> QED BY <2>3, <2>4
  <1>6. \A g \in Process : Admitted(g)' /\ StoredAsAsked(g)'
    BY <1>1, <1>4, <1>5, CallKept DEF accessVars
  <1>7. blamed' \subseteq Stored' /\ ErrorsExplained'
    BY <1>1, ErrorsKept DEF ErrorsExplained, GatewayInv
  <1> QED BY <1>0, <1>1, <1>4, <1>6, <1>7
          DEF GatewayInv, GatewayTypes, AccessHeld, AccessTypeOK, accessVars

(* What is exercised under a registered namespace is had there. *)
LEMMA ExerciseHeld ==
    ASSUME AccessHeld, NEW n, NEW a, NEW sp, NEW rights,
           sp = "kept" /\ n # Nothing => \A r \in rights : Has(n, a, r),
           Exercise(n, a, sp, rights)
    PROVE  AccessHeld'
  BY DEF Exercise, AccessHeld

(* A new record, of the memory that was asked for or a fault made of it. *)
LEMMA Placing ==
    ASSUME GatewayInv, NEW h \in Process, NEW i \in Item, NEW base \in Item \cup {Nothing},
           Waiting(h), Put(h, i, base)
    PROVE  /\ UNCHANGED <<accessVars, startedBy, over, deprecated>>
           /\ memory' \in [Item -> Memory \cup {Nothing}]
           /\ \A j \in Stored : memory'[j] = memory[j]
           /\ i \in Stored'
           /\ memory'[i] = [space |-> serving[h].space, session |-> serving[h].session,
                            base |-> base]
           /\ AccessHeld'
  <1> DEFINE q == serving[h]
             m == [space |-> q.space, session |-> q.session, base |-> base]
  <1>1. memory \in [Item -> Memory \cup {Nothing}] /\ q \in Request
    BY DEF GatewayInv, GatewayTypes, Waiting
  <1>2. /\ UNCHANGED <<accessVars, startedBy, over, deprecated>>
        /\ i \notin Stored
        /\ memory' = [memory EXCEPT ![i] = m]
    BY DEF Put
  <1>3. m \in Memory /\ m # Nothing
    BY <1>1, GatewayAssumption DEF Memory, Request
  <1>4. /\ memory' \in [Item -> Memory \cup {Nothing}] /\ memory'[i] = m
        /\ \A j \in Stored : memory'[j] = memory[j]
    BY <1>1, <1>2, <1>3
  <1>5. i \in Stored'
    BY <1>3, <1>4 DEF Stored
  <1>6. AccessHeld'
    <2>1. Admitted(h) /\ q # Nothing
      BY DEF GatewayInv, Waiting
    <2>2. q.space = "kept" /\ q.under # Nothing => Has(q.under, q.agent, "write")
      BY <2>1 DEF Admitted, CanWrite, Has
    <2>3. Exercise(q.under, q.agent, q.space, {"write"}) /\ AccessHeld
      BY DEF Put, GatewayInv
    <2> QED BY <2>2, <2>3, ExerciseHeld
  <1> QED BY <1>2, <1>4, <1>5, <1>6

LEMMA Putting ==
    ASSUME GatewayInv, NEW h \in Process, NEW i \in Item, Waiting(h), Goes(h, i)
    PROVE  GatewayInv'
  <1> DEFINE q == serving[h]
  <1>0. serving \in [Process -> Request \cup {Nothing}] /\ q \in Request /\ q # Nothing
    BY DEF GatewayInv, GatewayTypes, Waiting
  <1>1. /\ Put(h, i, q.base) /\ UNCHANGED <<blamed, faulted>>
        /\ serving' = [serving EXCEPT ![h] = [q EXCEPT !.item = i]]
    BY DEF Goes
  <1>2. /\ UNCHANGED <<accessVars, startedBy, over, deprecated>>
        /\ memory' \in [Item -> Memory \cup {Nothing}]
        /\ \A j \in Stored : memory'[j] = memory[j]
        /\ i \in Stored'
        /\ memory'[i] = [space |-> q.space, session |-> q.session, base |-> q.base]
        /\ AccessHeld'
    <2>1. q.base \in Item \cup {Nothing}
      BY <1>0 DEF Request
    <2> QED BY <1>1, <2>1, Placing
  <1>3. GatewayTypes'
    <2>1. [q EXCEPT !.item = i] \in Request
      BY <1>0 DEF Request
    <2> QED BY <1>0, <1>1, <1>2, <2>1 DEF GatewayInv, GatewayTypes, AccessTypeOK, accessVars
  <1>4. Admitted(h)' /\ StoredAsAsked(h)'
    <2>1. serving'[h] = [q EXCEPT !.item = i] /\ registry' = registry
      BY <1>0, <1>1, <1>2 DEF accessVars
    <2>2. Admitted(h)'
      BY <1>0, <2>1 DEF GatewayInv, Admitted, CanWrite, Request
    <2>3. StoredAsAsked(h)'
      BY <1>0, <1>2, <2>1 DEF StoredAsAsked, Request
    <2> QED BY <2>2, <2>3
  <1>5. \A g \in Process : Admitted(g)' /\ StoredAsAsked(g)'
    BY <1>0, <1>1, <1>2, <1>4, CallKept DEF accessVars
  <1>6. blamed' \subseteq Stored' /\ ErrorsExplained'
    BY <1>1, <1>2, ErrorsKept DEF ErrorsExplained, GatewayInv
  <1> QED BY <1>2, <1>3, <1>5, <1>6 DEF GatewayInv

(* A fault once the record is stored ends the call. *)
LEMMA PuttingFails ==
    ASSUME GatewayInv, NEW h \in Process, NEW i \in Item, StoreFails(h, i)
    PROVE  GatewayInv'
  <1>1. /\ Waiting(h) /\ Put(h, i, Nothing)
        /\ serving' = [serving EXCEPT ![h] = Nothing]
        /\ blamed' = blamed \cup {i} /\ faulted' = faulted \cup {i}
    BY DEF StoreFails, Remembers, Revises, Blame, Close
  <1>2. /\ UNCHANGED <<accessVars, startedBy, over, deprecated>>
        /\ memory' \in [Item -> Memory \cup {Nothing}]
        /\ \A j \in Stored : memory'[j] = memory[j]
        /\ i \in Stored'
        /\ AccessHeld'
    BY <1>1, Placing
  <1>3. /\ serving' \in [Process -> Request \cup {Nothing}]
        /\ serving'[h] = Nothing
        /\ \A g \in Process \ {h} : serving'[g] = serving[g]
    BY <1>1 DEF GatewayInv, GatewayTypes
  <1>4. GatewayTypes'
    BY <1>2, <1>3 DEF GatewayInv, GatewayTypes, AccessTypeOK, accessVars
  <1>5. \A g \in Process : Admitted(g)' /\ StoredAsAsked(g)'
    BY <1>2, <1>3, CallKept, NoCallKept DEF accessVars
  <1>6. blamed' \subseteq Stored' /\ ErrorsExplained'
    BY <1>1, <1>2, ErrorsKept DEF ErrorsExplained, GatewayInv
  <1> QED BY <1>2, <1>4, <1>5, <1>6 DEF GatewayInv

(* A call that ends leaves the store alone. *)
LEMMA Closing ==
    ASSUME GatewayInv, NEW h \in Process, Close(h),
           UNCHANGED <<accessVars, startedBy, over, memory, deprecated>>
    PROVE  /\ GatewayTypes'
           /\ \A g \in Process : Admitted(g)' /\ StoredAsAsked(g)'
  <1>1. serving \in [Process -> Request \cup {Nothing}]
    BY DEF GatewayInv, GatewayTypes
  <1>2. /\ serving' \in [Process -> Request \cup {Nothing}]
        /\ serving'[h] = Nothing
        /\ \A g \in Process \ {h} : serving'[g] = serving[g]
    BY <1>1 DEF Close
  <1> QED BY <1>2, CallKept, NoCallKept DEF GatewayInv, GatewayTypes, AccessTypeOK, accessVars

LEMMA Answering ==
    ASSUME GatewayInv, NEW h \in Process, NEW shown, AnswerOk(h, shown),
           serving[h] # Nothing, UNCHANGED faulted,
           \A r \in shown : r = "read" /\ CanRead(h, serving[h].agent, serving[h].space)
    PROVE  GatewayInv'
  <1>1. /\ UNCHANGED <<accessVars, startedBy, over, memory, deprecated, blamed, faulted>>
        /\ Close(h)
        /\ Exercise(serving[h].under, serving[h].agent, serving[h].space, shown)
    BY DEF AnswerOk
  <1>2. AccessHeld'
    <2>1. serving[h].under \in {registry[h], Nothing}
      BY DEF GatewayInv, Admitted
    <2> QED BY <1>1, <2>1, ExerciseHeld DEF CanRead, Has, GatewayInv
  <1>3. blamed' \subseteq Stored' /\ ErrorsExplained'
    BY <1>1, ErrorsKept DEF ErrorsExplained, GatewayInv
  <1> QED BY <1>1, <1>2, <1>3, Closing DEF GatewayInv

(* The errors that leave a memory behind. *)
LEMMA ErrorsLeaving ==
    ASSUME GatewayInv, NEW h \in Process, Stores(h), AnswerError(h),
           \/ /\ UNCHANGED faulted
              /\ IF serving[h].base = Nothing THEN serving[h].session \in over
                                              ELSE serving[h].item \in Gone
           \/ faulted' = faulted \cup {serving[h].item}
    PROVE  GatewayInv'
  <1>1. /\ UNCHANGED <<accessVars, startedBy, over, memory, deprecated, trespasses>>
        /\ Close(h)
        /\ blamed' = blamed \cup {serving[h].item}
    BY DEF AnswerError, Blame
  <1>2. StoredAsAsked(h) /\ blamed \subseteq Stored /\ ErrorsExplained
    BY DEF GatewayInv
  <1>3. blamed' \subseteq Stored'
    BY <1>1, <1>2 DEF StoredAsAsked, Stored
  <1>4. /\ memory[serving[h].item].base = serving[h].base
        /\ memory[serving[h].item].session = serving[h].session
    BY <1>2 DEF StoredAsAsked
  <1>5. Gone' = Gone
    BY <1>1 DEF Gone, Stored
  <1>6. ErrorsExplained'
    <2> SUFFICES ASSUME NEW i \in blamed' \ faulted'
                 PROVE  IF memory[i].base = Nothing THEN memory[i].session \in over
                                                    ELSE i \in Gone
      BY <1>1, <1>5 DEF ErrorsExplained
    <2>1. CASE i = serving[h].item
      BY <1>4, <2>1
    <2>2. CASE i \in blamed \ faulted
      BY <1>2, <2>2 DEF ErrorsExplained
    <2> QED BY <1>1, <2>1, <2>2
  <1> QED BY <1>1, <1>3, <1>6, Closing DEF GatewayInv, AccessHeld

LEMMA Showing ==
    ASSUME GatewayInv, NEW h \in Process, NEW a \in Agent, Show(h, a)
    PROVE  GatewayInv'
  <1>1. UNCHANGED <<accessVars, startedBy, over, memory, deprecated, serving, blamed, faulted>>
    BY DEF Show
  <1>2. PICK items \in {ReadOne(h, a, i) : i \in Stored}
                       \cup {Neighbours(h, a, i, Stored \ Gone) : i \in Stored}
                       \cup {InSpace(h, a, sp) : sp \in Spaces} \cup {Everywhere(h, a)} :
            /\ \E i \in items : memory[i].space = "kept"
            /\ Exercise(Under(h), a, "kept", {"read"})
    BY DEF Show
  <1>3. \A i \in items : CanRead(h, a, memory[i].space)
    BY <1>2 DEF ReadOne, Neighbours, Shown, InSpace, Everywhere
  <1>4. MayRead(registry[h], a)
    BY <1>2, <1>3 DEF CanRead
  <1>5. Under(h) \in {registry[h], Nothing}
    BY DEF Under
  <1>6. AccessHeld'
    BY <1>2, <1>4, <1>5, ExerciseHeld DEF Has, GatewayInv
  <1>7. blamed' \subseteq Stored' /\ ErrorsExplained'
    BY <1>1, ErrorsKept DEF ErrorsExplained, GatewayInv
  <1>8. GatewayTypes'
    BY <1>1 DEF GatewayInv, GatewayTypes, AccessTypeOK, accessVars
  <1>9. \A g \in Process : Admitted(g)' /\ StoredAsAsked(g)'
    BY <1>1, CallKept DEF accessVars
  <1> QED BY <1>6, <1>7, <1>8, <1>9 DEF GatewayInv

-----------------------------------------------------------------------------

LEMMA GatewayStep == GatewayInv /\ [GatewayNext]_gatewayVars => GatewayInv'
  <1> SUFFICES ASSUME GatewayInv, [GatewayNext]_gatewayVars PROVE GatewayInv'
    OBVIOUS
  <1>1. ASSUME NEW h \in Process, Logged(h) PROVE GatewayInv'
    <2>1. CASE /\ Logs(serving[h].session) /\ AnswerError(h)
               /\ startedBy[serving[h].session] = Nothing \/ serving[h].session \in over
      BY <1>1, <2>1, ErrorsLeaving DEF Logged, Logs
    <2>2. CASE AnswerOk(h, {})
      BY <1>1, <2>2, Answering DEF Logged, Stores
    <2>3. CASE CanRead(h, serving[h].agent, serving[h].space) /\ AnswerOk(h, {"read"})
      BY <1>1, <2>3, Answering DEF Logged, Stores
    <2> QED BY <1>1, <2>1, <2>2, <2>3 DEF Logged
  <1>2. ASSUME NEW h \in Process, Updated(h) PROVE GatewayInv'
    <2>1. CASE serving[h].item \in Gone /\ AnswerError(h)
      BY <1>2, <2>1, ErrorsLeaving DEF Updated
    <2>2. CASE AnswerOk(h, {})
      BY <1>2, <2>2, Answering DEF Updated, Stores
    <2> QED BY <1>2, <2>1, <2>2 DEF Updated
  <1>3. ASSUME NEW h \in Process, Refused(h) PROVE GatewayInv'
    <2>1. /\ UNCHANGED <<accessVars, startedBy, over, memory, deprecated, blamed, faulted, trespasses>>
          /\ Close(h)
      BY <1>3 DEF Refused
    <2>2. blamed' \subseteq Stored' /\ ErrorsExplained'
      BY <2>1, ErrorsKept DEF ErrorsExplained, GatewayInv
    <2> QED BY <2>1, <2>2, Closing DEF GatewayInv, AccessHeld
  <1>4. ASSUME NEW h \in Process, NEW i \in Item, Remember(h, i) \/ Revise(h, i)
        PROVE  GatewayInv'
    BY <1>4, Putting DEF Remember, Revise, Remembers, Revises
  <1>5. ASSUME NEW h \in Process, NEW a \in Agent, NEW s \in Session \cup {Nothing},
               \/ \E sp \in Spaces : AskWrite(h, a, s, sp)
               \/ \E i \in Item : AskUpdate(h, a, s, i)
        PROVE  GatewayInv'
    <2>1. CASE \E sp \in Spaces : AskWrite(h, a, s, sp)
      BY <2>1, Asking DEF AskWrite
    <2>2. ASSUME NEW i \in Item, AskUpdate(h, a, s, i) PROVE GatewayInv'
      <3>1. memory[i] \in Memory
        BY <2>2 DEF AskUpdate, Stored, GatewayInv, GatewayTypes
      <3>2. memory[i].space \in Spaces
        BY <3>1 DEF Memory
      <3> QED BY <2>2, <3>2, Asking DEF AskUpdate
    <2> QED BY <1>5, <2>1, <2>2
  <1>6. ASSUME NEW h \in Process, AnswerFails(h) PROVE GatewayInv'
    BY <1>6, ErrorsLeaving DEF AnswerFails
  <1> QED BY <1>1, <1>2, <1>3, <1>4, <1>5, <1>6, Beginning, Granting, Showing, PuttingFails
          DEF GatewayNext

LEMMA GatewayInvariance == GatewaySpec => []GatewayInv
  BY GatewayStarts, GatewayStep, PTL DEF GatewaySpec

(* Nothing is shown or changed against the registry, for any number of      *)
(* processes, agents, grants and calls: what an agent's call shows or       *)
(* changes in a namespace was its to read or to write when it was asked, if *)
(* the process's copy was up to date then (require_namespace_access in      *)
(* mcp/server.py, check_namespace_access in api/v1.py).                     *)
THEOREM AccessIsHeld == GatewaySpec => []AccessHeld
  <1>1. GatewayInv => AccessHeld
    BY DEF GatewayInv
  <1> QED BY <1>1, GatewayInvariance, PTL

(* An error answer means that nothing was stored, but for a write in an     *)
(* ended session, an update whose version is gone by the answer, and a call *)
(* that met a fault after it had stored, in any state the server reaches    *)
(* (ember_write, ember_update in mcp/server.py).                            *)
THEOREM ErrorsAreExplained == GatewaySpec => []ErrorsExplained
  <1>1. GatewayInv => ErrorsExplained
    BY DEF GatewayInv
  <1> QED BY <1>1, GatewayInvariance, PTL

=============================================================================
