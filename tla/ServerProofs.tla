---------------------------- MODULE ServerProofs ----------------------------
(***************************************************************************)
(* Proofs about two parts of a server that share no state, for any values  *)
(* of their constants: the events of a board (EventBroker) and the upkeep  *)
(* of a namespace (Upkeep).                                                *)
(*                                                                         *)
(* Events are drawn, scheduled, queued and taken in the order of their     *)
(* numbers (Ordered): what is still to come is newer than all that came.   *)
(* So an event that makes room in a full queue, and asks for a resync, is  *)
(* newer than the one that is dropped, and it takes over from any earlier  *)
(* request it drops.                                                       *)
(*                                                                         *)
(* A keeper's last reflection on a memory is no earlier than any note of   *)
(* it (Remembers), so a memory that is due has no note within the cooldown *)
(* (Apart).  The groups of a cycle are each found once, a group of an hour *)
(* that is also one of a label being covered by it, and from then on only  *)
(* pass from what is to do to what is done (Different).                    *)
(***************************************************************************)
EXTENDS EventBroker, Upkeep, SequenceTheorems, FiniteSetTheorems, TLAPS

-----------------------------------------------------------------------------
(* The events of a board. *)

Sorted(s) == \A m, n \in DOMAIN s : m < n => s[m].number < s[n].number

(* The numbers of u, from what it got to what is published now. *)
Ordered(u) ==
    /\ Sorted(Stream(u))
    /\ \A m, n \in DOMAIN scheduled[u] : m < n => scheduled[u][m] < scheduled[u][n]
    /\ \A m \in DOMAIN Stream(u), n \in DOMAIN scheduled[u] : Stream(u)[m].number < scheduled[u][n]
    /\ \A m \in DOMAIN Stream(u) : Stream(u)[m].number <= sequence
    /\ \A n \in DOMAIN scheduled[u] : scheduled[u][n] <= sequence
    /\ inFlight # 0 =>
          /\ \A m \in DOMAIN Stream(u) : Stream(u)[m].number < inFlight
          /\ \A n \in DOMAIN scheduled[u] : scheduled[u][n] < inFlight

(* A loss of u is followed by an event that asks for a resync. *)
Flagged(u) ==
    lost[u] # 0 =>
        \E n \in DOMAIN Stream(u) : Stream(u)[n].number > lost[u] /\ Stream(u)[n].resync

Inv ==
    /\ BrokerTypeOK
    /\ inFlight \in {0, sequence}
    /\ \A u \in Subscription : Ordered(u) /\ Flagged(u)

-----------------------------------------------------------------------------
(* Sequences of events. *)

LEMMA AppendTo ==
    ASSUME NEW S, NEW s \in Seq(S), NEW e \in S
    PROVE  /\ Append(s, e) \in Seq(S)
           /\ DOMAIN Append(s, e) = DOMAIN s \cup {Len(s) + 1}
           /\ Len(s) + 1 \notin DOMAIN s /\ \A n \in DOMAIN s : n < Len(s) + 1
           /\ \A n \in DOMAIN s : Append(s, e)[n] = s[n]
           /\ Append(s, e)[Len(s) + 1] = e
  OBVIOUS

LEMMA TailOf ==
    ASSUME NEW S, NEW s \in Seq(S), s # <<>>
    PROVE  /\ Head(s) \in S /\ Tail(s) \in Seq(S) /\ Len(Tail(s)) = Len(s) - 1
           /\ 1 \in DOMAIN s /\ Head(s) = s[1]
           /\ \A n \in DOMAIN Tail(s) : /\ n + 1 \in DOMAIN s /\ Tail(s)[n] = s[n + 1]
                                        /\ n \in Nat \ {0}
  OBVIOUS

(* An event taken from the queue to the consumer stays where it is in the   *)
(* stream.                                                                  *)
LEMMA TakenStays ==
    ASSUME NEW g \in Seq(Event), NEW q \in Seq(Event), q # <<>>
    PROVE  Append(g, Head(q)) \o Tail(q) = g \o q
  OBVIOUS

LEMMA QueuedComesLast ==
    ASSUME NEW g \in Seq(Event), NEW q \in Seq(Event), NEW e \in Event
    PROVE  g \o Append(q, e) = Append(g \o q, e)
  OBVIOUS

(* What is left of a stream when the head of the queue is dropped. *)
LEMMA DroppedLeaves ==
    ASSUME NEW g \in Seq(Event), NEW q \in Seq(Event), q # <<>>
    PROVE  /\ g \o Tail(q) \in Seq(Event)
           /\ Sorted(g \o q) => Sorted(g \o Tail(q))
           /\ \A m \in DOMAIN (g \o Tail(q)) :
                 \E n \in DOMAIN (g \o q) : (g \o Tail(q))[m] = (g \o q)[n]
           /\ \E n \in DOMAIN (g \o q) : Head(q) = (g \o q)[n]
  <1> DEFINE s == g \o q
             t == g \o Tail(q)
             at(m) == IF m <= Len(g) THEN m ELSE m + 1
  <1>1. /\ s \in Seq(Event) /\ Len(s) = Len(g) + Len(q) /\ DOMAIN s = 1 .. Len(g) + Len(q)
        /\ t \in Seq(Event) /\ DOMAIN t = 1 .. Len(g) + Len(q) - 1
        /\ Len(g) \in Nat /\ Len(q) \in Nat \ {0}
    OBVIOUS
  <1>2. ASSUME NEW m \in DOMAIN t PROVE at(m) \in DOMAIN s /\ t[m] = s[at(m)]
    <2>1. CASE m <= Len(g)
      BY <1>1, <2>1
    <2>2. CASE ~(m <= Len(g))
      BY <1>1, <2>2
    <2> QED BY <2>1, <2>2
  <1>3. \A m, n \in DOMAIN t : m < n => at(m) < at(n)
    BY <1>1
  <1>4. Head(q) = s[Len(g) + 1] /\ Len(g) + 1 \in DOMAIN s
    BY <1>1
  <1> HIDE DEF s, t, at
  <1>5. Sorted(s) => Sorted(t)
    BY <1>2, <1>3 DEF Sorted
  <1>6. \A m \in DOMAIN t : \E n \in DOMAIN s : t[m] = s[n]
    BY <1>2
  <1> QED BY <1>1, <1>4, <1>5, <1>6 DEF s, t

-----------------------------------------------------------------------------
(* Steps. *)

LEMMA StreamTyped ==
    ASSUME BrokerTypeOK, NEW u \in Subscription
    PROVE  /\ got[u] \in Seq(Event) /\ queue[u] \in Seq(Event) /\ Stream(u) \in Seq(Event)
           /\ scheduled[u] \in Seq(1..MaxEvents)
           /\ \A n \in DOMAIN Stream(u) : Stream(u)[n] \in Event /\ Stream(u)[n].number \in Nat
           /\ \A n \in DOMAIN scheduled[u] : scheduled[u][n] \in Nat
  <1>1. got[u] \in Seq(Event) /\ queue[u] \in Seq(Event) /\ scheduled[u] \in Seq(1..MaxEvents)
    BY DEF BrokerTypeOK
  <1>2. Stream(u) \in Seq(Event)
    BY <1>1 DEF Stream
  <1>3. \A n \in DOMAIN Stream(u) : Stream(u)[n] \in Event
    BY <1>2
  <1>4. \A e \in Event : e.number \in Nat
    BY BrokerAssumption DEF Event
  <1> QED BY <1>1, <1>2, <1>3, <1>4, BrokerAssumption

LEMMA EnqueueKeeps ==
    ASSUME Inv, NEW u \in Subscription, Enqueue(u) PROVE Inv'
  <1> DEFINE p == scheduled[u]
             q == queue[u]
             g == got[u]
             e == [number |-> Head(p), resync |-> Len(q) = QueueSize]
             rest == IF Len(q) = QueueSize THEN Tail(q) ELSE q
  <1>1. /\ p \in Seq(1..MaxEvents) /\ p # <<>> /\ q \in Seq(Event) /\ g \in Seq(Event)
        /\ Len(q) <= QueueSize /\ QueueSize \in Nat \ {0}
    BY BrokerAssumption, StreamTyped DEF Inv, BrokerTypeOK, Enqueue
  <1>2. Head(p) \in 1..MaxEvents /\ e \in Event
    <2>1. Head(p) \in 1..MaxEvents
      BY <1>1, TailOf
    <2> QED BY <2>1 DEF Event, e
  <1>3. rest \in Seq(Event) /\ Len(rest) < QueueSize
    BY <1>1
  <1> HIDE DEF e, rest
  <1>4. /\ scheduled' = [scheduled EXCEPT ![u] = Tail(p)]
        /\ queue' = [queue EXCEPT ![u] = Append(rest, e)]
        /\ lost' = IF Len(q) = QueueSize THEN [lost EXCEPT ![u] = Head(q).number] ELSE lost
        /\ UNCHANGED <<sequence, subscribers, closed, dead, inFlight, addressees, got>>
    BY DEF Enqueue, Put, e, rest
  <1>5. BrokerTypeOK'
    <2>1. Tail(p) \in Seq(1..MaxEvents)
      BY <1>1, TailOf
    <2>2. Append(rest, e) \in Seq(Event) /\ Len(Append(rest, e)) <= QueueSize
      BY <1>1, <1>2, <1>3
    <2>3. Len(q) = QueueSize => Head(q).number \in 0..MaxEvents
      <3>1. ASSUME Len(q) = QueueSize PROVE Head(q) \in Event
        <4>1. q # <<>>
          BY <1>1, <3>1
        <4> QED BY <1>1, <4>1, TailOf
      <3> QED BY <3>1, BrokerAssumption DEF Event
    <2> QED BY <1>4, <2>1, <2>2, <2>3 DEF Inv, BrokerTypeOK
  <1>6. ASSUME NEW v \in Subscription, v # u PROVE Ordered(v)' /\ Flagged(v)'
    <2>1. /\ scheduled'[v] = scheduled[v] /\ queue'[v] = queue[v] /\ got'[v] = got[v]
          /\ lost'[v] = lost[v] /\ sequence' = sequence /\ inFlight' = inFlight
      BY <1>4, <1>6 DEF Inv, BrokerTypeOK
    <2> QED BY <2>1 DEF Inv, Ordered, Flagged, Stream
  <1> DEFINE s == g \o q
             t == g \o rest
             new == Append(t, e)
  <1>7. /\ scheduled'[u] = Tail(p) /\ Stream(u)' = new /\ sequence' = sequence
        /\ inFlight' = inFlight
        /\ lost'[u] = IF Len(q) = QueueSize THEN Head(q).number ELSE lost[u]
    <2>1. Stream(u)' = g \o Append(rest, e)
      BY <1>1, <1>4 DEF Stream, Inv, BrokerTypeOK
    <2> QED BY <1>1, <1>2, <1>3, <1>4, <2>1, QueuedComesLast DEF Inv, BrokerTypeOK
  <1>8. /\ t \in Seq(Event) /\ Sorted(t)
        /\ \A m \in DOMAIN t : \E n \in DOMAIN s : t[m] = s[n]
        /\ Len(q) = QueueSize => \E n \in DOMAIN s : Head(q) = s[n]
    <2>1. Sorted(s)
      BY DEF Inv, Ordered, Stream
    <2>2. CASE Len(q) = QueueSize
      <3>1. q # <<>>
        BY <1>1, <2>2
      <3>2. rest = Tail(q)
        BY <2>2 DEF rest
      <3>3. /\ g \o Tail(q) \in Seq(Event) /\ Sorted(g \o Tail(q))
            /\ \A m \in DOMAIN (g \o Tail(q)) : \E n \in DOMAIN (g \o q) :
                   (g \o Tail(q))[m] = (g \o q)[n]
            /\ \E n \in DOMAIN (g \o q) : Head(q) = (g \o q)[n]
        BY <1>1, <2>1, <3>1, DroppedLeaves
      <3> QED BY <3>2, <3>3
    <2>3. CASE Len(q) # QueueSize
      <3>1. rest = q
        BY <2>3 DEF rest
      <3>2. t = s /\ s \in Seq(Event)
        BY <1>1, <3>1
      <3> HIDE DEF s, t
      <3> QED BY <2>1, <2>3, <3>2
    <2> QED BY <2>2, <2>3
  <1>9. Stream(u) = s
    BY DEF Stream
  <1>10. /\ new \in Seq(Event) /\ DOMAIN new = DOMAIN t \cup {Len(t) + 1}
         /\ Len(t) + 1 \notin DOMAIN t /\ \A n \in DOMAIN t : n < Len(t) + 1
         /\ \A n \in DOMAIN t : new[n] = t[n]
         /\ new[Len(t) + 1] = e
    BY <1>2, <1>8, AppendTo
  <1>11. /\ e.number = Head(p) /\ Head(p) = p[1] /\ 1 \in DOMAIN p
         /\ e.resync = (Len(q) = QueueSize)
         /\ \A n \in DOMAIN Tail(p) : n + 1 \in DOMAIN p /\ Tail(p)[n] = p[n + 1] /\ 1 < n + 1
    BY <1>1 DEF e
  <1>12. Len(t) \in Nat /\ \A n \in DOMAIN t : n \in Nat
    BY <1>8
  <1>13. /\ \A n \in DOMAIN s : s[n].number < Head(p) /\ s[n].number \in Nat
         /\ Head(p) \in Nat /\ Head(p) <= sequence /\ (inFlight # 0 => Head(p) < inFlight)
    BY <1>9, <1>11, StreamTyped DEF Inv, Ordered
  <1> HIDE DEF s, t, new
  <1>14. Sorted(new)
    <2> SUFFICES ASSUME NEW m \in DOMAIN new, NEW n \in DOMAIN new, m < n
                 PROVE  new[m].number < new[n].number
      BY DEF Sorted
    <2>1. CASE n \in DOMAIN t
      <3>1. m \in DOMAIN t
        BY <1>10, <1>12, <2>1
      <3> QED BY <1>8, <1>10, <2>1, <3>1 DEF Sorted
    <2>2. CASE n = Len(t) + 1
      <3>1. m \in DOMAIN t
        BY <1>10, <2>2
      <3> QED BY <1>8, <1>10, <1>11, <1>13, <2>2, <3>1
    <2> QED BY <1>10, <2>1, <2>2
  <1>15. /\ \A m \in DOMAIN new : new[m].number <= Head(p) /\ new[m].number \in Nat
    BY <1>8, <1>10, <1>11, <1>13
  <1>16. \A n \in DOMAIN Tail(p) : /\ Head(p) < Tail(p)[n] /\ Tail(p)[n] <= sequence
                                   /\ Tail(p)[n] \in Nat
                                   /\ inFlight # 0 => Tail(p)[n] < inFlight
    BY <1>11, StreamTyped DEF Inv, Ordered
  <1>17. \A m, n \in DOMAIN Tail(p) : m < n => Tail(p)[m] < Tail(p)[n]
    <2>1. DOMAIN Tail(p) \subseteq Nat
      BY <1>1, TailOf
    <2>2. \A m, n \in DOMAIN p : m < n => p[m] < p[n]
      BY DEF Inv, Ordered
    <2> HIDE DEF p
    <2>3. ASSUME NEW m \in DOMAIN Tail(p), NEW n \in DOMAIN Tail(p), m < n
          PROVE  Tail(p)[m] < Tail(p)[n]
      <3>1. m \in Nat /\ n \in Nat /\ m + 1 < n + 1
        BY <2>1, <2>3
      <3> QED BY <1>11, <2>2, <3>1
    <2> QED BY <2>3
  <1>18. sequence \in Nat /\ inFlight \in Nat
    BY BrokerAssumption DEF Inv, BrokerTypeOK
  <1>19. Ordered(u)'
    <2>1. \A m \in DOMAIN new, n \in DOMAIN Tail(p) : new[m].number < Tail(p)[n]
      BY <1>13, <1>15, <1>16
    <2>2. \A m \in DOMAIN new : new[m].number <= sequence
      BY <1>13, <1>15, <1>18
    <2>3. inFlight # 0 => \A m \in DOMAIN new : new[m].number < inFlight
      BY <1>13, <1>15, <1>18
    <2> QED BY <1>7, <1>14, <1>16, <1>17, <2>1, <2>2, <2>3 DEF Ordered
  <1>20. Flagged(u)'
    <2>1. CASE Len(q) = QueueSize
      <3>1. lost'[u] = Head(q).number /\ new[Len(t) + 1].resync /\ Len(t) + 1 \in DOMAIN new
        BY <1>7, <1>10, <1>11, <2>1
      <3>2. new[Len(t) + 1].number > lost'[u]
        BY <1>8, <1>10, <1>11, <1>13, <2>1, <3>1
      <3> QED BY <1>7, <3>1, <3>2 DEF Flagged
    <2>2. CASE Len(q) # QueueSize
      <3>1. t = s /\ lost'[u] = lost[u]
        BY <1>7, <2>2 DEF t, s, rest
      <3> QED BY <1>7, <1>9, <1>10, <3>1 DEF Inv, Flagged
    <2> QED BY <2>1, <2>2
  <1> QED BY <1>4, <1>5, <1>6, <1>19, <1>20 DEF Inv

LEMMA GetKeeps == ASSUME Inv, NEW u \in Subscription, Get(u) PROVE Inv'
  <1>1. got[u] \in Seq(Event) /\ queue[u] \in Seq(Event) /\ queue[u] # <<>>
    BY StreamTyped DEF Inv, Get
  <1>2. /\ got' = [got EXCEPT ![u] = Append(got[u], Head(queue[u]))]
        /\ queue' = [queue EXCEPT ![u] = Tail(queue[u])]
        /\ UNCHANGED <<sequence, subscribers, closed, dead, inFlight, addressees, scheduled, lost>>
    BY DEF Get
  <1>3. /\ Append(got[u], Head(queue[u])) \in Seq(Event)
        /\ Tail(queue[u]) \in Seq(Event) /\ Len(Tail(queue[u])) <= Len(queue[u])
    BY <1>1
  <1>4. BrokerTypeOK'
    <2>1. Len(queue[u]) <= QueueSize /\ Len(queue[u]) \in Nat /\ Len(Tail(queue[u])) \in Nat
      BY <1>1, <1>3 DEF Inv, BrokerTypeOK
    <2>2. Len(Tail(queue[u])) <= QueueSize
      BY <1>3, <2>1, BrokerAssumption
    <2>3. /\ got' \in [Subscription -> Seq(Event)] /\ queue' \in [Subscription -> Seq(Event)]
          /\ \A v \in Subscription : Len(queue'[v]) <= QueueSize
      BY <1>2, <1>3, <2>2 DEF Inv, BrokerTypeOK
    <2> QED BY <1>2, <2>3 DEF Inv, BrokerTypeOK
  <1>5. ASSUME NEW v \in Subscription PROVE Stream(v)' = Stream(v)
    <2>1. CASE v = u
      BY <1>1, <1>2, <2>1, TakenStays DEF Stream, Inv, BrokerTypeOK
    <2>2. CASE v # u
      BY <1>2, <2>2 DEF Stream, Inv, BrokerTypeOK
    <2> QED BY <2>1, <2>2
  <1> QED BY <1>2, <1>4, <1>5 DEF Inv, Ordered, Flagged

LEMMA NumberKeeps == ASSUME Inv, Number PROVE Inv'
  <1>1. /\ sequence \in Nat /\ sequence' = sequence + 1 /\ inFlight' = sequence + 1
        /\ sequence' \in 0..MaxEvents /\ addressees' = subscribers
        /\ UNCHANGED <<subscribers, closed, dead, scheduled, queue, got, lost>>
    BY BrokerAssumption DEF Inv, BrokerTypeOK, Number
  <1>2. BrokerTypeOK' /\ inFlight' \in {0, sequence'}
    BY <1>1 DEF Inv, BrokerTypeOK
  <1>3. ASSUME NEW u \in Subscription PROVE Ordered(u)' /\ Flagged(u)'
    <2>1. Stream(u)' = Stream(u) /\ scheduled'[u] = scheduled[u] /\ lost'[u] = lost[u]
      BY <1>1 DEF Stream
    <2>2. /\ \A m \in DOMAIN Stream(u) :
                Stream(u)[m].number <= sequence /\ Stream(u)[m].number \in Nat
          /\ \A n \in DOMAIN scheduled[u] : scheduled[u][n] <= sequence /\ scheduled[u][n] \in Nat
      BY StreamTyped DEF Inv, Ordered
    <2> QED BY <1>1, <2>1, <2>2 DEF Inv, Ordered, Flagged
  <1> QED BY <1>2, <1>3 DEF Inv

LEMMA ScheduleKeeps == ASSUME Inv, Schedule PROVE Inv'
  <1>1. /\ inFlight = sequence /\ inFlight \in 1..MaxEvents
        /\ inFlight' = 0 /\ sequence' = sequence /\ UNCHANGED <<dead, queue, got, lost>>
        /\ subscribers' = subscribers \ (addressees \cap dead)
        /\ closed' = closed \cup (addressees \cap dead) /\ addressees' = {}
    BY BrokerAssumption DEF Inv, BrokerTypeOK, Schedule
  <1>2. /\ DOMAIN scheduled' = Subscription
        /\ \A u \in Subscription :
              scheduled'[u] = scheduled[u] \/ scheduled'[u] = Append(scheduled[u], inFlight)
    BY DEF Schedule
  <1>3. \A u \in Subscription : scheduled'[u] \in Seq(1..MaxEvents)
    <2> TAKE u \in Subscription
    <2>1. scheduled[u] \in Seq(1..MaxEvents)
      BY StreamTyped DEF Inv
    <2>2. Append(scheduled[u], inFlight) \in Seq(1..MaxEvents)
      BY <1>1, <2>1, AppendTo
    <2> QED BY <1>2, <2>1, <2>2
  <1>4. BrokerTypeOK'
    <2>1. scheduled' \in [Subscription -> Seq(1..MaxEvents)]
      BY <1>3 DEF Schedule
    <2>2. 0 \in 0..MaxEvents
      BY BrokerAssumption
    <2> QED BY <1>1, <2>1, <2>2 DEF Inv, BrokerTypeOK
  <1>5. ASSUME NEW u \in Subscription PROVE Ordered(u)' /\ Flagged(u)'
    <2>1. Stream(u)' = Stream(u)
      BY <1>1 DEF Stream
    <2>2. Flagged(u)'
      BY <1>1, <2>1 DEF Inv, Flagged
    <2>3. Ordered(u)'
      <3>1. CASE scheduled'[u] = scheduled[u]
        BY <1>1, <2>1, <3>1 DEF Inv, Ordered
      <3>2. CASE scheduled'[u] = Append(scheduled[u], inFlight)
        <4> DEFINE p == scheduled[u]
                   new == Append(p, inFlight)
        <4>1. p \in Seq(1..MaxEvents) /\ \A n \in DOMAIN p : n \in Nat
          BY StreamTyped DEF Inv
        <4>2. /\ DOMAIN new = DOMAIN p \cup {Len(p) + 1}
              /\ Len(p) + 1 \notin DOMAIN p /\ \A n \in DOMAIN p : n < Len(p) + 1
              /\ \A n \in DOMAIN p : new[n] = p[n]
              /\ new[Len(p) + 1] = inFlight
          BY <1>1, <4>1, AppendTo
        <4>3. Len(p) \in Nat
          BY <4>1
        <4> HIDE DEF p, new
        <4>4. /\ \A n \in DOMAIN p : p[n] < inFlight
              /\ \A m, n \in DOMAIN p : m < n => p[m] < p[n]
              /\ \A m \in DOMAIN Stream(u) : Stream(u)[m].number < inFlight
              /\ \A m \in DOMAIN Stream(u), n \in DOMAIN p : Stream(u)[m].number < p[n]
              /\ \A n \in DOMAIN p : p[n] <= sequence
          BY <1>1 DEF Inv, Ordered, p
        <4>5. \A m, n \in DOMAIN new : m < n => new[m] < new[n]
          BY <4>1, <4>2, <4>3, <4>4
        <4>6. \A m \in DOMAIN Stream(u), n \in DOMAIN new : Stream(u)[m].number < new[n]
          BY <4>2, <4>4
        <4>7. \A n \in DOMAIN new : new[n] <= sequence
          BY <1>1, <4>2, <4>4
        <4>8. scheduled'[u] = new
          BY <3>2 DEF p, new
        <4> QED BY <1>1, <2>1, <4>5, <4>6, <4>7, <4>8 DEF Inv, Ordered
      <3> QED BY <1>2, <3>1, <3>2
    <2> QED BY <2>2, <2>3
  <1> QED BY <1>1, <1>4, <1>5 DEF Inv

LEMMA InvAlways == BrokerSpec => []Inv
  <1>1. BrokerInit => Inv
    <2> SUFFICES ASSUME BrokerInit PROVE Inv
      OBVIOUS
    <2>1. BrokerTypeOK
      BY BrokerAssumption DEF BrokerInit, BrokerTypeOK
    <2>2. ASSUME NEW u \in Subscription PROVE Stream(u) = <<>> /\ scheduled[u] = <<>>
      BY DEF BrokerInit, Stream
    <2>3. DOMAIN <<>> = {}
      OBVIOUS
    <2> QED BY <2>1, <2>2, <2>3 DEF BrokerInit, Inv, Ordered, Flagged, Sorted
  <1>2. Inv /\ [BrokerNext]_brokerVars => Inv'
    <2> SUFFICES ASSUME Inv, [BrokerNext]_brokerVars PROVE Inv'
      OBVIOUS
    <2>1. ASSUME NEW u \in Subscription, Subscribe(u) \/ Unsubscribe(u) \/ CloseLoop(u)
          PROVE  Inv'
      <3>1. /\ UNCHANGED <<sequence, inFlight, addressees, scheduled, queue, got, lost>>
            /\ {subscribers', closed', dead'} \subseteq SUBSET Subscription
        BY <2>1 DEF Subscribe, Unsubscribe, CloseLoop, Inv, BrokerTypeOK
      <3> QED BY <3>1 DEF Inv, BrokerTypeOK, Ordered, Flagged, Stream
    <2>2. CASE UNCHANGED brokerVars
      BY <2>2 DEF brokerVars, Inv, BrokerTypeOK, Ordered, Flagged, Stream
    <2> QED BY <2>1, <2>2, NumberKeeps, ScheduleKeeps, EnqueueKeeps, GetKeeps DEF BrokerNext
  <1> QED BY <1>1, <1>2, PTL DEF BrokerSpec

(* The broker's state keeps its types, and no queue outgrows its size. *)
THEOREM BrokerTypes == BrokerSpec => []BrokerTypeOK
  <1>1. Inv => BrokerTypeOK
    BY DEF Inv
  <1> QED BY <1>1, InvAlways, PTL

(* However slow a consumer and however small its queue, it gets events in   *)
(* the order of their numbers and each loss is followed by an event that    *)
(* asks for a resync (realtime.py publish, _enqueue).                       *)
THEOREM LossesFlagged == BrokerSpec => []LossIsFlagged
  <1>1. Inv => LossIsFlagged
    BY DEF Inv, LossIsFlagged, Ordered, Sorted, Flagged
  <1> QED BY <1>1, InvAlways, PTL

-----------------------------------------------------------------------------
(* The upkeep of a namespace. *)

LifeOf == [born : Nat, seen : Nat, tag : Tag \cup {NoTag}, slow : BOOLEAN]
Moment == Nat \cup {-1}

UpkeepTypeOK ==
    /\ now \in Nat
    /\ memories \in Seq(LifeOf) /\ Len(memories) <= MaxMemories
    /\ known \in [Keeper -> SUBSET (1..MaxMemories)]
    /\ notes \subseteq Keeper \X (1..MaxMemories) \X Nat
    /\ reflectedAt \in [Keeper -> [1..MaxMemories -> Moment]]
    /\ ranAt \in [Keeper -> Moment]
    /\ doing \in [Keeper -> {"sleep", "notes", "summaries"}]
    /\ toNote \in [Keeper -> SUBSET (1..MaxMemories)]
    /\ toSum \in [Keeper -> Seq(SUBSET (1..MaxMemories))]
    /\ made \in [Keeper -> Seq(SUBSET (1..MaxMemories))]

(* When keeper k has reflected on m, ever or in the cycle that runs, and    *)
(* the notes it has written since.                                          *)
Remembers(k) ==
    /\ ranAt[k] <= now
    /\ \A m \in 1..MaxMemories : reflectedAt[k][m] <= now
    /\ \A n \in notes : n[1] = k => n[3] <= reflectedAt[k][n[2]]
    /\ \A m \in toNote[k] : reflectedAt[k][m] = ranAt[k] /\ ranAt[k] # -1

(* Notes about one memory are apart by the cooldown; and so is the one that *)
(* is about to be written.                                                  *)
Apart(k) ==
    /\ \A n, o \in notes :
          n[1] = k /\ o[1] = k /\ n[2] = o[2] /\ n[3] < o[3] => o[3] - n[3] >= Cooldown
    /\ \A n \in notes : n[1] = k /\ n[2] \in toNote[k] => ranAt[k] - n[3] >= Cooldown

(* The groups of a cycle, done and to do, are different ones.               *)
Different(k) ==
    /\ IsInjective(made[k] \o toSum[k])
    /\ doing[k] # "summaries" => made[k] = <<>> /\ toSum[k] = <<>>

UpkeepInv ==
    /\ UpkeepTypeOK
    /\ \A k \in Keeper : Remembers(k) /\ Apart(k) /\ Different(k)

-----------------------------------------------------------------------------
(* Sequences of groups. *)

(* A finite set has a sequence of its elements, each once. *)
LEMMA EachOnce ==
    ASSUME NEW S, IsFiniteSet(S)
    PROVE  /\ SetToSeq(S) \in [1..Cardinality(S) -> S]
           /\ IsInjective(SetToSeq(S))
           /\ SetToSeq(S) \in Seq(S)
  <1>1. Cardinality(S) \in Nat /\ ExistsBijection(1..Cardinality(S), S)
    BY FS_CardinalityType
  <1>2. \E f \in [1..Cardinality(S) -> S] : IsInjective(f)
    BY <1>1 DEF ExistsBijection, Bijection, Injection
  <1>3. SetToSeq(S) \in [1..Cardinality(S) -> S] /\ IsInjective(SetToSeq(S))
    BY <1>2 DEF SetToSeq
  <1>4. SetToSeq(S) \in Seq(S)
    BY <1>1, <1>3
  <1> QED  BY <1>3, <1>4

(* Two sequences without repetitions and without a common element. *)
LEMMA JoinedOnce ==
    ASSUME NEW S, NEW s \in Seq(S), NEW t \in Seq(S), IsInjective(s), IsInjective(t),
           \A m \in DOMAIN s, n \in DOMAIN t : s[m] # t[n]
    PROVE  s \o t \in Seq(S) /\ IsInjective(s \o t)
  <1>1. /\ s \o t \in Seq(S)
        /\ DOMAIN (s \o t) = 1..(Len(s) + Len(t))
        /\ \A n \in 1..(Len(s) + Len(t)) : (s \o t)[n] = IF n <= Len(s) THEN s[n]
                                                               ELSE t[n - Len(s)]
    BY ConcatProperties, LenProperties
  <1>2. DOMAIN s = 1..Len(s) /\ DOMAIN t = 1..Len(t) /\ Len(s) \in Nat /\ Len(t) \in Nat
    OBVIOUS
  <1>3. ASSUME NEW m \in 1..(Len(s) + Len(t)), NEW n \in 1..(Len(s) + Len(t)),
               (s \o t)[m] = (s \o t)[n]
        PROVE  m = n
    <2>1. CASE m <= Len(s) /\ n <= Len(s)
      <3>1. s[m] = s[n] /\ m \in DOMAIN s /\ n \in DOMAIN s
        BY <1>1, <1>2, <1>3, <2>1
      <3> QED  BY <3>1 DEF IsInjective
    <2>2. CASE m > Len(s) /\ n > Len(s)
      <3>1. /\ t[m - Len(s)] = t[n - Len(s)]
            /\ m - Len(s) \in DOMAIN t /\ n - Len(s) \in DOMAIN t
        BY <1>1, <1>2, <1>3, <2>2
      <3>2. m - Len(s) = n - Len(s)
        BY <3>1 DEF IsInjective
      <3> QED  BY <3>2, <1>2
    <2>3. CASE m <= Len(s) /\ n > Len(s)
      <3>1. s[m] = t[n - Len(s)] /\ m \in DOMAIN s /\ n - Len(s) \in DOMAIN t
        BY <1>1, <1>2, <1>3, <2>3
      <3> QED  BY <3>1
    <2>4. CASE m > Len(s) /\ n <= Len(s)
      <3>1. s[n] = t[m - Len(s)] /\ n \in DOMAIN s /\ m - Len(s) \in DOMAIN t
        BY <1>1, <1>2, <1>3, <2>4
      <3> QED  BY <3>1
    <2> QED  BY <2>1, <2>2, <2>3, <2>4, <1>2
  <1> QED  BY <1>1, <1>3 DEF IsInjective

(* The first group to do becomes the last one done, or is given up. *)
LEMMA OneGroupDone ==
    ASSUME NEW S, NEW s \in Seq(S), NEW t \in Seq(S), t # <<>>, IsInjective(s \o t)
    PROVE  /\ Append(s, Head(t)) \in Seq(S) /\ Tail(t) \in Seq(S)
           /\ IsInjective(Append(s, Head(t)) \o Tail(t))
           /\ IsInjective(s \o Tail(t))
  <1>1. /\ Head(t) \in S /\ Tail(t) \in Seq(S) /\ Len(Tail(t)) = Len(t) - 1
        /\ Head(t) = t[1] /\ Len(t) \in Nat \ {0} /\ Len(s) \in Nat
        /\ \A n \in 1..Len(Tail(t)) : Tail(t)[n] = t[n + 1]
    BY HeadTailProperties, EmptySeq, LenProperties
  <1>2. /\ Append(s, Head(t)) \in Seq(S) /\ Len(Append(s, Head(t))) = Len(s) + 1
        /\ \A n \in 1..Len(s) : Append(s, Head(t))[n] = s[n]
        /\ Append(s, Head(t))[Len(s) + 1] = t[1]
    BY <1>1
  <1>3. /\ s \o t \in Seq(S) /\ Len(s \o t) = Len(s) + Len(t)
        /\ \A n \in 1..(Len(s) + Len(t)) : (s \o t)[n] = IF n <= Len(s) THEN s[n]
                                                               ELSE t[n - Len(s)]
    BY ConcatProperties
  <1>4. /\ s \o Tail(t) \in Seq(S) /\ Len(s \o Tail(t)) = Len(s) + Len(Tail(t))
        /\ \A n \in 1..(Len(s) + Len(Tail(t))) :
              (s \o Tail(t))[n] = IF n <= Len(s) THEN s[n] ELSE Tail(t)[n - Len(s)]
    BY <1>1, ConcatProperties
  <1>5. LET a == Append(s, Head(t)) IN
        /\ a \o Tail(t) \in Seq(S) /\ Len(a \o Tail(t)) = Len(a) + Len(Tail(t))
        /\ \A n \in 1..(Len(a) + Len(Tail(t))) :
              (a \o Tail(t))[n] = IF n <= Len(a) THEN a[n] ELSE Tail(t)[n - Len(a)]
    BY <1>1, <1>2, ConcatProperties
  <1>6. Append(s, Head(t)) \o Tail(t) = s \o t
    <2>1. Len(Append(s, Head(t)) \o Tail(t)) = Len(s \o t)
      BY <1>1, <1>2, <1>3, <1>5
    <2>2. ASSUME NEW n \in 1..Len(s \o t)
          PROVE  (Append(s, Head(t)) \o Tail(t))[n] = (s \o t)[n]
      <3>1. CASE n <= Len(s)
        BY <1>1, <1>2, <1>3, <1>5, <3>1
      <3>2. CASE n = Len(s) + 1
        BY <1>1, <1>2, <1>3, <1>5, <3>2
      <3>3. CASE n > Len(s) + 1
        <4>1. n - (Len(s) + 1) \in 1..Len(Tail(t)) /\ (n - (Len(s) + 1)) + 1 = n - Len(s)
          BY <1>1, <1>3, <3>3
        <4>2. Tail(t)[n - (Len(s) + 1)] = t[n - Len(s)]
          BY <1>1, <4>1
        <4> QED  BY <1>1, <1>2, <1>3, <1>5, <3>3, <4>2
      <3> QED  BY <3>1, <3>2, <3>3, <1>1, <1>3
    <2> QED  BY <2>1, <2>2, <1>3, <1>5, SeqEqual
  <1>7. IsInjective(s \o Tail(t))
    <2> DEFINE Before(n) == IF n <= Len(s) THEN n ELSE n + 1
    <2>1. ASSUME NEW n \in 1..(Len(s) + Len(Tail(t)))
          PROVE  /\ Before(n) \in 1..(Len(s) + Len(t))
                 /\ (s \o Tail(t))[n] = (s \o t)[Before(n)]
      <3>1. CASE n <= Len(s)
        BY <1>1, <1>3, <1>4, <3>1
      <3>2. CASE n > Len(s)
        <4>1. n - Len(s) \in 1..Len(Tail(t)) /\ (n - Len(s)) + 1 = (n + 1) - Len(s)
          BY <1>1, <3>2
        <4>2. Tail(t)[n - Len(s)] = t[(n + 1) - Len(s)]
          BY <1>1, <4>1
        <4> QED  BY <1>1, <1>3, <1>4, <3>2, <4>2
      <3> QED  BY <3>1, <3>2, <1>1
    <2>2. /\ DOMAIN (s \o Tail(t)) = 1..(Len(s) + Len(Tail(t)))
          /\ DOMAIN (s \o t) = 1..(Len(s) + Len(t))
      BY <1>3, <1>4, LenProperties
    <2>3. ASSUME NEW m \in DOMAIN (s \o Tail(t)), NEW n \in DOMAIN (s \o Tail(t)),
                 (s \o Tail(t))[m] = (s \o Tail(t))[n]
          PROVE  m = n
      <3>1. (s \o t)[Before(m)] = (s \o t)[Before(n)]
        BY <2>1, <2>2, <2>3
      <3>2. Before(m) = Before(n)
        BY <3>1, <2>1, <2>2 DEF IsInjective
      <3> QED  BY <3>2, <2>2, <1>1
    <2> QED  BY <2>3 DEF IsInjective
  <1> QED  BY <1>1, <1>2, <1>6, <1>7

(* The groups of a cycle: those of a label, and those of an hour that no    *)
(* group of a label covers.                                                 *)
LEMMA CandidatesDiffer ==
    ASSUME UpkeepTypeOK, NEW k \in Keeper
    PROVE  Candidates(k) \in Seq(SUBSET (1..MaxMemories)) /\ IsInjective(Candidates(k))
  <1> DEFINE Labels == TagGroups(k)
             Hours == {g \in HourGroups(k) : ~Covered(g, Labels)}
             Groups == SUBSET (1..MaxMemories)
  <1>1. MaxMemories \in Nat
    BY UpkeepAssumption
  <1>3. Found(k) \in Groups
    BY DEF Found, Listed, UpkeepTypeOK
  <1>4. Labels \subseteq Groups /\ Hours \subseteq Groups
    BY <1>3 DEF TagGroups, HourGroups
  <1>5. IsFiniteSet(Groups)
    <2>1. IsFiniteSet(1..MaxMemories)
      BY <1>1, FS_Interval
    <2> QED  BY <2>1, FS_SUBSET
  <1>6. IsFiniteSet(Labels) /\ IsFiniteSet(Hours)
    BY <1>4, <1>5, FS_Subset
  <1> DEFINE s == SetToSeq(Labels)
             t == SetToSeq(Hours)
  <1>7. s \in [1..Cardinality(Labels) -> Labels] /\ IsInjective(s) /\ s \in Seq(Labels)
    BY <1>6, EachOnce
  <1>8. t \in [1..Cardinality(Hours) -> Hours] /\ IsInjective(t) /\ t \in Seq(Hours)
    BY <1>6, EachOnce
  <1>9. s \in Seq(Groups) /\ t \in Seq(Groups)
    BY <1>4, <1>7, <1>8, SeqMonotonic
  <1>10. ASSUME NEW m \in DOMAIN s, NEW n \in DOMAIN t  PROVE  s[m] # t[n]
    <2>1. s[m] \in Labels /\ t[n] \in Hours
      BY <1>7, <1>8
    <2>2. t[n] \notin Labels
      BY <2>1 DEF Covered
    <2> QED  BY <2>1, <2>2
  <1>11. s \o t \in Seq(Groups) /\ IsInjective(s \o t)
    BY <1>7, <1>8, <1>9, <1>10, JoinedOnce
  <1> QED  BY <1>11 DEF Candidates

-----------------------------------------------------------------------------
(* The invariant. *)

LEMMA UpkeepStarts == UpkeepInit => UpkeepInv
  <1> SUFFICES ASSUME UpkeepInit  PROVE  UpkeepInv
    OBVIOUS
  <1>1. MaxMemories \in Nat
    BY UpkeepAssumption
  <1>2. UpkeepTypeOK
    BY <1>1 DEF UpkeepInit, UpkeepTypeOK, Moment
  <1>3. IsInjective(<<>> \o <<>>)
    BY DEF IsInjective
  <1>4. \A k \in Keeper : Remembers(k) /\ Apart(k) /\ Different(k)
    BY <1>1, <1>3 DEF UpkeepInit, Remembers, Apart, Different
  <1> QED  BY <1>2, <1>4 DEF UpkeepInv

(* What others do leaves the keepers alone. *)
LEMMA OthersKeep ==
    ASSUME UpkeepInv, UNCHANGED <<notes, reflectedAt, ranAt, doing, toNote, toSum, made>>,
           now' \in Nat, now <= now',
           memories' \in Seq(LifeOf), Len(memories') <= MaxMemories,
           known' \in [Keeper -> SUBSET (1..MaxMemories)]
    PROVE  UpkeepInv'
  <1>1. UpkeepTypeOK'
    BY DEF UpkeepInv, UpkeepTypeOK
  <1>2. ASSUME NEW k \in Keeper  PROVE  Remembers(k)' /\ Apart(k)' /\ Different(k)'
    <2>1. Remembers(k) /\ Apart(k) /\ Different(k)
      BY DEF UpkeepInv
    <2>2. /\ now \in Nat /\ ranAt[k] \in Moment
          /\ \A m \in 1..MaxMemories : reflectedAt[k][m] \in Moment
      BY DEF UpkeepInv, UpkeepTypeOK
    <2>3. Remembers(k)'
      BY <2>1, <2>2 DEF Remembers, Moment
    <2>4. Apart(k)'
      BY <2>1 DEF Apart
    <2>5. Different(k)'
      BY <2>1 DEF Different
    <2> QED  BY <2>3, <2>4, <2>5
  <1> QED  BY <1>1, <1>2 DEF UpkeepInv

(* A cycle that neither reflects nor notes leaves what it knows of both.    *)
LEMMA GroupingKeeps ==
    ASSUME UpkeepInv, UNCHANGED <<now, notes, reflectedAt, ranAt, toNote>>,
           memories' \in Seq(LifeOf), Len(memories') <= MaxMemories,
           known' \in [Keeper -> SUBSET (1..MaxMemories)], NEW k \in Keeper,
           NEW d \in {"sleep", "notes", "summaries"}, doing' = [doing EXCEPT ![k] = d],
           NEW s \in Seq(SUBSET (1..MaxMemories)), made' = [made EXCEPT ![k] = s],
           NEW t \in Seq(SUBSET (1..MaxMemories)), toSum' = [toSum EXCEPT ![k] = t],
           IsInjective(s \o t), d # "summaries" => s = <<>> /\ t = <<>>
    PROVE  UpkeepInv'
  <1>1. UpkeepTypeOK
    BY DEF UpkeepInv
  <1>2. UpkeepTypeOK'
    BY <1>1 DEF UpkeepTypeOK
  <1>3. ASSUME NEW j \in Keeper  PROVE  Remembers(j)' /\ Apart(j)' /\ Different(j)'
    <2>1. Remembers(j) /\ Apart(j) /\ Different(j)
      BY DEF UpkeepInv
    <2>2. Remembers(j)' /\ Apart(j)'
      BY <2>1 DEF Remembers, Apart
    <2>3. CASE j = k
      <3>1. made'[j] = s /\ toSum'[j] = t /\ doing'[j] = d
        BY <1>1, <2>3 DEF UpkeepTypeOK
      <3> QED  BY <2>2, <3>1 DEF Different
    <2>4. CASE j # k
      <3>1. made'[j] = made[j] /\ toSum'[j] = toSum[j] /\ doing'[j] = doing[j]
        BY <1>1, <2>4 DEF UpkeepTypeOK
      <3> QED  BY <2>1, <2>2, <3>1 DEF Different
    <2> QED  BY <2>3, <2>4
  <1> QED  BY <1>2, <1>3 DEF UpkeepInv

LEMMA MemoryAdded ==
    ASSUME UpkeepTypeOK, NEW t \in Tag \cup {NoTag}, NEW s \in BOOLEAN, NEW w,
           Store(w, Memory(t, s))
    PROVE  /\ memories' \in Seq(LifeOf) /\ Len(memories') <= MaxMemories
           /\ known' \in [Keeper -> SUBSET (1..MaxMemories)]
  <1>1. Memory(t, s) \in LifeOf
    BY DEF UpkeepTypeOK, Memory, LifeOf
  <1>2. memories \in Seq(LifeOf) /\ Len(memories) \in Nat /\ MaxMemories \in Nat
    BY UpkeepAssumption DEF UpkeepTypeOK
  <1>3. Len(memories) + 1 \in 1..MaxMemories
    BY <1>2 DEF Store
  <1>4. known' \in [Keeper -> SUBSET (1..MaxMemories)]
    BY <1>3 DEF Store, UpkeepTypeOK
  <1> QED  BY <1>1, <1>2, <1>4 DEF Store

LEMMA OthersStep ==
    ASSUME UpkeepInv,
           \/ Tick
           \/ \E w \in Keeper \cup {Outside}, t \in Tag \cup {NoTag} :
                 Learn(w, t) \/ \E m \in Visible : Replace(w, m, t)
           \/ \E m \in Visible : Access(m) \/ \E w \in Keeper \cup {Outside} : Forsake(w, m)
           \/ UNCHANGED upkeepVars
    PROVE  UpkeepInv'
  <1>1. /\ UpkeepTypeOK /\ now \in Nat /\ memories \in Seq(LifeOf) /\ Len(memories) <= MaxMemories
        /\ known \in [Keeper -> SUBSET (1..MaxMemories)]
    BY DEF UpkeepInv, UpkeepTypeOK
  <1>2. CASE Tick
    BY <1>1, <1>2, OthersKeep DEF Tick, store
  <1>3. CASE \E w \in Keeper \cup {Outside}, t \in Tag \cup {NoTag} :
                Learn(w, t) \/ \E m \in Visible : Replace(w, m, t)
    <2>1. PICK w \in Keeper \cup {Outside}, t \in Tag \cup {NoTag} :
             Learn(w, t) \/ \E m \in Visible : Replace(w, m, t)
      BY <1>3
    <2>2. Store(w, Memory(t, FALSE)) /\ Touch
      BY <2>1 DEF Learn, Replace
    <2>3. /\ memories' \in Seq(LifeOf) /\ Len(memories') <= MaxMemories
          /\ known' \in [Keeper -> SUBSET (1..MaxMemories)]
      BY <1>1, <2>2, MemoryAdded
    <2> QED  BY <1>1, <2>2, <2>3, OthersKeep DEF Touch
  <1>4. CASE \E m \in Visible : Access(m) \/ \E w \in Keeper \cup {Outside} : Forsake(w, m)
    <2>1. PICK m \in Visible : Access(m) \/ \E w \in Keeper \cup {Outside} : Forsake(w, m)
      BY <1>4
    <2>2. CASE Access(m)
      <3>1. m \in 1..Len(memories)
        BY <1>1 DEF Visible, Remembered
      <3>2. memories' = [memories EXCEPT ![m] = [@ EXCEPT !.seen = now]]
        BY <2>2 DEF Access
      <3>3. [memories[m] EXCEPT !.seen = now] \in LifeOf
        <4>1. memories[m] \in LifeOf
          BY <1>1, <3>1, ElementOfSeq
        <4> QED  BY <1>1, <4>1 DEF LifeOf
      <3>4. memories' \in Seq(LifeOf) /\ Len(memories') = Len(memories)
        BY <1>1, <3>1, <3>2, <3>3
      <3> QED  BY <1>1, <2>2, <3>4, OthersKeep DEF Access, Touch
    <2>3. CASE \E w \in Keeper \cup {Outside} : Forsake(w, m)
      BY <1>1, <2>3, OthersKeep DEF Forsake, Touch
    <2> QED  BY <2>1, <2>2, <2>3
  <1>5. CASE UNCHANGED upkeepVars
    BY <1>1, <1>5, OthersKeep DEF upkeepVars, store
  <1> QED  BY <1>2, <1>3, <1>4, <1>5

LEMMA ReflectKeeps ==
    ASSUME UpkeepInv, NEW k \in Keeper, Reflect(k)
    PROVE  UpkeepInv'
  <1>1. UpkeepTypeOK
    BY DEF UpkeepInv
  <1>2. PICK looked \in SUBSET Listed(k) :
           /\ Reflected(k, {m \in looked \ retired : Faded(m) /\ Rested(k, m)})
           /\ toNote' = [toNote EXCEPT ![k] =
                            {m \in looked \ retired : Faded(m) /\ Rested(k, m)}]
    BY DEF Reflect
  <1>3. PICK due : due = {m \in looked \ retired : Faded(m) /\ Rested(k, m)}
    OBVIOUS
  <1>4. /\ due \subseteq 1..MaxMemories
        /\ \A m \in due : Rested(k, m)
    <2>1. known[k] \subseteq 1..MaxMemories
      BY <1>1 DEF UpkeepTypeOK
    <2> QED  BY <1>3, <2>1 DEF Listed
  <1>5. /\ toNote' = [toNote EXCEPT ![k] = due]
        /\ reflectedAt' = [reflectedAt EXCEPT ![k] =
              [m \in 1..MaxMemories |-> IF m \in due THEN now ELSE reflectedAt[k][m]]]
        /\ ranAt' = [ranAt EXCEPT ![k] = now]
        /\ doing' = [doing EXCEPT ![k] = "notes"] /\ doing[k] = "sleep"
        /\ UNCHANGED <<now, memories, known, notes, toSum, made>>
    <2>1. DOMAIN reflectedAt[k] = 1..MaxMemories
      BY <1>1 DEF UpkeepTypeOK
    <2> QED  BY <1>1, <1>2, <1>3, <2>1 DEF Reflected, Reflect, UpkeepTypeOK, store
  <1>6. /\ toNote'[k] = due /\ ranAt'[k] = now /\ doing'[k] = "notes"
        /\ \A m \in 1..MaxMemories :
              reflectedAt'[k][m] = IF m \in due THEN now ELSE reflectedAt[k][m]
    BY <1>1, <1>5 DEF UpkeepTypeOK
  <1>7. UpkeepTypeOK'
    <2>1. now \in Moment
      BY <1>1 DEF UpkeepTypeOK, Moment
    <2>2. [m \in 1..MaxMemories |-> IF m \in due THEN now ELSE reflectedAt[k][m]]
             \in [1..MaxMemories -> Moment]
      <3>1. PICK old : old = reflectedAt[k] /\ old \in [1..MaxMemories -> Moment]
        BY <1>1 DEF UpkeepTypeOK
      <3> QED  BY <2>1, <3>1
    <2>3. reflectedAt' \in [Keeper -> [1..MaxMemories -> Moment]]
      BY <1>1, <1>5, <2>2 DEF UpkeepTypeOK
    <2> QED  BY <1>1, <1>4, <1>5, <2>1, <2>3 DEF UpkeepTypeOK
  <1>8. ASSUME NEW j \in Keeper  PROVE  Remembers(j)' /\ Apart(j)' /\ Different(j)'
    <2>1. Remembers(j) /\ Apart(j) /\ Different(j)
      BY DEF UpkeepInv
    <2>2. CASE j # k
      <3>1. /\ toNote'[j] = toNote[j] /\ ranAt'[j] = ranAt[j] /\ doing'[j] = doing[j]
            /\ reflectedAt'[j] = reflectedAt[j]
        BY <1>1, <1>5, <2>2 DEF UpkeepTypeOK
      <3> QED  BY <1>5, <2>1, <3>1 DEF Remembers, Apart, Different
    <2>3. CASE j = k
      <3>1. /\ now \in Nat /\ now # -1
            /\ \A m \in 1..MaxMemories : reflectedAt[k][m] \in Moment
            /\ \A n \in notes : n[2] \in 1..MaxMemories /\ n[3] \in Nat
        <4>1. reflectedAt[k] \in [1..MaxMemories -> Moment]
          BY <1>1 DEF UpkeepTypeOK
        <4>2. \A m \in 1..MaxMemories : reflectedAt[k][m] \in Moment
          BY <4>1
        <4> QED  BY <1>1, <4>2 DEF UpkeepTypeOK
      <3>2. ASSUME NEW n \in notes, n[1] = k
            PROVE  n[3] <= reflectedAt'[k][n[2]]
        <4>1. n[3] <= reflectedAt[k][n[2]] /\ reflectedAt[k][n[2]] <= now
          BY <2>1, <2>3, <3>1, <3>2 DEF Remembers
        <4> QED  BY <1>6, <3>1, <4>1 DEF Moment
      <3>3. Remembers(k)'
        <4>1. \A m \in 1..MaxMemories : reflectedAt'[k][m] <= now
          BY <1>6, <2>1, <2>3, <3>1 DEF Remembers
        <4>2. \A m \in due : reflectedAt'[k][m] = now
          BY <1>4, <1>6
        <4> QED  BY <1>5, <1>6, <3>1, <3>2, <4>1, <4>2 DEF Remembers
      <3>4. ASSUME NEW n \in notes, n[1] = k, n[2] \in due
            PROVE  now - n[3] >= Cooldown
        <4>1. n[3] <= reflectedAt[k][n[2]] /\ n[3] \in Nat /\ n[2] \in 1..MaxMemories
          BY <2>1, <2>3, <3>1, <3>4 DEF Remembers
        <4>2. reflectedAt[k][n[2]] # -1 /\ reflectedAt[k][n[2]] \in Nat
          BY <3>1, <4>1 DEF Moment
        <4>3. now - reflectedAt[k][n[2]] >= Cooldown
          BY <1>4, <3>4, <4>2 DEF Rested
        <4> QED  BY <3>1, <4>1, <4>2, <4>3, UpkeepAssumption
      <3>5. Apart(k)'
        BY <1>5, <1>6, <2>1, <2>3, <3>4 DEF Apart
      <3>6. Different(k)'
        BY <1>5, <1>6, <2>1, <2>3 DEF Different
      <3> QED  BY <2>3, <3>3, <3>5, <3>6
    <2> QED  BY <2>2, <2>3
  <1> QED  BY <1>7, <1>8 DEF UpkeepInv

LEMMA NoteKeeps ==
    ASSUME UpkeepInv, NEW k \in Keeper, NEW m \in Remembered, Note(k, m)
    PROVE  UpkeepInv'
  <1>1. UpkeepTypeOK
    BY DEF UpkeepInv
  <1>2. /\ m \in toNote[k] /\ m \in 1..MaxMemories
        /\ toNote' = [toNote EXCEPT ![k] = @ \ {m}]
        /\ notes' = notes \cup {<<k, m, ranAt[k]>>} \/ notes' = notes
        /\ UNCHANGED <<now, memories, known, reflectedAt, ranAt, doing, toSum, made>>
    BY <1>1 DEF Note, UpkeepTypeOK, store
  <1>3. PICK t : t = ranAt[k]
    OBVIOUS
  <1>4. Remembers(k) /\ Apart(k) /\ t \in Nat /\ reflectedAt[k][m] = t
    <2>1. Remembers(k) /\ Apart(k)
      BY DEF UpkeepInv
    <2>2. ranAt[k] \in Moment
      BY <1>1 DEF UpkeepTypeOK
    <2> QED  BY <1>2, <1>3, <2>1, <2>2 DEF Remembers, Moment
  <1>5. \A n \in notes' : n \in notes \/ n = <<k, m, t>>
    BY <1>2, <1>3
  <1>6. UpkeepTypeOK'
    <2>1. <<k, m, t>> \in Keeper \X (1..MaxMemories) \X Nat
      BY <1>2, <1>4
    <2>2. notes' \subseteq Keeper \X (1..MaxMemories) \X Nat
      BY <1>1, <1>5, <2>1 DEF UpkeepTypeOK
    <2> QED  BY <1>1, <1>2, <2>2 DEF UpkeepTypeOK
  <1>7. ASSUME NEW j \in Keeper  PROVE  Remembers(j)' /\ Apart(j)' /\ Different(j)'
    <2>1. Remembers(j) /\ Apart(j) /\ Different(j)
      BY DEF UpkeepInv
    <2>2. toNote'[j] \subseteq toNote[j]
      BY <1>1, <1>2 DEF UpkeepTypeOK
    <2>3. Different(j)'
      BY <1>2, <2>1 DEF Different
    <2>4. CASE j # k
      <3>1. \A n \in notes' : n[1] = j => n \in notes
        BY <1>5, <2>4
      <3>2. Remembers(j)'
        BY <1>2, <2>1, <2>2, <3>1 DEF Remembers
      <3>3. Apart(j)'
        BY <1>2, <2>1, <2>2, <3>1 DEF Apart
      <3> QED  BY <2>3, <3>2, <3>3
    <2>5. CASE j = k
      <3>1. ASSUME NEW n \in notes', n[1] = k
            PROVE  n[3] <= reflectedAt[k][n[2]]
        <4>1. CASE n \in notes
          BY <1>4, <3>1, <4>1 DEF Remembers
        <4>2. CASE n = <<k, m, t>>
          BY <1>4, <4>2
        <4> QED  BY <1>5, <4>1, <4>2
      <3>2. Remembers(k)'
        BY <1>2, <2>1, <2>2, <2>5, <3>1 DEF Remembers
      <3>3. ASSUME NEW n \in notes, n[1] = k, n[2] = m
            PROVE  t - n[3] >= Cooldown
        BY <1>2, <1>3, <1>4, <3>3 DEF Apart
      <3>4. /\ \A n \in notes : n[3] \in Nat
            /\ Cooldown \in Nat
        BY <1>1, UpkeepAssumption DEF UpkeepTypeOK
      <3>5. ASSUME NEW n \in notes', NEW o \in notes', n[1] = k, o[1] = k, n[2] = o[2],
                   n[3] < o[3]
            PROVE  o[3] - n[3] >= Cooldown
        <4>1. CASE n \in notes /\ o \in notes
          BY <1>4, <3>5, <4>1 DEF Apart
        <4>2. CASE n \in notes /\ o = <<k, m, t>>
          BY <3>3, <3>5, <4>2
        <4>3. CASE n = <<k, m, t>> /\ o \in notes
          <5>1. t - o[3] >= Cooldown
            BY <3>3, <3>5, <4>3
          <5> QED  BY <1>4, <3>4, <3>5, <4>3, <5>1
        <4>4. CASE n = <<k, m, t>> /\ o = <<k, m, t>>
          BY <1>4, <3>5, <4>4
        <4> QED  BY <1>5, <4>1, <4>2, <4>3, <4>4
      <3>6. ASSUME NEW n \in notes', n[1] = k, n[2] \in toNote'[k]
            PROVE  ranAt[k] - n[3] >= Cooldown
        <4>1. n[2] # m
          BY <1>1, <1>2, <3>6 DEF UpkeepTypeOK
        <4>2. n \in notes
          BY <1>5, <4>1
        <4> QED  BY <1>4, <2>2, <2>5, <3>6, <4>2 DEF Apart
      <3>7. Apart(k)'
        BY <1>2, <3>5, <3>6 DEF Apart
      <3> QED  BY <2>3, <2>5, <3>2, <3>7
    <2> QED  BY <2>4, <2>5
  <1> QED  BY <1>6, <1>7 DEF UpkeepInv

LEMMA RestartKeeps ==
    ASSUME UpkeepInv, NEW k \in Keeper, Restart(k)
    PROVE  UpkeepInv'
  <1>1. UpkeepTypeOK /\ MaxMemories \in Nat
    BY UpkeepAssumption DEF UpkeepInv
  <1>2. /\ reflectedAt' = [reflectedAt EXCEPT ![k] = [m \in 1..MaxMemories |-> -1]]
        /\ ranAt' = [ranAt EXCEPT ![k] = -1] /\ doing' = [doing EXCEPT ![k] = "sleep"]
        /\ toNote' = [toNote EXCEPT ![k] = {}] /\ toSum' = [toSum EXCEPT ![k] = <<>>]
        /\ made' = [made EXCEPT ![k] = <<>>]
        /\ notes' = {n \in notes : n[1] # k} /\ UNCHANGED <<now, memories>>
    BY DEF Restart
  <1>5. known' \in [Keeper -> SUBSET (1..MaxMemories)]
    <2>1. PICK ids \in SUBSET Remembered : known' = [known EXCEPT ![k] = ids]
      BY DEF Restart
    <2>2. Remembered = 1..Len(memories) /\ Len(memories) \in Nat /\ Len(memories) <= MaxMemories
      BY <1>1, LenProperties DEF UpkeepTypeOK, Remembered
    <2>3. ids \subseteq 1..MaxMemories
      BY <1>1, <2>2
    <2> QED  BY <1>1, <2>1, <2>3 DEF UpkeepTypeOK
  <1>3. UpkeepTypeOK'
    <2>1. -1 \in Moment
      BY DEF Moment
    <2>2. [m \in 1..MaxMemories |-> -1] \in [1..MaxMemories -> Moment]
      BY <2>1
    <2>3. <<>> \in Seq(SUBSET (1..MaxMemories))
      BY EmptySeq
    <2>4. reflectedAt' \in [Keeper -> [1..MaxMemories -> Moment]]
      BY <1>1, <1>2, <2>2 DEF UpkeepTypeOK
    <2> QED  BY <1>1, <1>2, <1>5, <2>1, <2>3, <2>4 DEF UpkeepTypeOK
  <1>4. ASSUME NEW j \in Keeper  PROVE  Remembers(j)' /\ Apart(j)' /\ Different(j)'
    <2>1. Remembers(j) /\ Apart(j) /\ Different(j) /\ now \in Nat
      BY <1>1 DEF UpkeepInv, UpkeepTypeOK
    <2>2. CASE j # k
      <3>1. /\ toNote'[j] = toNote[j] /\ ranAt'[j] = ranAt[j] /\ doing'[j] = doing[j]
            /\ reflectedAt'[j] = reflectedAt[j] /\ made'[j] = made[j] /\ toSum'[j] = toSum[j]
        BY <1>1, <1>2, <2>2 DEF UpkeepTypeOK
      <3>2. notes' \subseteq notes
        BY <1>2
      <3> QED  BY <1>2, <2>1, <3>1, <3>2 DEF Remembers, Apart, Different
    <2>3. CASE j = k
      <3>1. /\ toNote'[k] = {} /\ ranAt'[k] = -1
            /\ \A m \in 1..MaxMemories : reflectedAt'[k][m] = -1
            /\ made'[k] = <<>> /\ toSum'[k] = <<>>
        BY <1>1, <1>2 DEF UpkeepTypeOK
      <3>2. \A n \in notes' : n[1] # k
        BY <1>2
      <3>3. IsInjective(<<>> \o <<>>)
        BY DEF IsInjective
      <3>4. Remembers(k)' /\ Apart(k)'
        BY <1>2, <2>1, <3>1, <3>2 DEF Remembers, Apart
      <3>5. Different(k)'
        BY <3>1, <3>3 DEF Different
      <3> QED  BY <2>3, <3>4, <3>5
    <2> QED  BY <2>2, <2>3
  <1> QED  BY <1>3, <1>4 DEF UpkeepInv

(* A keeper's groups: found, done or given up one by one, forgotten. *)
LEMMA SummariesKeep ==
    ASSUME UpkeepInv, NEW k \in Keeper, Group(k) \/ Summarise(k) \/ Sleep(k)
    PROVE  UpkeepInv'
  <1> DEFINE Groups == SUBSET (1..MaxMemories)
  <1>1. /\ UpkeepTypeOK /\ memories \in Seq(LifeOf) /\ Len(memories) <= MaxMemories
        /\ known \in [Keeper -> SUBSET (1..MaxMemories)] /\ made[k] \in Seq(Groups) /\ toSum[k] \in Seq(Groups) /\ <<>> \in Seq(Groups)
        /\ made = [made EXCEPT ![k] = made[k]] /\ doing = [doing EXCEPT ![k] = doing[k]]
        /\ toSum = [toSum EXCEPT ![k] = toSum[k]]
    BY EmptySeq DEF UpkeepInv, UpkeepTypeOK
  <1>2. /\ IsInjective(made[k] \o toSum[k])
        /\ doing[k] # "summaries" => made[k] = <<>> /\ toSum[k] = <<>>
    BY DEF UpkeepInv, Different
  <1>3. CASE Group(k)
    <2>1. PICK c : c = Candidates(k)
      OBVIOUS
    <2>2. c \in Seq(Groups) /\ IsInjective(c)
      BY <1>1, <2>1, CandidatesDiffer
    <2>3. IsInjective(<<>> \o c)
      BY <2>2, ConcatEmptySeq
    <2>4. made[k] = <<>>
      BY <1>2, <1>3 DEF Group
    <2>5. /\ UNCHANGED <<now, notes, reflectedAt, ranAt, toNote, memories, known, made>>
          /\ doing' = [doing EXCEPT ![k] = "summaries"] /\ toSum' = [toSum EXCEPT ![k] = c]
          /\ made' = [made EXCEPT ![k] = <<>>]
      <3>1. toNote' = toNote
        BY <1>3 DEF Group
      <3> QED  BY <1>1, <1>3, <2>1, <2>4, <3>1 DEF Group, store
    <2> QED  BY <1>1, <2>2, <2>3, <2>5, GroupingKeeps
  <1>4. CASE Summarise(k)
    <2>1. PICK t, s : t = toSum[k] /\ s = made[k]
      OBVIOUS
    <2>2. /\ t \in Seq(Groups) /\ s \in Seq(Groups) /\ t # <<>> /\ IsInjective(s \o t)
      BY <1>1, <1>2, <1>4, <2>1 DEF Summarise
    <2>3. /\ Append(s, Head(t)) \in Seq(Groups) /\ Tail(t) \in Seq(Groups)
          /\ IsInjective(Append(s, Head(t)) \o Tail(t))
          /\ IsInjective(s \o Tail(t))
      BY <2>2, OneGroupDone
    <2>4. /\ UNCHANGED <<now, notes, reflectedAt, ranAt, toNote>>
          /\ doing' = [doing EXCEPT ![k] = "summaries"]
          /\ toSum' = [toSum EXCEPT ![k] = Tail(t)]
      BY <1>1, <1>4, <2>1 DEF Summarise
    <2>5. CASE /\ \E l \in Tag : Store(k, Memory(l, TRUE))
               /\ made' = [made EXCEPT ![k] = Append(@, Head(toSum[k]))]
      <3>1. /\ memories' \in Seq(LifeOf) /\ Len(memories') <= MaxMemories
            /\ known' \in [Keeper -> SUBSET (1..MaxMemories)]
        BY <1>1, <2>5, MemoryAdded
      <3>2. made' = [made EXCEPT ![k] = Append(s, Head(t))]
        BY <2>1, <2>5
      <3> QED  BY <2>3, <2>4, <3>1, <3>2, GroupingKeeps
    <2>6. CASE UNCHANGED <<memories, known, made>>
      <3>1. made' = [made EXCEPT ![k] = s]
        BY <1>1, <2>1, <2>6
      <3>2. /\ memories' \in Seq(LifeOf) /\ Len(memories') <= MaxMemories
            /\ known' \in [Keeper -> SUBSET (1..MaxMemories)]
        BY <1>1, <2>6
      <3> QED  BY <2>2, <2>3, <2>4, <3>1, <3>2, GroupingKeeps
    <2> QED  BY <1>4, <2>5, <2>6 DEF Summarise
  <1>5. CASE Sleep(k)
    <2>1. /\ UNCHANGED <<now, notes, reflectedAt, ranAt, toNote, memories, known>>
          /\ doing' = [doing EXCEPT ![k] = "sleep"] /\ made' = [made EXCEPT ![k] = <<>>]
          /\ toSum' = [toSum EXCEPT ![k] = <<>>]
      BY <1>1, <1>5 DEF Sleep, store
    <2>2. IsInjective(<<>> \o <<>>)
      BY DEF IsInjective
    <2>3. /\ memories' \in Seq(LifeOf) /\ Len(memories') <= MaxMemories
          /\ known' \in [Keeper -> SUBSET (1..MaxMemories)]
      BY <1>1, <2>1
    <2> QED  BY <1>1, <2>1, <2>2, <2>3, GroupingKeeps
  <1> QED  BY <1>3, <1>4, <1>5

(* Upkeep does not repeat itself, for any cooldown, threshold and number of *)
(* servers: a server's notes on a memory are apart by the cooldown until it *)
(* starts again, and no cycle summarises the same memories twice (reflect,  *)
(* consolidate).                                                            *)
THEOREM UpkeepIsSparing == UpkeepSpec => []UpkeepNeverRepeats
  <1>1. UpkeepInv /\ [UpkeepNext]_upkeepVars => UpkeepInv'
    <2> SUFFICES ASSUME UpkeepInv, [UpkeepNext]_upkeepVars  PROVE  UpkeepInv'
      OBVIOUS
    <2>1. CASE \E k \in Keeper : Cycle(k) \/ Restart(k)
      <3>1. PICK k \in Keeper : Cycle(k) \/ Restart(k)
        BY <2>1
      <3>2. CASE Reflect(k)
        BY <3>2, ReflectKeeps
      <3>3. CASE \E m \in Remembered : Note(k, m)
        BY <3>3, NoteKeeps
      <3>4. CASE Group(k) \/ Summarise(k) \/ Sleep(k)
        BY <3>4, SummariesKeep
      <3>5. CASE Restart(k)
        BY <3>5, RestartKeeps
      <3> QED  BY <3>1, <3>2, <3>3, <3>4, <3>5 DEF Cycle
    <2>2. CASE \/ Tick
               \/ \E w \in Keeper \cup {Outside}, t \in Tag \cup {NoTag} :
                     Learn(w, t) \/ \E m \in Visible : Replace(w, m, t)
               \/ \E m \in Visible : Access(m) \/ \E w \in Keeper \cup {Outside} : Forsake(w, m)
               \/ UNCHANGED upkeepVars
      BY <2>2, OthersStep
    <2> QED  BY <2>1, <2>2 DEF UpkeepNext
  <1>2. UpkeepInv => UpkeepNeverRepeats
    <2> SUFFICES ASSUME UpkeepInv  PROVE  UpkeepNeverRepeats
      OBVIOUS
    <2>1. ASSUME NEW n \in notes, NEW o \in notes, n[1] = o[1], n[2] = o[2], n[3] < o[3]
          PROVE  o[3] - n[3] >= Cooldown
      <3>1. n[1] \in Keeper
        BY DEF UpkeepInv, UpkeepTypeOK
      <3> QED  BY <2>1, <3>1 DEF UpkeepInv, Apart
    <2>2. \A k \in Keeper : IsInjective(made[k] \o toSum[k])
      BY DEF UpkeepInv, Different
    <2> QED  BY <2>1, <2>2 DEF UpkeepNeverRepeats
  <1> QED  BY <1>1, <1>2, UpkeepStarts, PTL DEF UpkeepSpec

=============================================================================
