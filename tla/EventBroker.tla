---------------------------- MODULE EventBroker ----------------------------
(***************************************************************************)
(* The events of one board (embers/lobby/realtime.py).  The lobby emits    *)
(* under its lock, so one publish is in flight at a time; numbers and the  *)
(* subscriptions are read under the broker's lock, the events scheduled    *)
(* after it; the loop of a subscription runs what is scheduled in order.   *)
(* Nothing in src reads a subscription: its consumer is external.          *)
(***************************************************************************)
EXTENDS Naturals, Sequences

CONSTANTS
    Subscription,
    QueueSize,       \* queue_size
    MaxEvents        \* bound: events of one board

ASSUME BrokerAssumption == QueueSize \in Nat \ {0} /\ MaxEvents \in Nat

Event == [number : 1..MaxEvents, resync : BOOLEAN]

VARIABLES
    sequence,       \* _sequences[board]
    subscribers,    \* _subscribers[board]
    closed,         \* subscriptions that were closed ...
    dead,           \* ... and those whose loop was
    inFlight,       \* the event being published
    addressees,     \* the subscriptions it is for
    scheduled,        \* scheduled[u]: numbers of the events scheduled on the loop of u
    queue,          \* queue[u]: the events in the queue of u
    got,            \* got[u]: the events the consumer of u has taken
    lost            \* history: lost[u]: the newest event that was dropped from the queue

brokerVars == <<sequence, subscribers, closed, dead, inFlight, addressees, scheduled, queue, got, lost>>

BrokerInit ==
    /\ sequence = 0 /\ subscribers = {} /\ closed = {} /\ dead = {}
    /\ inFlight = 0 /\ addressees = {}
    /\ scheduled = [u \in Subscription |-> <<>>]
    /\ queue = [u \in Subscription |-> <<>>]
    /\ got = [u \in Subscription |-> <<>>]
    /\ lost = [u \in Subscription |-> 0]

Subscribe(u) ==
    /\ u \notin subscribers \cup closed \cup dead
    /\ subscribers' = subscribers \cup {u}
    /\ UNCHANGED <<sequence, closed, dead, inFlight, addressees, scheduled, queue, got, lost>>

(* close, or unsubscribe. *)
Unsubscribe(u) ==
    /\ u \in subscribers
    /\ subscribers' = subscribers \ {u}
    /\ closed' = closed \cup {u}
    /\ UNCHANGED <<sequence, dead, inFlight, addressees, scheduled, queue, got, lost>>

CloseLoop(u) ==
    /\ dead' = dead \cup {u}
    /\ UNCHANGED <<sequence, subscribers, closed, inFlight, addressees, scheduled, queue, got,
                   lost>>

(* publish: the number, and the subscriptions it is for ... *)
Number ==
    /\ inFlight = 0
    /\ sequence < MaxEvents
    /\ sequence' = sequence + 1
    /\ inFlight' = sequence + 1
    /\ addressees' = subscribers
    /\ UNCHANGED <<subscribers, closed, dead, scheduled, queue, got, lost>>

(* ... and, without the lock, the calls it schedules on their loops; a loop *)
(* that is closed removes its subscription.                                 *)
Schedule ==
    /\ inFlight # 0
    /\ scheduled' = [u \in Subscription |->
                      IF u \in addressees \ dead THEN Append(scheduled[u], inFlight)
                                                   ELSE scheduled[u]]
    /\ subscribers' = subscribers \ (addressees \cap dead)
    /\ closed' = closed \cup (addressees \cap dead)
    /\ inFlight' = 0 /\ addressees' = {}
    /\ UNCHANGED <<sequence, dead, queue, got, lost>>

Put(u, e, flag) == queue' = [queue EXCEPT ![u] = Append(@, [number |-> e, resync |-> flag])]

(* Mutant: a full queue takes nothing. *)
EnqueueIfRoom(u) ==
    /\ scheduled[u] # <<>> /\ u \notin dead
    /\ scheduled' = [scheduled EXCEPT ![u] = Tail(@)]
    /\ IF Len(queue[u]) = QueueSize
       THEN lost' = [lost EXCEPT ![u] = Head(scheduled[u])] /\ UNCHANGED queue
       ELSE Put(u, Head(scheduled[u]), FALSE) /\ UNCHANGED lost
    /\ UNCHANGED <<sequence, subscribers, closed, dead, inFlight, addressees, got>>

(* Mutant: the event that makes room carries no mark. *)
EnqueueUnmarked(u) ==
    /\ scheduled[u] # <<>> /\ u \notin dead
    /\ scheduled' = [scheduled EXCEPT ![u] = Tail(@)]
    /\ IF Len(queue[u]) = QueueSize
       THEN /\ queue' = [queue EXCEPT ![u] =
                            Append(Tail(@), [number |-> Head(scheduled[u]), resync |-> FALSE])]
            /\ lost' = [lost EXCEPT ![u] = Head(queue[u]).number]
       ELSE Put(u, Head(scheduled[u]), FALSE) /\ UNCHANGED lost
    /\ UNCHANGED <<sequence, subscribers, closed, dead, inFlight, addressees, got>>

(* _enqueue: a full queue gives up its oldest event, and says so. *)
Enqueue(u) ==
    /\ scheduled[u] # <<>> /\ u \notin dead
    /\ scheduled' = [scheduled EXCEPT ![u] = Tail(@)]
    /\ IF Len(queue[u]) = QueueSize
       THEN /\ queue' = [queue EXCEPT ![u] =
                            Append(Tail(@), [number |-> Head(scheduled[u]), resync |-> TRUE])]
            /\ lost' = [lost EXCEPT ![u] = Head(queue[u]).number]
       ELSE Put(u, Head(scheduled[u]), FALSE) /\ UNCHANGED lost
    /\ UNCHANGED <<sequence, subscribers, closed, dead, inFlight, addressees, got>>

(* get. *)
Get(u) ==
    /\ queue[u] # <<>> /\ u \notin dead
    /\ got' = [got EXCEPT ![u] = Append(@, Head(queue[u]))]
    /\ queue' = [queue EXCEPT ![u] = Tail(@)]
    /\ UNCHANGED <<sequence, subscribers, closed, dead, inFlight, addressees, scheduled, lost>>

BrokerNext ==
    \/ Number \/ Schedule
    \/ \E u \in Subscription :
          Subscribe(u) \/ Unsubscribe(u) \/ CloseLoop(u) \/ Enqueue(u) \/ Get(u)

BrokerSpec == BrokerInit /\ [][BrokerNext]_brokerVars

(* A publish that has a number runs to its end, an open loop runs what is   *)
(* scheduled on it, and a consumer awaits its queue in a loop.              *)
BrokerFairness ==
    /\ WF_brokerVars(Schedule)
    /\ \A u \in Subscription : WF_brokerVars(Enqueue(u)) /\ WF_brokerVars(Get(u))

-----------------------------------------------------------------------------

(* What subscription u gets, is about to get and may still lose, in order. *)
Stream(u) == got[u] \o queue[u]

BrokerTypeOK ==
    /\ sequence \in 0..MaxEvents /\ inFlight \in 0..MaxEvents
    /\ {subscribers, closed, dead, addressees} \subseteq SUBSET Subscription
    /\ scheduled \in [Subscription -> Seq(1..MaxEvents)]
    /\ queue \in [Subscription -> Seq(Event)] /\ got \in [Subscription -> Seq(Event)]
    /\ lost \in [Subscription -> 0..MaxEvents]
    /\ \A u \in Subscription : Len(queue[u]) <= QueueSize

(* A consumer gets events in the order of their numbers, never one twice,   *)
(* and is told of every one it misses: an event that was dropped is         *)
(* followed by one that asks for a resync and that it has got or has still  *)
(* to get, though that one may be dropped as well and another take its      *)
(* place (publish, _enqueue).                                               *)
LossIsFlagged ==
    \A u \in Subscription :
        LET s == Stream(u) IN
        /\ \A m, n \in DOMAIN s : m < n => s[m].number < s[n].number
        /\ lost[u] # 0 => \E n \in DOMAIN s : s[n].number > lost[u] /\ s[n].resync

(* A subscriber catches up: an event that is published while it subscribes, *)
(* or a later one, reaches its consumer, unless it unsubscribes or its loop *)
(* closes; a full queue drops the oldest events, not the newest.            *)
NewestArrives ==
    \A u \in Subscription, n \in 1..MaxEvents :
        (inFlight = n /\ u \in addressees) ~>
            (u \in closed \cup dead \/ \E m \in DOMAIN got[u] : got[u][m].number >= n)

=============================================================================
