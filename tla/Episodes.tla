------------------------------ MODULE Episodes ------------------------------
(***************************************************************************)
(* The episodes of a stream of records (embers/cognitive/episodic.py).     *)
(* Records are numbered in the order of their times.  segment() is run on  *)
(* any of them, again and again; a record of it is a step.  Tags and       *)
(* surprise are weak signals: that they add up to a boundary may happen.   *)
(***************************************************************************)
EXTENDS Naturals, FiniteSetsExt, SequencesExt

CONSTANTS
    Records,        \* bound: records of the stream
    MaxEpisode,     \* max_episode_size
    MaxRuns         \* bound: calls of segment()

ASSUME EpisodesAssumption ==
    {Records, MaxRuns} \subseteq Nat /\ MaxEpisode \in Nat \ {0, 1}

VARIABLES
    late,           \* the records that come after a gap
    space,          \* their namespaces
    batch,          \* segment: the records, sorted
    at,             \* ... the next one
    current,        \* ... the episode that grows
    closed,         \* ... the episodes that are closed
    episodes,       \* _episodes, as they were stored
    episodeOf,      \* _record_to_episode, 0 for none
    last,           \* history: the last batch of each record, 0 for none
    runs

episodeVars == <<late, space, batch, at, current, closed, episodes, episodeOf, last, runs>>

EpisodesInit ==
    /\ late \in SUBSET (2..Records)
    /\ space \in [1..Records -> {1, 2}]
    /\ batch = <<>> /\ at = 0 /\ current = <<>> /\ closed = <<>>
    /\ episodes = <<>> /\ runs = 0
    /\ episodeOf = [r \in 1..Records |-> 0] /\ last = [r \in 1..Records |-> 0]

GapBetween(p, r) == \E l \in late : p < l /\ l <= r

(* Mutant: a change of namespace is no signal. *)
StrongByTime(p, r) == GapBetween(p, r)

(* _is_boundary: one signal over 0.9 decides. *)
Strong(p, r) == GapBetween(p, r) \/ space[p] # space[r]

Segment(rs) ==
    /\ batch = <<>> /\ runs < MaxRuns
    /\ \E sorted \in [1..Cardinality(rs) -> rs] :
          /\ \A n \in 1..Len(sorted) - 1 : sorted[n] < sorted[n + 1]
          /\ batch' = sorted /\ current' = <<sorted[1]>>
    /\ at' = 2 /\ closed' = <<>>
    /\ runs' = runs + 1
    /\ UNCHANGED <<late, space, episodes, episodeOf, last>>

(* The next record begins an episode or joins the current one, which is     *)
(* closed when it is full.                                                  *)
Take(weak) ==
    LET r        == batch[at]
        boundary == weak \/ Strong(batch[at - 1], r)
        before   == IF boundary THEN Append(closed, current) ELSE closed
        grown    == Append(IF boundary THEN <<>> ELSE current, r)
        full     == Len(grown) >= MaxEpisode
    IN  /\ batch # <<>> /\ at <= Len(batch)
        /\ at' = at + 1
        /\ closed' = IF full THEN Append(before, grown) ELSE before
        /\ current' = IF full THEN <<>> ELSE grown
        /\ UNCHANGED <<late, space, batch, episodes, episodeOf, last, runs>>

(* The last episode is closed and all are stored. *)
EndSegment ==
    LET found == IF current = <<>> THEN closed ELSE Append(closed, current)
        all   == episodes \o found
    IN  /\ batch # <<>> /\ at > Len(batch)
        /\ episodes' = all
        /\ episodeOf' = [r \in 1..Records |->
              IF \E e \in DOMAIN found : r \in ToSet(found[e])
              THEN CHOOSE e \in DOMAIN all : e > Len(episodes) /\ r \in ToSet(all[e])
              ELSE episodeOf[r]]
        /\ last' = [r \in 1..Records |-> IF r \in ToSet(batch) THEN runs ELSE last[r]]
        /\ batch' = <<>> /\ at' = 0 /\ current' = <<>> /\ closed' = <<>>
        /\ UNCHANGED <<late, space, runs>>

EpisodesNext ==
    \/ \E rs \in (SUBSET (1..Records)) \ {{}} : Segment(rs)
    \/ \E weak \in BOOLEAN : Take(weak)
    \/ EndSegment

EpisodesSpec == EpisodesInit /\ [][EpisodesNext]_episodeVars

-----------------------------------------------------------------------------

(* Not too long, and no boundary in it. *)
Whole(e) ==
    /\ Len(e) <= MaxEpisode
    /\ \A n \in 1..Len(e) - 1 : ~Strong(e[n], e[n + 1])
    /\ \A n, k \in DOMAIN e : space[e[n]] = space[e[k]]

(* While a stream is segmented, the episodes are a partition of the records *)
(* met so far into runs of them, in order; none spans a gap in time or two  *)
(* namespaces, none is longer than allowed, and no boundary is missed or a  *)
(* record lost when a full episode was closed just before.  (An episode may *)
(* be empty then.)  Afterwards the records that were segmented, and no      *)
(* other, have an episode; it holds them, and two records of one episode    *)
(* were last segmented together.                                            *)
EpisodesPartition ==
    /\ \A e \in ToSet(closed) \cup ToSet(episodes) \cup {current} : Whole(e)
    /\ FlattenSeq(Append(closed, current)) = SubSeq(batch, 1, at - 1)
    /\ \A r \in 1..Records :
          /\ episodeOf[r] = 0 <=> last[r] = 0
          /\ episodeOf[r] # 0 => r \in ToSet(episodes[episodeOf[r]])
          /\ \A q \in 1..Records : episodeOf[r] = episodeOf[q] => last[r] = last[q]

=============================================================================
