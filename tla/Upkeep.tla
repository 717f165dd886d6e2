------------------------------- MODULE Upkeep -------------------------------
(***************************************************************************)
(* The upkeep of one namespace: every server runs, again and again, a      *)
(* cycle that annotates fading memories and writes summaries of related    *)
(* ones (embers/maintenance.py, cognitive/, integration/memory_protocol.py *)
(* reflect and consolidate), while memories are written, recalled and      *)
(* retired, by this server or another process.  A server finds memories    *)
(* through its own master index, which knows of what this handle wrote or  *)
(* found at connect, and is marked only with what this handle retired.     *)
(* Time passes in steps of the cycle's interval.                           *)
(***************************************************************************)
EXTENDS Integers, SequencesExt

CONSTANTS
    Keeper,         \* servers that run maintenance_loop
    Outside,        \* any other process
    Tag,            \* the labels memories are grouped by
    NoTag,
    Fade,           \* a memory fades when nobody has recalled it for so long
    Cooldown,       \* reflection_cooldown_hours
    Limit,          \* memories one reflection looks at
    Threshold,      \* consolidation_threshold
    MaxTime, MaxMemories, MaxTouched, MaxFailures   \* bounds

ASSUME UpkeepAssumption ==
    /\ {Cooldown, Limit, Threshold, MaxTime, MaxMemories, MaxTouched, MaxFailures} \subseteq Nat
    /\ Fade \in Nat \ {0}
    /\ NoTag \notin Tag
    /\ Outside \notin Keeper

VARIABLES
    now,
    memories,       \* what was remembered or summarised, in order
    retired,        \* memories that are deprecated or superseded, by their sidecars
    known,          \* known[k]: the memories in the master index of keeper k ...
    marked,         \* ... and those marked there as deprecated or superseded
    notes,          \* <<keeper, memory, when its cycle began>>, since the keeper started
    reflectedAt,    \* reflectedAt[k][m]: _last_reflection, -1 for never
    ranAt,          \* when keeper k began its last cycle, -1 for not since it started
    doing,          \* "sleep", "notes", "summaries"
    toNote, toSum,  \* memories to annotate, groups to summarise
    made,           \* history: the groups summarised in this cycle
    touched, failures

store      == <<memories, retired, known, marked>>
upkeepVars == <<now, store, notes, reflectedAt, ranAt, doing, toNote, toSum, made, touched,
                failures>>

Remembered == DOMAIN memories
Visible    == Remembered \ retired

Memory(t, s) == [born |-> now, seen |-> now, tag |-> t, slow |-> s]

UpkeepInit ==
    /\ now = 0
    /\ memories = <<>> /\ retired = {} /\ notes = {}
    /\ known = [k \in Keeper |-> {}] /\ marked = [k \in Keeper |-> {}]
    /\ reflectedAt = [k \in Keeper |-> [m \in 1..MaxMemories |-> -1]]
    /\ ranAt = [k \in Keeper |-> -1]
    /\ doing = [k \in Keeper |-> "sleep"]
    /\ toNote = [k \in Keeper |-> {}] /\ toSum = [k \in Keeper |-> <<>>]
    /\ made = [k \in Keeper |-> <<>>]
    /\ touched = 0 /\ failures = 0

(* effective_confidence is under the threshold: the time since the last     *)
(* access, or the write, has worn it down; summaries decay half as fast.    *)
Faded(m) == now - memories[m].seen >= IF memories[m].slow THEN 2 * Fade ELSE Fade

(* What agents do, through a keeper's server or elsewhere. *)
Touch ==
    /\ touched < MaxTouched
    /\ touched' = touched + 1
    /\ UNCHANGED <<now, notes, reflectedAt, ranAt, doing, toNote, toSum, made, failures>>

(* db.write through w: only the index of its own handle gets to know it. *)
Store(w, memory) ==
    /\ Len(memories) < MaxMemories
    /\ memories' = Append(memories, memory)
    /\ known' = [k \in Keeper |-> IF k = w THEN known[k] \cup {Len(memories) + 1} ELSE known[k]]

MarkIn(w, m) == marked' = [k \in Keeper |-> IF k = w THEN marked[k] \cup {m} ELSE marked[k]]

Learn(w, t) ==
    /\ Touch
    /\ Store(w, Memory(t, FALSE))
    /\ UNCHANGED <<retired, marked>>

(* record_access. *)
Access(m) ==
    /\ Touch
    /\ memories' = [memories EXCEPT ![m].seen = now]
    /\ UNCHANGED <<retired, known, marked>>

(* deprecate: the sidecar, and the mark in the index of that handle. *)
Forsake(w, m) ==
    /\ Touch
    /\ retired' = retired \cup {m}
    /\ MarkIn(w, m)
    /\ UNCHANGED <<memories, known>>

(* update: a new version takes the place of m. *)
Replace(w, m, t) ==
    /\ Touch
    /\ Store(w, Memory(t, FALSE))
    /\ retired' = retired \cup {m}
    /\ MarkIn(w, m)

(* Every server has run the cycle of this interval and sleeps. *)
Tick ==
    /\ now < MaxTime
    /\ \A k \in Keeper : doing[k] = "sleep" /\ ranAt[k] = now
    /\ now' = now + 1
    /\ UNCHANGED <<store, notes, reflectedAt, ranAt, doing, toNote, toSum, made, touched,
                   failures>>

(* Mutant: a memory is reflected upon once. *)
RestedOnce(k, m) == reflectedAt[k][m] = -1

(* _should_reflect. *)
Rested(k, m) == reflectedAt[k][m] = -1 \/ now - reflectedAt[k][m] >= Cooldown

Reflected(k, due) ==
    reflectedAt' = [reflectedAt EXCEPT ![k] = [m \in DOMAIN @ |-> IF m \in due THEN now ELSE @[m]]]

(* get_namespace_ids: what this handle knows and has not retired itself. *)
Listed(k) == known[k] \ marked[k]

(* reflect: the index lists the memories of the namespace in no order, the *)
(* list is cut to Limit, and only then do the sidecars take out what was    *)
(* retired elsewhere or before this handle connected.  Of the rest, those   *)
(* that fade.                                                               *)
Reflect(k) ==
    /\ doing[k] = "sleep" /\ ranAt[k] # now
    /\ \E looked \in SUBSET Listed(k) :
          LET due == {m \in looked \ retired : Faded(m) /\ Rested(k, m)} IN
          /\ Cardinality(looked) = Min({Limit, Cardinality(Listed(k))})
          /\ Reflected(k, due)
          /\ toNote' = [toNote EXCEPT ![k] = due]
    /\ ranAt' = [ranAt EXCEPT ![k] = now]
    /\ doing' = [doing EXCEPT ![k] = "notes"]
    /\ UNCHANGED <<now, store, notes, toSum, made, touched, failures>>

(* annotate: a memory that has been recalled or retired meanwhile gets its  *)
(* note all the same; a note that cannot be written is dropped.             *)
Note(k, m) ==
    /\ doing[k] = "notes" /\ m \in toNote[k]
    /\ toNote' = [toNote EXCEPT ![k] = @ \ {m}]
    /\ \/ notes' = notes \cup {<<k, m, ranAt[k]>>} /\ UNCHANGED failures
       \/ failures < MaxFailures /\ failures' = failures + 1 /\ UNCHANGED notes
    /\ UNCHANGED <<now, store, reflectedAt, ranAt, doing, toSum, made, touched>>

(* get_namespace without a limit. *)
Found(k) == Listed(k) \ retired

TagGroups(k) ==
    {g \in {{m \in Found(k) : memories[m].tag = t} : t \in Tag} : Cardinality(g) >= 2}

HourGroups(k) ==
    {g \in {{m \in Found(k) : memories[m].born = h} : h \in 0..now} : Cardinality(g) >= Threshold}

(* Mutant: a group of one hour is added though its members share a tag. *)
CoveredNever(g, groups) == FALSE

Covered(g, groups) == \E c \in groups : g \subseteq c

(* find_consolidation_candidates. *)
Candidates(k) ==
    SetToSeq(TagGroups(k)) \o SetToSeq({g \in HourGroups(k) : ~Covered(g, TagGroups(k))})

Group(k) ==
    /\ doing[k] = "notes" /\ toNote[k] = {}
    /\ doing' = [doing EXCEPT ![k] = "summaries"]
    /\ toSum' = [toSum EXCEPT ![k] = Candidates(k)]
    /\ UNCHANGED <<now, store, notes, reflectedAt, ranAt, toNote, made, touched, failures>>

(* create_consolidation_record: a summary is tagged as one and with the     *)
(* tags of its sources, in no order, so its label may be any.  One that     *)
(* cannot be written is dropped.                                            *)
Summarise(k) ==
    /\ doing[k] = "summaries" /\ toSum[k] # <<>>
    /\ toSum' = [toSum EXCEPT ![k] = Tail(@)]
    /\ \/ /\ \E t \in Tag : Store(k, Memory(t, TRUE))
          /\ made' = [made EXCEPT ![k] = Append(@, Head(toSum[k]))]
          /\ UNCHANGED failures
       \/ /\ failures < MaxFailures
          /\ failures' = failures + 1
          /\ UNCHANGED <<memories, known, made>>
       \/ /\ Len(memories) = MaxMemories
          /\ UNCHANGED <<memories, known, made, failures>>
    /\ UNCHANGED <<now, retired, marked, notes, reflectedAt, ranAt, doing, toNote, touched>>

Sleep(k) ==
    /\ doing[k] = "summaries" /\ toSum[k] = <<>>
    /\ doing' = [doing EXCEPT ![k] = "sleep"]
    /\ made' = [made EXCEPT ![k] = <<>>]
    /\ UNCHANGED <<now, store, notes, reflectedAt, ranAt, toNote, toSum, touched, failures>>

Cycle(k) == Reflect(k) \/ (\E m \in Remembered : Note(k, m)) \/ Group(k) \/ Summarise(k) \/ Sleep(k)

(* A server starts again: what it remembered of its reflections is lost.    *)
(* Its index is what some handle had saved at some checkpoint; if there is  *)
(* none, all records are indexed, and nothing is marked.                    *)
Restart(k) ==
    /\ \E ids \in SUBSET Remembered, marks \in SUBSET retired :
          /\ ids = {} => Remembered = {}
          /\ known' = [known EXCEPT ![k] = ids] /\ marked' = [marked EXCEPT ![k] = marks]
    /\ failures < MaxFailures /\ failures' = failures + 1
    /\ reflectedAt' = [reflectedAt EXCEPT ![k] = [m \in 1..MaxMemories |-> -1]]
    /\ ranAt' = [ranAt EXCEPT ![k] = -1]
    /\ doing' = [doing EXCEPT ![k] = "sleep"]
    /\ toNote' = [toNote EXCEPT ![k] = {}] /\ toSum' = [toSum EXCEPT ![k] = <<>>]
    /\ made' = [made EXCEPT ![k] = <<>>]
    /\ notes' = {n \in notes : n[1] # k}
    /\ UNCHANGED <<now, memories, retired, touched>>

UpkeepNext ==
    \/ Tick
    \/ \E w \in Keeper \cup {Outside}, t \in Tag \cup {NoTag} :
          Learn(w, t) \/ \E m \in Visible : Replace(w, m, t)
    \/ \E m \in Visible : Access(m) \/ \E w \in Keeper \cup {Outside} : Forsake(w, m)
    \/ \E k \in Keeper : Cycle(k) \/ Restart(k)

UpkeepSpec == UpkeepInit /\ [][UpkeepNext]_upkeepVars

-----------------------------------------------------------------------------

(* Upkeep does not repeat itself: a server annotates a memory again only    *)
(* when the cooldown has passed since the cycle of its last note, and never *)
(* summarises the same memories twice in one cycle, though they share a     *)
(* label and were written in one hour (reflect, consolidate).               *)
UpkeepNeverRepeats ==
    /\ \A n, o \in notes :
          n[1] = o[1] /\ n[2] = o[2] /\ n[3] < o[3] => o[3] - n[3] >= Cooldown
    /\ \A k \in Keeper : IsInjective(made[k] \o toSum[k])

(* A server notes every fading memory in its index, whatever notes fail and *)
(* servers start again, unless the memory is recalled or retired first, or  *)
(* the index of a server that started again does not have it, or lists more *)
(* than one reflection looks at.  What it lists includes what other         *)
(* processes retired, which takes a place for as long as the server runs.   *)
(* The bounded time has to leave room for a second cycle (maintenance_loop).*)
FadingNoted ==
    \A k \in Keeper, m \in 1..MaxMemories :
        (m \in known[k] \cap Visible /\ Faded(m) /\ now + 2 * Cooldown <= MaxTime)
          ~> (\/ m \notin known[k] \cap Visible \/ ~Faded(m)
              \/ Cardinality(Listed(k)) > Limit
              \/ \E n \in notes : n[1] = k /\ n[2] = m /\ n[3] >= memories[m].seen)

=============================================================================
