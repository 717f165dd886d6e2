------------------------------- MODULE Recall -------------------------------
(***************************************************************************)
(* What an agent is told when it asks for memories: the memory protocol    *)
(* (embers/integration/memory_protocol.py) over the query engine and the   *)
(* derived indexes of one connection, which are saved one file after the   *)
(* other by checkpoint() and loaded again when the store is opened.        *)
(* Scores are left out: the best hits are any.  A memory matches the words *)
(* of the question or not, is in the room asked for or not, and is like    *)
(* the question in meaning as the embedding has it, so any may be.  The    *)
(* access counts that recall() raises only move the scores.                *)
(***************************************************************************)
EXTENDS Naturals, FiniteSetsExt, SequencesExt

CONSTANTS
    TopK,           \* memories asked for
    MaxMemories,    \* bound
    MaxOpened     \* bound: the store is opened again

ASSUME RecallAssumption ==
    TopK \in Nat \ {0} /\ {MaxMemories, MaxOpened} \subseteq Nat

Width == {1, 2}     \* dimensions of an embedding, that of the first
                    \* connection is 1; 0 for no embedding

VARIABLES
    memory,         \* records/ and supersessions/: what was written, oldest first
    forgotten,      \* deprecations/
    index,          \* the indexes in memory
    saved,          \* the indexes on disk
    width,          \* the dimension of this connection's embeddings
    open,
    answer,         \* the last answer, None after the next change
    expected,       \* history: what the indexes were given, in this connection
    kept,           \* ... or before a checkpoint that was completed
    opened

recallVars == <<memory, forgotten, index, saved, width, open, answer,
                expected, kept, opened>>

NoAnswer == [ids |-> {}, room |-> FALSE, cut |-> TRUE]
Empty    == [master |-> {}, line |-> <<>>, vector |-> {}, dim |-> 0, text |-> {}]

RecallInit ==
    /\ memory = <<>> /\ forgotten = {}
    /\ index = Empty /\ saved = Empty
    /\ width = 1 /\ open = TRUE
    /\ answer = NoAnswer /\ expected = {} /\ kept = {} /\ opened = 0

Ids == DOMAIN memory

(* A version that was replaced or forgotten is not read: ReadEngine.get. *)
Live(i) == i \notin forgotten /\ \A j \in Ids : memory[j].prev # i

(* bisect.insort: after the entries that are not greater. *)
InLine(line, i) == InsertAt(line, 1 + Cardinality({n \in DOMAIN line : line[n] <= i}), i)

Fits(ix, w) == w = 0 \/ ix.dim \in {0, w}

WithVector(ix, i, w) ==
    IF w = 0 THEN ix ELSE [ix EXCEPT !.vector = @ \cup {i}, !.dim = w]

(* Mutant: the embedding is indexed before the text. *)
IndexVectorFirst(ix, i, w) ==
    LET listed == [ix EXCEPT !.master = @ \cup {i}, !.line = InLine(@, i)]
    IN  IF Fits(ix, w)
        THEN WithVector([listed EXCEPT !.text = @ \cup {i}], i, w)
        ELSE listed

(* _index_record: an embedding of another dimension is refused when the rest *)
(* has been indexed; the write callback swallows the error.                  *)
IndexRecord(ix, i, w) ==
    LET listed == [ix EXCEPT !.master = @ \cup {i}, !.line = InLine(@, i),
                             !.text = @ \cup {i}]
    IN  IF Fits(ix, w) THEN WithVector(listed, i, w) ELSE listed

Store(m) ==
    LET i == Len(memory) + 1 IN
    /\ open /\ i <= MaxMemories
    /\ memory' = Append(memory, m)
    /\ index' = IndexRecord(index, i, m.width)
    /\ expected' = expected \cup {i}
    /\ answer' = NoAnswer
    /\ UNCHANGED <<forgotten, saved, width, open, kept, opened>>

(* remember(): the text or the room that was given, and an embedding. *)
Remember == \E matches, room \in BOOLEAN :
    Store([matches |-> matches, room |-> room, width |-> width, prev |-> 0])

(* update(): the new text names no room, so the new version is in none that *)
(* is asked for, and it has no embedding.                                   *)
Revise == \E i \in Ids, matches \in BOOLEAN :
    Store([matches |-> matches, room |-> FALSE, width |-> 0, prev |-> i])

(* forget() *)
Forget(i) ==
    /\ open /\ i \in Ids \ forgotten
    /\ forgotten' = forgotten \cup {i}
    /\ answer' = NoAnswer
    /\ UNCHANGED <<memory, index, saved, width, open, expected, kept, opened>>

-----------------------------------------------------------------------------

(* The best n of a set of hits. *)
Best(n, hits) == kSubset(IF Cardinality(hits) < n THEN Cardinality(hits) ELSE n, hits)

(* FullTextIndex.search and VectorIndex.similar: replaced and forgotten     *)
(* memories are hits like any other, and count for the limit.  Embeddings   *)
(* of another dimension than the question's cannot be compared: an error.   *)
TextMatches == {i \in index.text : memory[i].matches}
TextHits(n)    == Best(n, TextMatches)
Comparable     == index.vector = {} \/ index.dim = width
VectorHits(n)  == {hits \in SUBSET index.vector : Cardinality(hits) <= n}

Answer(ids, room, cut) ==
    /\ answer' = [ids |-> ids, room |-> room, cut |-> cut]
    /\ UNCHANGED <<memory, forgotten, index, saved, width, open, expected, kept, opened>>

(* recall(): twice as many hits as asked for by words and, unless that is   *)
(* disabled, by meaning; those that can be read, in the room if one is      *)
(* given; the best TopK are told.                                           *)
Recollect(room, semantic) ==
    /\ open
    /\ semantic => Comparable
    /\ \E text \in TextHits(2 * TopK),
          vector \in IF semantic THEN VectorHits(2 * TopK) ELSE {{}} :
          LET ranked == {i \in text \cup vector : Live(i) /\ (room => memory[i].room)}
          IN  \E ids \in Best(TopK, ranked) :
                 Answer(ids, room, text # TextMatches \/ ids # ranked)

(* hybrid_search(): the limit is applied before the hits are read. *)
HybridSearch ==
    /\ open /\ Comparable
    /\ \E text \in TextHits(2 * TopK), vector \in VectorHits(2 * TopK) :
       \E best \in Best(TopK, text \cup vector) :
          Answer({i \in best : Live(i)}, FALSE, text # TextMatches \/ best # text \cup vector)

-----------------------------------------------------------------------------

(* checkpoint(): the indexes are written in this order, in place. *)
Files == <<"master", "line", "vector", "text">>

Checkpoint ==
    /\ open /\ saved # index
    /\ saved' = index /\ kept' = expected
    /\ UNCHANGED <<memory, forgotten, index, width, open, answer, expected, opened>>

(* The process dies while the n-th file is written: the file is cut short,  *)
(* and read as an empty index; those after it are still the old ones.       *)
CutShort(n) ==
    /\ open /\ opened < MaxOpened
    /\ saved' = [f \in DOMAIN saved |->
                   LET at == IF f = "dim" THEN 3 ELSE CHOOSE k \in 1..4 : Files[k] = f
                   IN  IF at < n THEN index[f] ELSE IF at = n THEN Empty[f] ELSE saved[f]]
    /\ kept' = {}
    /\ open' = FALSE
    /\ answer' = NoAnswer
    /\ UNCHANGED <<memory, forgotten, index, width, expected, opened>>

(* _rebuild_indexes_if_needed: the records one after the other. *)
Rebuilt ==
    LET read[n \in 0..Len(memory)] ==
            IF n = 0 THEN saved ELSE IndexRecord(read[n - 1], n, memory[n].width)
    IN  read[Len(memory)]

(* Another connection, after a crash or not.  The indexes are rebuilt from  *)
(* the records only if the master index is empty; connect() fails when the  *)
(* embeddings of the records have different dimensions.                     *)
Connect(w) ==
    LET rebuild == saved.master = {} /\ memory # <<>>
        widths  == ({memory[i].width : i \in Ids} \cup {saved.dim}) \ {0}
    IN  /\ opened < MaxOpened
        /\ opened' = opened + 1
        /\ width' = w /\ answer' = NoAnswer
        /\ open' = (rebuild => Cardinality(widths) <= 1)
        /\ index' = IF rebuild THEN Rebuilt ELSE saved
        /\ expected' = IF rebuild THEN Ids ELSE kept
        /\ UNCHANGED <<memory, forgotten, saved, kept>>

RecallNext ==
    \/ Remember \/ Revise \/ HybridSearch \/ Checkpoint
    \/ \E i \in Ids : Forget(i)
    \/ \E room, semantic \in BOOLEAN : Recollect(room, semantic)
    \/ \E n \in 1..4 : CutShort(n)
    \/ \E w \in Width : Connect(w)

RecallSpec == RecallInit /\ [][RecallNext]_recallVars

-----------------------------------------------------------------------------

(* An answer holds nothing that was replaced, forgotten or is in another    *)
(* room, though the indexes keep all versions and forget no mark when they  *)
(* are rebuilt.  It holds every live memory with the words of the question  *)
(* that this connection wrote, or that was there at the last checkpoint,    *)
(* unless a limit cut the hits; a memory whose embedding was refused too.   *)
(* The timeline lists these memories as well.                               *)
RecallExact ==
    /\ \A i \in answer.ids : Live(i) /\ (answer.room => memory[i].room)
    /\ ~answer.cut =>
          {i \in expected : Live(i) /\ memory[i].matches /\ (answer.room => memory[i].room)}
             \subseteq answer.ids
    /\ open => expected \subseteq ToSet(index.line)

=============================================================================
