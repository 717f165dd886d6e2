------------------------- MODULE CollaborationProofs -------------------------
(***************************************************************************)
(* Proofs about Lobby and about Collaboration for any sessions, callers,   *)
(* tasks, posts, boards and limits.                                        *)
(*                                                                         *)
(* Lobby: SeatsAgree with the types, and that a board has finitely many    *)
(* members, is inductive: every method changes participants, presence and  *)
(* by_session for one session, or empties one board.                       *)
(*                                                                         *)
(* Accounts: while no two changes of a session overlap, the one caller     *)
(* that changes it holds its account as it is, on its head (Alone); so     *)
(* what it adds says all that was said before.                             *)
(*                                                                         *)
(* Marks: an id is written by one task, once (NotYet, OneWriter), so a     *)
(* record stored for a post keeps its session (KeptRight); what is to be   *)
(* marked is stored or is stored earlier in the same call (MarkReady).     *)
(*                                                                         *)
(* Failures: a post is on one board (PostsOnce), a close hands every       *)
(* failure without a record to its caller, and what that caller does       *)
(* before a failure is on accounts of authors of failures posted earlier   *)
(* (LogsLocal): if it is turned away, one of their sessions was closed.    *)
(***************************************************************************)
EXTENDS Collaboration, FiniteSetTheorems, SequenceTheorems, TLAPS

-----------------------------------------------------------------------------
(* The lobby.                                                              *)

(* LobbyTypeOK, but for the posts. *)
BoardsOK ==
    /\ board \in [Board -> BoardState \cup {None}]
    /\ boardOf \in [Session -> Board \cup {None}]

LobbyInv ==
    /\ BoardsOK /\ SeatsAgree
    /\ \A b \in OpenBoards : IsFiniteSet(board[b].members)

(* A session takes a seat on an open board: it has it, or has none and      *)
(* there is room.                                                           *)
LEMMA SeatKeeps ==
    ASSUME LobbyInv, NEW b \in OpenBoards, NEW s \in Session, NEW ps \in Seq(Post),
           Seat(b, s, ps), HasRoom(b, s), boardOf[s] \in {None, b}
    PROVE  /\ board' \in [Board -> BoardState \cup {None}]
           /\ boardOf' \in [Session -> Board \cup {None}]
           /\ SeatsAgree'
           /\ \A o \in OpenBoards' : IsFiniteSet(board'[o].members)
  <1>1. b \in Board /\ board[b] \in BoardState /\ b # None
    BY LobbyAssumption DEF LobbyInv, BoardsOK, OpenBoards
  <1> DEFINE ms == board[b].members \cup {s}
             new == [board[b] EXCEPT !.members = ms, !.present = board[b].present \cup {s},
                                     !.posts = ps]
  <1>2. new \in BoardState /\ new.open = board[b].open /\ new.topic = board[b].topic
        /\ new.members = ms /\ new.present = board[b].present \cup {s}
    BY <1>1 DEF BoardState
  <1>3. board' = [board EXCEPT ![b] = new] /\ boardOf' = [boardOf EXCEPT ![s] = b]
    BY <1>1 DEF Seat, BoardState
  <1>4. board' \in [Board -> BoardState \cup {None}] /\ boardOf' \in [Session -> Board \cup {None}]
    BY <1>1, <1>2, <1>3 DEF LobbyInv, BoardsOK
  <1> HIDE DEF new
  <1>5. /\ board'[b] = new /\ \A o \in Board \ {b} : board'[o] = board[o]
        /\ boardOf'[s] = b /\ \A r \in Session \ {s} : boardOf'[r] = boardOf[r]
    BY <1>1, <1>3 DEF LobbyInv, BoardsOK
  <1>6. OpenBoards' = OpenBoards
    BY <1>1, <1>2, <1>5, LobbyAssumption DEF OpenBoards
  <1>7. IsFiniteSet(ms) /\ (MaxAgents = 0 \/ Cardinality(ms) <= MaxAgents)
    <2>1. IsFiniteSet(board[b].members)
      BY DEF LobbyInv
    <2>2. Cardinality(board[b].members) \in Nat /\ MaxAgents \in Nat
      BY <2>1, FS_CardinalityType, LobbyAssumption
    <2>3. CASE s \in board[b].members
      <3>1. ms = board[b].members
        BY <2>3
      <3> QED BY <2>1, <3>1 DEF LobbyInv, SeatsAgree
    <2>4. CASE s \notin board[b].members
      <3>1. IsFiniteSet(ms) /\ Cardinality(ms) = Cardinality(board[b].members) + 1
        BY <2>1, <2>4, FS_AddElement
      <3> QED BY <2>2, <2>4, <3>1 DEF HasRoom
    <2> QED BY <2>3, <2>4
  <1>8. ms = {r \in Session : boardOf'[r] = b} /\ new.present = ms
    <2>1. board[b].members = {r \in Session : boardOf[r] = b}
      BY DEF LobbyInv, SeatsAgree
    <2>2. board[b].present = board[b].members
      BY DEF LobbyInv, SeatsAgree
    <2> QED BY <1>2, <1>5, <2>1, <2>2
  <1>9. SeatsAgree'
    <2>1. \A x, y \in OpenBoards : board'[x].topic = board'[y].topic => x = y
      BY <1>2, <1>5 DEF LobbyInv, SeatsAgree, OpenBoards
    <2>2. ASSUME NEW o \in OpenBoards
          PROVE  /\ board'[o].present = board'[o].members
                 /\ board'[o].members = {r \in Session : boardOf'[r] = o}
                 /\ MaxAgents = 0 \/ Cardinality(board'[o].members) <= MaxAgents
      <3>1. CASE o = b
        BY <1>2, <1>5, <1>7, <1>8, <3>1
      <3>2. CASE o # b
        <4>1. board'[o] = board[o] /\ o # None
          BY <1>5, <3>2, LobbyAssumption DEF OpenBoards
        <4>2. \A r \in Session : boardOf'[r] = o <=> boardOf[r] = o
          BY <1>5, <3>2, <4>1
        <4> QED BY <4>1, <4>2 DEF LobbyInv, SeatsAgree
      <3> QED BY <3>1, <3>2
    <2>3. \A r \in Session : boardOf'[r] # None => boardOf'[r] \in OpenBoards
      BY <1>5 DEF LobbyInv, SeatsAgree, Seated
    <2> QED BY <1>6, <2>1, <2>2, <2>3 DEF SeatsAgree, Seated
  <1>10. \A o \in OpenBoards' : IsFiniteSet(board'[o].members)
    <2>1. ASSUME NEW o \in OpenBoards PROVE IsFiniteSet(board'[o].members)
      <3>1. CASE o = b
        BY <1>2, <1>5, <1>7, <3>1
      <3>2. CASE o # b
        BY <1>5, <3>2 DEF LobbyInv, OpenBoards
      <3> QED BY <3>1, <3>2
    <2> QED BY <1>6, <2>1
  <1> QED BY <1>4, <1>9, <1>10

(* The members of the board of a session are those who sit on it, and the   *)
(* session is one of them.                                                  *)
LEMMA SeatedIsMember ==
    ASSUME LobbyInv, NEW s \in Session, Seated(s)
    PROVE  /\ boardOf[s] \in OpenBoards /\ boardOf[s] \in Board
           /\ board[boardOf[s]] \in BoardState
           /\ s \in board[boardOf[s]].members /\ s \in board[boardOf[s]].present
           /\ HasRoom(boardOf[s], s)
  BY DEF LobbyInv, BoardsOK, SeatsAgree, Seated, OpenBoards, HasRoom

LEMMA ReturnKeeps == ASSUME LobbyInv, NEW s \in Session, Return(s) PROVE LobbyInv'
  <1>1. /\ boardOf[s] \in Board /\ board[boardOf[s]] \in BoardState
        /\ s \in board[boardOf[s]].present
    BY SeatedIsMember DEF Return
  <1>2. [board[boardOf[s]] EXCEPT !.present = @ \cup {s}] = board[boardOf[s]]
    <2>1. board[boardOf[s]].present \cup {s} = board[boardOf[s]].present
      BY <1>1
    <2> QED BY <1>1, <2>1 DEF BoardState
  <1>3. UNCHANGED <<board, boardOf>>
    BY <1>1, <1>2 DEF Return, LobbyInv, BoardsOK
  <1> QED BY <1>3 DEF LobbyInv, BoardsOK, SeatsAgree, OpenBoards, Seated

LEMMA CreateKeeps ==
    ASSUME LobbyInv, NEW s \in Session, NEW t \in Topic, NEW b \in Board, Create(s, t, b) PROVE LobbyInv'
  <1> DEFINE new == [topic |-> t, open |-> TRUE, members |-> {s}, present |-> {s},
                     posts |-> <<>>]
  <1>1. /\ new \in BoardState /\ b # None /\ new # None
        /\ new.open /\ new.topic = t /\ new.members = {s} /\ new.present = {s}
    <2>1. new \in BoardState
      BY DEF BoardState
    <2> QED BY <2>1, LobbyAssumption
  <1>2. /\ board' \in [Board -> BoardState \cup {None}]
        /\ boardOf' \in [Session -> Board \cup {None}]
        /\ board'[b] = new /\ boardOf'[s] = b
        /\ \A o \in Board \ {b} : board'[o] = board[o]
        /\ \A r \in Session \ {s} : boardOf'[r] = boardOf[r]
    BY <1>1 DEF Create, LobbyInv, BoardsOK
  <1>3. OpenBoards' = OpenBoards \cup {b} /\ b \notin OpenBoards
    BY <1>1, <1>2 DEF Create, OpenBoards
  <1>4. \A r \in Session : boardOf[r] # b
    BY <1>1, <1>3 DEF LobbyInv, SeatsAgree, Seated
  <1>5. boardOf[s] = None
    BY DEF Create, LobbyInv, SeatsAgree
  <1>6. IsFiniteSet({s}) /\ Cardinality({s}) = 1
    BY FS_Singleton
  <1>7. \A x, y \in OpenBoards' : board'[x].topic = board'[y].topic => x = y
    BY <1>2, <1>3 DEF Create, LobbyInv, SeatsAgree, OpenBoards
  <1>8. ASSUME NEW o \in OpenBoards'
        PROVE  /\ board'[o].present = board'[o].members
               /\ board'[o].members = {r \in Session : boardOf'[r] = o}
               /\ MaxAgents = 0 \/ Cardinality(board'[o].members) <= MaxAgents
               /\ IsFiniteSet(board'[o].members)
    <2>1. CASE o = b
      <3>1. {r \in Session : boardOf'[r] = b} = {s}
        BY <1>2, <1>4
      <3>2. MaxAgents = 0 \/ 1 <= MaxAgents
        BY LobbyAssumption
      <3>3. board'[o].members = {s} /\ board'[o].present = {s}
        BY <1>1, <1>2, <2>1
      <3> QED BY <1>6, <2>1, <3>1, <3>2, <3>3
    <2>2. CASE o # b
      <3>1. o \in OpenBoards /\ board'[o] = board[o] /\ o # None
        BY <1>2, <1>3, <2>2, LobbyAssumption DEF OpenBoards
      <3>2. \A r \in Session : boardOf'[r] = o <=> boardOf[r] = o
        BY <1>2, <1>5, <2>2, <3>1
      <3> QED BY <3>1, <3>2 DEF LobbyInv, SeatsAgree
    <2> QED BY <2>1, <2>2
  <1>9. \A r \in Session : boardOf'[r] # None => boardOf'[r] \in OpenBoards'
    BY <1>2, <1>3 DEF LobbyInv, SeatsAgree, Seated
  <1> QED BY <1>2, <1>7, <1>8, <1>9 DEF LobbyInv, BoardsOK, SeatsAgree, Seated

LEMMA LeaveKeeps == ASSUME LobbyInv, NEW s \in Session, Leave(s) PROVE LobbyInv'
  <1> DEFINE b == boardOf[s]
             ms == board[b].members \ {s}
             new == [board[b] EXCEPT !.members = ms, !.present = board[b].present \ {s}]
  <1>1. b \in OpenBoards /\ b \in Board /\ board[b] \in BoardState /\ s \in board[b].members
    BY SeatedIsMember DEF Leave
  <1>2. /\ new \in BoardState /\ new.open = board[b].open /\ new.topic = board[b].topic
        /\ new.members = ms /\ new.present = board[b].present \ {s}
    BY <1>1 DEF BoardState
  <1>3. board' = [board EXCEPT ![b] = new] /\ boardOf' = [boardOf EXCEPT ![s] = None]
    BY <1>1 DEF Leave, BoardState
  <1>4. /\ board' \in [Board -> BoardState \cup {None}]
        /\ boardOf' \in [Session -> Board \cup {None}]
    BY <1>1, <1>2, <1>3 DEF LobbyInv, BoardsOK
  <1> HIDE DEF new
  <1>5. /\ board'[b] = new /\ \A o \in Board \ {b} : board'[o] = board[o]
        /\ boardOf'[s] = None /\ \A r \in Session \ {s} : boardOf'[r] = boardOf[r]
    BY <1>1, <1>3 DEF LobbyInv, BoardsOK
  <1>6. OpenBoards' = OpenBoards
    BY <1>1, <1>2, <1>5, LobbyAssumption DEF OpenBoards
  <1>7. IsFiniteSet(ms) /\ (MaxAgents = 0 \/ Cardinality(ms) <= MaxAgents)
    <2>1. IsFiniteSet(board[b].members)
      BY <1>1 DEF LobbyInv
    <2>2. IsFiniteSet(ms) /\ Cardinality(ms) = Cardinality(board[b].members) - 1
      BY <1>1, <2>1, FS_RemoveElement
    <2>3. Cardinality(board[b].members) \in Nat /\ MaxAgents \in Nat
      BY <2>1, FS_CardinalityType, LobbyAssumption
    <2> QED BY <1>1, <2>2, <2>3 DEF LobbyInv, SeatsAgree
  <1>8. \A x, y \in OpenBoards : board'[x].topic = board'[y].topic => x = y
    BY <1>2, <1>5 DEF LobbyInv, SeatsAgree, OpenBoards
  <1>9. ASSUME NEW o \in OpenBoards
        PROVE  /\ board'[o].present = board'[o].members
               /\ board'[o].members = {r \in Session : boardOf'[r] = o}
               /\ MaxAgents = 0 \/ Cardinality(board'[o].members) <= MaxAgents
               /\ IsFiniteSet(board'[o].members)
    <2>0. o # None /\ o \in Board
      BY LobbyAssumption DEF OpenBoards
    <2>1. CASE o = b
      <3>1. board[b].present = board[b].members
            /\ board[b].members = {r \in Session : boardOf[r] = b}
        BY <1>1 DEF LobbyInv, SeatsAgree
      <3>2. ms = {r \in Session : boardOf'[r] = b}
        BY <1>5, <2>0, <2>1, <3>1
      <3> QED BY <1>2, <1>5, <1>7, <2>1, <3>1, <3>2
    <2>2. CASE o # b
      <3>1. board'[o] = board[o]
        BY <1>5, <2>0, <2>2
      <3>2. \A r \in Session : boardOf'[r] = o <=> boardOf[r] = o
        BY <1>5, <2>0, <2>2
      <3> QED BY <3>1, <3>2 DEF LobbyInv, SeatsAgree
    <2> QED BY <2>1, <2>2
  <1>10. \A r \in Session : boardOf'[r] # None => boardOf'[r] \in OpenBoards
    BY <1>5 DEF LobbyInv, SeatsAgree, Seated
  <1> QED BY <1>3, <1>4, <1>6, <1>8, <1>9, <1>10 DEF LobbyInv, BoardsOK, SeatsAgree, Seated

LEMMA CloseKeeps == ASSUME LobbyInv, NEW b \in OpenBoards, CloseBoard(b) PROVE LobbyInv'
  <1> DEFINE new == [board[b] EXCEPT !.open = FALSE]
  <1>1. b \in Board /\ board[b] \in BoardState /\ b # None
    BY LobbyAssumption DEF LobbyInv, BoardsOK, OpenBoards
  <1>2. new \in BoardState /\ ~new.open
    BY <1>1 DEF BoardState
  <1>3. board' = [board EXCEPT ![b] = new]
    BY DEF CloseBoard
  <1>4. board' \in [Board -> BoardState \cup {None}]
    BY <1>1, <1>2, <1>3 DEF LobbyInv, BoardsOK
  <1> HIDE DEF new
  <1>5. board'[b] = new /\ \A o \in Board \ {b} : board'[o] = board[o]
    BY <1>1, <1>3 DEF LobbyInv, BoardsOK
  <1>6. OpenBoards' = OpenBoards \ {b}
    BY <1>2, <1>5 DEF OpenBoards
  <1>7. /\ boardOf' \in [Session -> Board \cup {None}]
        /\ \A r \in Session : boardOf'[r] = IF boardOf[r] = b THEN None ELSE boardOf[r]
    <2>1. board[b].members = {r \in Session : boardOf[r] = b}
      BY DEF LobbyInv, SeatsAgree
    <2> QED BY <2>1 DEF CloseBoard, LobbyInv, BoardsOK
  <1>8. ASSUME NEW o \in OpenBoards'
        PROVE  /\ board'[o] = board[o] /\ o \in OpenBoards
               /\ {r \in Session : boardOf'[r] = o} = {r \in Session : boardOf[r] = o}
    <2>1. o # None /\ o \in Board
      BY LobbyAssumption DEF OpenBoards
    <2> QED BY <1>5, <1>6, <1>7, <2>1
  <1>9. \A r \in Session : boardOf'[r] # None => boardOf'[r] \in OpenBoards'
    BY <1>6, <1>7 DEF LobbyInv, SeatsAgree, Seated
  <1>10. \A x, y \in OpenBoards' : board'[x].topic = board'[y].topic => x = y
    BY <1>8 DEF LobbyInv, SeatsAgree
  <1> QED BY <1>3, <1>4, <1>7, <1>8, <1>9, <1>10 DEF LobbyInv, BoardsOK, SeatsAgree, Seated

LEMMA ExpireKeeps == ASSUME LobbyInv, NEW b \in Board, Expire(b) PROVE LobbyInv'
  <1> DEFINE new == [board[b] EXCEPT !.posts = Tail(board[b].posts)]
  <1>1. board[b] \in BoardState /\ board[b].posts # <<>>
    BY DEF LobbyInv, BoardsOK, OpenBoards, Expire
  <1>2. /\ new \in BoardState /\ new.open = board[b].open /\ new.topic = board[b].topic
        /\ new.members = board[b].members /\ new.present = board[b].present
    <2>1. Tail(board[b].posts) \in Seq(Post)
      BY <1>1 DEF BoardState
    <2> QED BY <1>1, <2>1 DEF BoardState
  <1>3. board' = [board EXCEPT ![b] = new] /\ UNCHANGED boardOf
    BY DEF Expire
  <1>4. board' \in [Board -> BoardState \cup {None}]
    BY <1>1, <1>2, <1>3 DEF LobbyInv, BoardsOK
  <1> HIDE DEF new
  <1>5. board'[b] = new /\ \A o \in Board \ {b} : board'[o] = board[o]
    BY <1>3 DEF LobbyInv, BoardsOK
  <1>6. OpenBoards' = OpenBoards
    BY <1>1, <1>2, <1>5, LobbyAssumption DEF OpenBoards
  <1>7. \A o \in OpenBoards : /\ board'[o].topic = board[o].topic
                              /\ board'[o].members = board[o].members
                              /\ board'[o].present = board[o].present
    BY <1>2, <1>5 DEF OpenBoards
  <1> QED BY <1>3, <1>4, <1>6, <1>7 DEF LobbyInv, BoardsOK, SeatsAgree, Seated

(* The steps that take a seat, and what is written beside it. *)
LEMMA SeatingKeeps ==
    ASSUME LobbyInv, NEW s \in Session,
           \/ \E t \in Topic : Join(s, t)
           \/ \E p \in Post : Corroborate(s, p)
           \/ \E p \in Post, k \in {"failure", "discovery"} : Publish(s, p, k)
    PROVE  LobbyInv'
  <1>1. ASSUME NEW t \in Topic, Join(s, t) PROVE LobbyInv'
    <2>1. PICK b \in OpenBoards : HasRoom(b, s) /\ Seat(b, s, board[b].posts)
      BY <1>1 DEF Join
    <2>2. boardOf[s] = None
      BY <1>1 DEF Join, LobbyInv, SeatsAgree
    <2>3. board[b].posts \in Seq(Post)
      BY DEF LobbyInv, BoardsOK, OpenBoards, BoardState
    <2> QED BY <2>1, <2>2, <2>3, SeatKeeps DEF LobbyInv, BoardsOK
  <1>2. ASSUME Seated(s), NEW ps \in Seq(Post), Seat(boardOf[s], s, ps) PROVE LobbyInv'
    <2>1. boardOf[s] \in OpenBoards /\ HasRoom(boardOf[s], s)
      BY <1>2, SeatedIsMember
    <2> QED BY <1>2, <2>1, SeatKeeps DEF LobbyInv, BoardsOK
  <1>3. ASSUME NEW p \in Post, Corroborate(s, p) PROVE LobbyInv'
    <2>1. Seated(s) /\ p \in Posts(boardOf[s]) /\ Seat(boardOf[s], s, board[boardOf[s]].posts)
      BY <1>3 DEF Corroborate
    <2>2. board[boardOf[s]].posts \in Seq(Post)
      BY <2>1, SeatedIsMember DEF BoardState
    <2> QED BY <1>2, <2>1, <2>2
  <1>4. ASSUME NEW p \in Post, NEW k \in {"failure", "discovery"}, Publish(s, p, k) PROVE LobbyInv'
    <2>1. Seated(s) /\ HasRoom(boardOf[s], s)
      BY <1>4, SeatedIsMember DEF Publish
    <2>2. Seat(boardOf[s], s, Append(board[boardOf[s]].posts, p))
      BY <1>4, <2>1 DEF Publish
    <2>3. Append(board[boardOf[s]].posts, p) \in Seq(Post)
      BY <2>1, SeatedIsMember DEF BoardState
    <2> QED BY <1>2, <2>1, <2>2, <2>3
  <1> QED BY <1>1, <1>3, <1>4

LEMMA LobbyKept == LobbyInv /\ [LobbyNext]_lobbyVars => LobbyInv'
  <1> SUFFICES ASSUME LobbyInv, [LobbyNext]_lobbyVars PROVE LobbyInv'
    OBVIOUS
  <1>1. ASSUME NEW s \in Session, LobbyCalls(s) PROVE LobbyInv'
    BY <1>1, ReturnKeeps, LeaveKeeps, CreateKeeps, SeatingKeeps DEF LobbyCalls
  <1>2. ASSUME NEW s \in Session, Seated(s), CloseBoard(boardOf[s]) PROVE LobbyInv'
    BY <1>2, CloseKeeps DEF Seated
  <1>3. ASSUME NEW b \in Board, Expire(b) PROVE LobbyInv'
    BY <1>3, ExpireKeeps
  <1>4. CASE Forget
    <2>1. OpenBoards' = {} /\ \A s \in Session : boardOf'[s] = None
      BY <1>4 DEF Forget, OpenBoards
    <2> QED BY <1>4, <2>1 DEF Forget, LobbyInv, BoardsOK, SeatsAgree, Seated
  <1>5. CASE UNCHANGED <<board, boardOf>>
    BY <1>5 DEF LobbyInv, BoardsOK, SeatsAgree, OpenBoards, Seated
  <1> QED BY <1>1, <1>2, <1>3, <1>4, <1>5 DEF LobbyNext, Mark, lobbyVars

LEMMA LobbyAlways == LobbySpec => []LobbyInv
  <1>1. LobbyInit => LobbyInv
    <2> SUFFICES ASSUME LobbyInit PROVE LobbyInv
      OBVIOUS
    <2>1. OpenBoards = {} /\ \A s \in Session : boardOf[s] = None
      BY DEF LobbyInit, OpenBoards
    <2> QED BY <2>1 DEF LobbyInit, LobbyInv, BoardsOK, SeatsAgree
  <1> QED BY <1>1, LobbyKept, PTL DEF LobbySpec

(* However many agents open, join, publish, corroborate, leave and close,   *)
(* in any order and with any limit, participants, presence and by_session   *)
(* agree, and a task has one board with no more agents than allowed         *)
(* (lobby/store.py).                                                        *)
THEOREM SeatsAlwaysAgree == LobbySpec => []SeatsAgree
  <1>1. LobbyInv => SeatsAgree
    BY DEF LobbyInv
  <1> QED BY <1>1, LobbyAlways, PTL

-----------------------------------------------------------------------------
(* Posts.                                                                  *)

(* What is on an open board was published. *)
PostsOK ==
    /\ post \in [Post -> PostState \cup {None}]
    /\ \A b \in OpenBoards : \A p \in Posts(b) : post[p] # None

LEMMA AppendPosts ==
    ASSUME NEW s \in Seq(Post), NEW p \in Post, NEW n \in DOMAIN Append(s, p)
    PROVE  Append(s, p)[n] = p \/ (n \in DOMAIN s /\ Append(s, p)[n] = s[n])
  OBVIOUS

LEMMA TailPosts ==
    ASSUME NEW s \in Seq(Post), s # <<>>, NEW n \in DOMAIN Tail(s)
    PROVE  n + 1 \in DOMAIN s /\ Tail(s)[n] = s[n + 1]
  OBVIOUS

(* The posts a step leaves on the open boards: those that were there, and   *)
(* one that is published.                                                   *)
LEMMA PostsStay ==
    ASSUME LobbyInv, PostsOK, [LobbyNext]_lobbyVars, NEW b \in OpenBoards', NEW p \in Posts(b)'
    PROVE  (b \in OpenBoards /\ p \in Posts(b)) \/ post'[p] # None
  <1> USE LobbyAssumption
  <1>0. ASSUME b \in OpenBoards, board'[b].posts = board[b].posts
        PROVE  b \in OpenBoards /\ p \in Posts(b)
    BY <1>0 DEF Posts
  <1>1. ASSUME NEW s \in Session, Return(s) PROVE b \in OpenBoards /\ p \in Posts(b)
    <2>1. boardOf[s] \in OpenBoards /\ board[boardOf[s]] \in BoardState
      BY <1>1, SeatedIsMember DEF Return
    <2> QED BY <1>0, <1>1, <2>1 DEF Return, OpenBoards, BoardState, LobbyInv, BoardsOK
  <1>2. ASSUME NEW s \in Session, Leave(s) PROVE b \in OpenBoards /\ p \in Posts(b)
    <2>1. boardOf[s] \in OpenBoards /\ board[boardOf[s]] \in BoardState
      BY <1>2, SeatedIsMember DEF Leave
    <2> QED BY <1>0, <1>2, <2>1 DEF Leave, OpenBoards, BoardState, LobbyInv, BoardsOK
  <1>3. ASSUME NEW s \in Session, NEW t \in Topic, NEW o \in Board, Create(s, t, o)
        PROVE  b \in OpenBoards /\ p \in Posts(b)
    <2>1. CASE b = o
      <3>1. board'[o].posts = <<>>
        BY <1>3 DEF Create, LobbyInv, BoardsOK
      <3> QED BY <2>1, <3>1 DEF Posts
    <2>2. CASE b # o
      <3>1. b \in OpenBoards /\ board'[b].posts = board[b].posts
        BY <1>3, <2>2 DEF Create, OpenBoards, LobbyInv, BoardsOK
      <3> QED BY <1>0, <3>1
    <2> QED BY <2>1, <2>2
  <1>4. ASSUME NEW s \in Session, NEW o \in OpenBoards, NEW ps \in Seq(Post), Seat(o, s, ps),
               \A n \in DOMAIN ps : ps[n] \in Posts(o) \/ post'[ps[n]] # None
        PROVE  (b \in OpenBoards /\ p \in Posts(b)) \/ post'[p] # None
    <2>1. board[o] \in BoardState /\ o \in Board
      BY DEF OpenBoards, LobbyInv, BoardsOK
    <2>2. CASE b = o
      <3>1. board'[o].posts = ps
        BY <1>4, <2>1 DEF Seat, LobbyInv, BoardsOK, BoardState
      <3> QED BY <1>4, <2>2, <3>1 DEF Posts
    <2>3. CASE b # o
      <3>1. b \in OpenBoards /\ board'[b].posts = board[b].posts
        BY <1>4, <2>1, <2>3 DEF Seat, OpenBoards, LobbyInv, BoardsOK
      <3> QED BY <1>0, <3>1
    <2> QED BY <2>2, <2>3
  <1>5. ASSUME NEW o \in OpenBoards
        PROVE  /\ board[o].posts \in Seq(Post)
               /\ \A n \in DOMAIN board[o].posts : board[o].posts[n] \in Posts(o)
    BY DEF OpenBoards, LobbyInv, BoardsOK, BoardState, Posts
  <1>6. ASSUME NEW s \in Session, NEW t \in Topic, Join(s, t)
        PROVE  (b \in OpenBoards /\ p \in Posts(b)) \/ post'[p] # None
    BY <1>4, <1>5, <1>6 DEF Join
  <1>7. ASSUME NEW s \in Session, NEW q \in Post, Corroborate(s, q)
        PROVE  (b \in OpenBoards /\ p \in Posts(b)) \/ post'[p] # None
    <2>1. boardOf[s] \in OpenBoards /\ Seat(boardOf[s], s, board[boardOf[s]].posts)
      BY <1>7 DEF Corroborate, Seated
    <2> QED BY <1>4, <1>5, <2>1
  <1>8. ASSUME NEW s \in Session, NEW q \in Post, NEW k \in {"failure", "discovery"},
               Publish(s, q, k)
        PROVE  (b \in OpenBoards /\ p \in Posts(b)) \/ post'[p] # None
    <2>1. Seated(s) /\ HasRoom(boardOf[s], s)
      BY <1>8, SeatedIsMember DEF Publish
    <2>2. boardOf[s] \in OpenBoards /\ Seat(boardOf[s], s, Append(board[boardOf[s]].posts, q))
      BY <1>8, <2>1 DEF Publish, Seated
    <2>3. post'[q] # None
      <3>1. [author |-> s, kind |-> k, backers |-> {}, promoted |-> None] \in PostState
        BY DEF PostState
      <3> QED BY <1>8, <3>1 DEF Publish, PostsOK
    <2>4. /\ Append(board[boardOf[s]].posts, q) \in Seq(Post)
          /\ \A n \in DOMAIN Append(board[boardOf[s]].posts, q) :
                \/ Append(board[boardOf[s]].posts, q)[n] \in Posts(boardOf[s])
                \/ post'[Append(board[boardOf[s]].posts, q)[n]] # None
      BY <1>5, <2>2, <2>3, AppendPosts
    <2> QED BY <1>4, <2>2, <2>4
  <1>9. ASSUME NEW s \in Session, Seated(s), CloseBoard(boardOf[s])
        PROVE  b \in OpenBoards /\ p \in Posts(b)
    <2>1. boardOf[s] \in OpenBoards /\ board[boardOf[s]] \in BoardState
      BY <1>9, SeatedIsMember
    <2> QED BY <1>0, <1>9, <2>1 DEF CloseBoard, OpenBoards, BoardState, LobbyInv, BoardsOK
  <1>10. ASSUME NEW o \in Board, Expire(o) PROVE b \in OpenBoards /\ p \in Posts(b)
    <2>1. o \in OpenBoards /\ board[o] \in BoardState /\ board[o].posts # <<>>
      BY <1>10 DEF Expire, OpenBoards, LobbyInv, BoardsOK
    <2>2. CASE b = o
      <3>1. board'[o].posts = Tail(board[o].posts) /\ board[o].posts \in Seq(Post)
        BY <1>10, <2>1 DEF Expire, OpenBoards, LobbyInv, BoardsOK, BoardState
      <3> QED BY <2>1, <2>2, <3>1, TailPosts DEF Posts
    <2>3. CASE b # o
      <3>1. b \in OpenBoards /\ board'[b].posts = board[b].posts
        BY <1>10, <2>3 DEF Expire, OpenBoards, LobbyInv, BoardsOK
      <3> QED BY <1>0, <3>1
    <2> QED BY <2>2, <2>3
  <1>11. CASE Forget
    BY <1>11 DEF Forget, OpenBoards
  <1>12. CASE UNCHANGED <<board, boardOf>>
    BY <1>12 DEF OpenBoards, Posts
  <1> QED BY <1>1, <1>2, <1>3, <1>6, <1>7, <1>8, <1>9, <1>10, <1>11, <1>12
          DEF LobbyNext, LobbyCalls, Mark, lobbyVars

(* Posts keep their type and none that is there goes away. *)
LEMMA PostsTyped ==
    LobbyInv /\ PostsOK /\ [LobbyNext]_lobbyVars =>
        /\ post' \in [Post -> PostState \cup {None}]
        /\ \A p \in Post : post[p] # None => post'[p] # None
  <1> SUFFICES ASSUME LobbyInv, PostsOK, [LobbyNext]_lobbyVars
               PROVE  /\ post' \in [Post -> PostState \cup {None}]
                      /\ \A p \in Post : post[p] # None => post'[p] # None
    OBVIOUS
  <1> USE DEF PostsOK
  <1>1. ASSUME NEW s \in Session, NEW p \in Post, Corroborate(s, p)
        PROVE  /\ post' \in [Post -> PostState \cup {None}]
               /\ \A q \in Post : post[q] # None => post'[q] # None
    <2>1. boardOf[s] \in OpenBoards /\ p \in Posts(boardOf[s])
      BY <1>1 DEF Corroborate, Seated
    <2>2. post[p] \in PostState
      BY <2>1
    <2>3. [post[p] EXCEPT !.backers = post[p].backers \cup {s}] \in PostState
      BY <2>2 DEF PostState
    <2>4. post' = [post EXCEPT ![p] = [post[p] EXCEPT !.backers = post[p].backers \cup {s}]]
      BY <1>1 DEF Corroborate
    <2> QED BY <2>3, <2>4, LobbyAssumption
  <1>2. ASSUME NEW s \in Session, NEW p \in Post, NEW k \in {"failure", "discovery"},
               Publish(s, p, k)
        PROVE  /\ post' \in [Post -> PostState \cup {None}]
               /\ \A q \in Post : post[q] # None => post'[q] # None
    <2>1. [author |-> s, kind |-> k, backers |-> {}, promoted |-> None] \in PostState
      BY DEF PostState
    <2> QED BY <1>2, <2>1 DEF Publish
  <1>3. ASSUME NEW s \in Session,
               \/ Return(s) \/ Leave(s) \/ CloseBoard(boardOf[s])
               \/ \E t \in Topic : Join(s, t) \/ \E b \in Board : Create(s, t, b)
        PROVE  post' = post
    BY <1>3 DEF Return, Leave, CloseBoard, Join, Create
  <1>4. ASSUME Forget \/ (\E b \in Board : Expire(b)) \/ UNCHANGED lobbyVars
        PROVE  post' = post
    BY <1>4 DEF Forget, Expire, lobbyVars
  <1>5. ASSUME NEW p \in Post, NEW i \in Item, post[p] # None, Mark(p, i)
        PROVE  /\ post' \in [Post -> PostState \cup {None}]
               /\ \A q \in Post : post[q] # None => post'[q] # None
    <2>1. [post[p] EXCEPT !.promoted = i] \in PostState
      BY <1>5 DEF PostState
    <2>2. post' = [post EXCEPT ![p] = [post[p] EXCEPT !.promoted = i]]
      BY <1>5 DEF Mark
    <2> QED BY <2>1, <2>2, LobbyAssumption
  <1> QED BY <1>1, <1>2, <1>3, <1>4, <1>5 DEF LobbyNext, LobbyCalls

LEMMA PostsKept == LobbyInv /\ PostsOK /\ [LobbyNext]_lobbyVars => PostsOK'
  <1> SUFFICES ASSUME LobbyInv, PostsOK, [LobbyNext]_lobbyVars,
                      NEW b \in OpenBoards', NEW p \in Posts(b)'
               PROVE  post'[p] # None
    BY PostsTyped DEF PostsOK
  <1>1. CASE b \in OpenBoards /\ p \in Posts(b)
    <2>1. p \in Post
      BY <1>1 DEF Posts, OpenBoards, LobbyInv, BoardsOK, BoardState
    <2> QED BY <1>1, <2>1, PostsTyped DEF PostsOK
  <1> QED BY <1>1, PostsStay

(* Boards, posts and the look-up by session keep their types: in particular *)
(* nobody corroborates a post that was not published (lobby/store.py).      *)
THEOREM LobbyTypes == LobbySpec => []LobbyTypeOK
  <1>1. LobbyInit => PostsOK
    BY DEF LobbyInit, PostsOK, OpenBoards
  <1>2. LobbyInv /\ PostsOK => LobbyTypeOK
    BY DEF LobbyInv, BoardsOK, PostsOK, LobbyTypeOK
  <1> QED BY <1>1, <1>2, PostsKept, LobbyAlways, PTL DEF LobbySpec

-----------------------------------------------------------------------------
(* How the lobby changes under a session's calls.                          *)

(* What a post says and who wrote it stay, and only a mark changes what it  *)
(* was promoted as.                                                         *)
LEMMA PostsFixed ==
    ASSUME LobbyInv, PostsOK, [LobbyNext]_lobbyVars, NEW p \in Post, post[p] # None
    PROVE  /\ post'[p] # None
           /\ post'[p].author = post[p].author /\ post'[p].kind = post[p].kind
           /\ post'[p].promoted = post[p].promoted \/ \E i \in Item : Mark(p, i)
  <1>0. post[p] \in PostState /\ post' \in [Post -> PostState \cup {None}] /\ post'[p] # None
    BY PostsTyped DEF PostsOK
  <1>1. ASSUME NEW s \in Session, NEW q \in Post, Corroborate(s, q)
        PROVE  /\ post'[p].author = post[p].author /\ post'[p].kind = post[p].kind
               /\ post'[p].promoted = post[p].promoted
    BY <1>0, <1>1 DEF Corroborate, PostsOK, PostState
  <1>2. ASSUME NEW s \in Session, NEW q \in Post, NEW k \in {"failure", "discovery"},
               Publish(s, q, k)
        PROVE  post'[p] = post[p]
    BY <1>2 DEF Publish, PostsOK
  <1>3. ASSUME NEW s \in Session,
               \/ Return(s) \/ Leave(s) \/ CloseBoard(boardOf[s])
               \/ \E t \in Topic : Join(s, t) \/ \E b \in Board : Create(s, t, b)
        PROVE  post' = post
    BY <1>3 DEF Return, Leave, CloseBoard, Join, Create
  <1>4. ASSUME Forget \/ (\E b \in Board : Expire(b)) \/ UNCHANGED lobbyVars
        PROVE  post' = post
    BY <1>4 DEF Forget, Expire, lobbyVars
  <1>5. ASSUME NEW q \in Post, NEW i \in Item, Mark(q, i)
        PROVE  /\ post'[p].author = post[p].author /\ post'[p].kind = post[p].kind
               /\ q # p => post'[p] = post[p]
    BY <1>0, <1>5 DEF Mark, PostsOK, PostState
  <1> QED BY <1>0, <1>1, <1>2, <1>3, <1>4, <1>5 DEF LobbyNext, LobbyCalls

(* A board of which nothing is new but fewer posts, or whose posts are the  *)
(* same.                                                                    *)
Fewer(b) ==
    board'[b] # None =>
        \/ Posts(b)' = {} /\ board'[b].open
        \/ /\ board[b] # None
           /\ Posts(b)' \subseteq Posts(b)
           /\ board'[b].open <=> board[b].open
           /\ ~board[b].open => board'[b].posts = board[b].posts

(* A post that is new on board o. *)
Posted(o, q) ==
    /\ post[q] = None /\ post'[q] # None
    /\ o \in OpenBoards /\ o \in OpenBoards'
    /\ Posts(o)' = Posts(o) \cup {q}

LEMMA AppendedPosts ==
    ASSUME NEW s \in Seq(Post), NEW p \in Post
    PROVE  {Append(s, p)[n] : n \in DOMAIN Append(s, p)} = {s[n] : n \in DOMAIN s} \cup {p}
  <1>1. Len(s) \in Nat /\ DOMAIN s = 1..Len(s) /\ DOMAIN Append(s, p) = 1..(Len(s) + 1)
    OBVIOUS
  <1>2. Append(s, p)[Len(s) + 1] = p /\ \A n \in DOMAIN s : Append(s, p)[n] = s[n]
    OBVIOUS
  <1>3. DOMAIN Append(s, p) = DOMAIN s \cup {Len(s) + 1}
    BY <1>1
  <1> QED BY <1>2, <1>3

(* Beside a close, a step leaves closed boards and their posts alone, and   *)
(* on open ones it posts at most one new post.                              *)
LEMMA BoardSteps ==
    ASSUME LobbyInv, PostsOK,
           \/ \E s \in Session : LobbyCalls(s)
           \/ \E b \in Board : Expire(b)
           \/ Forget \/ UNCHANGED board
    PROVE  \/ \A b \in Board : Fewer(b)
           \/ \E o \in Board, q \in Post : Posted(o, q) /\ \A b \in Board \ {o} : Fewer(b)
  <1> USE LobbyAssumption
  <1>0. ASSUME NEW b \in Board, board'[b] = board[b] PROVE Fewer(b)
    BY <1>0 DEF Fewer, Posts
  <1>1. ASSUME NEW o \in OpenBoards, NEW new, board' = [board EXCEPT ![o] = new],
               new.open, new.posts = board[o].posts
        PROVE  \A b \in Board : Fewer(b)
    <2>1. board'[o] = new /\ \A b \in Board \ {o} : board'[b] = board[b]
      BY <1>1 DEF LobbyInv, BoardsOK, OpenBoards
    <2>2. Fewer(o)
      BY <1>1, <2>1 DEF Fewer, Posts, OpenBoards
    <2> QED BY <1>0, <2>1, <2>2
  <1>2. ASSUME NEW s \in Session, Return(s) \/ Leave(s)
        PROVE  \A b \in Board : Fewer(b)
    <2>1. boardOf[s] \in OpenBoards /\ board[boardOf[s]] \in BoardState
      BY <1>2, SeatedIsMember DEF Return, Leave
    <2>2. PICK new : /\ board' = [board EXCEPT ![boardOf[s]] = new]
                     /\ new.open = board[boardOf[s]].open
                     /\ new.posts = board[boardOf[s]].posts
      <3>1. CASE Return(s)
        <4> DEFINE new == [board[boardOf[s]] EXCEPT !.present = @ \cup {s}]
        <4>1. new.open = board[boardOf[s]].open /\ new.posts = board[boardOf[s]].posts
          BY <2>1 DEF BoardState
        <4>2. board' = [board EXCEPT ![boardOf[s]] = new]
          BY <3>1 DEF Return
        <4> QED BY <4>1, <4>2
      <3>2. CASE Leave(s)
        <4> DEFINE new == [board[boardOf[s]] EXCEPT !.members = @ \ {s}, !.present = @ \ {s}]
        <4>1. new.open = board[boardOf[s]].open /\ new.posts = board[boardOf[s]].posts
          BY <2>1 DEF BoardState
        <4>2. board' = [board EXCEPT ![boardOf[s]] = new]
          BY <2>1, <3>2 DEF Leave, BoardState
        <4> QED BY <4>1, <4>2
      <3> QED BY <1>2, <3>1, <3>2
    <2>3. board[boardOf[s]].open
      BY <2>1 DEF OpenBoards
    <2> QED BY <1>1, <2>1, <2>2, <2>3
  <1>3. ASSUME NEW s \in Session, NEW t \in Topic, NEW o \in Board, Create(s, t, o)
        PROVE  \A b \in Board : Fewer(b)
    <2>1. /\ board'[o].posts = <<>> /\ board'[o].open
          /\ \A b \in Board \ {o} : board'[b] = board[b]
      BY <1>3 DEF Create, LobbyInv, BoardsOK
    <2>2. Fewer(o)
      BY <2>1 DEF Fewer, Posts
    <2> QED BY <1>0, <2>1, <2>2
  <1>4. ASSUME NEW s \in Session, NEW o \in OpenBoards, NEW ps \in Seq(Post), Seat(o, s, ps)
        PROVE  /\ board'[o].posts = ps /\ o \in OpenBoards'
               /\ \A b \in Board \ {o} : board'[b] = board[b]
    <2>1. board[o] \in BoardState /\ o \in Board /\ board[o].open
      BY DEF OpenBoards, LobbyInv, BoardsOK
    <2> DEFINE new == [board[o] EXCEPT !.members = board[o].members \cup {s},
                                       !.present = board[o].present \cup {s}, !.posts = ps]
    <2>2. new.posts = ps /\ new.open /\ new \in BoardState
      BY <2>1 DEF BoardState
    <2>3. board' = [board EXCEPT ![o] = new]
      BY <1>4, <2>1 DEF Seat, BoardState
    <2> HIDE DEF new
    <2>4. board'[o] = new /\ \A b \in Board \ {o} : board'[b] = board[b]
      BY <2>1, <2>3 DEF LobbyInv, BoardsOK
    <2> QED BY <2>1, <2>2, <2>4 DEF OpenBoards
  <1>5. ASSUME NEW o \in OpenBoards PROVE board[o].posts \in Seq(Post)
    BY DEF OpenBoards, LobbyInv, BoardsOK, BoardState
  <1>6. ASSUME NEW s \in Session, NEW o \in OpenBoards, Seat(o, s, board[o].posts)
        PROVE  \A b \in Board : Fewer(b)
    <2>1. Fewer(o)
      BY <1>4, <1>5, <1>6 DEF Fewer, Posts, OpenBoards
    <2> QED BY <1>0, <1>4, <1>5, <1>6, <2>1
  <1>7. ASSUME NEW s \in Session, NEW p \in Post, NEW k \in {"failure", "discovery"},
               Publish(s, p, k)
        PROVE  \E o \in Board, q \in Post : Posted(o, q) /\ \A b \in Board \ {o} : Fewer(b)
    <2>1. PICK o \in OpenBoards : o = boardOf[s] /\ HasRoom(o, s)
      BY <1>7, SeatedIsMember DEF Publish
    <2> DEFINE ps == Append(board[o].posts, p)
    <2>2. ps \in Seq(Post) /\ Posts(o) \cup {p} = {ps[n] : n \in DOMAIN ps}
      <3>1. board[o].posts \in Seq(Post)
        BY <1>5
      <3>2. Append(board[o].posts, p) \in Seq(Post)
        BY <3>1
      <3>3. {Append(board[o].posts, p)[n] : n \in DOMAIN Append(board[o].posts, p)}
              = {board[o].posts[n] : n \in DOMAIN board[o].posts} \cup {p}
        BY <3>1, AppendedPosts
      <3> QED BY <3>2, <3>3, Zenon DEF Posts
    <2>3. Seat(o, s, ps)
      BY <1>7, <2>1 DEF Publish
    <2> HIDE DEF ps
    <2>4. /\ board'[o].posts = ps /\ o \in OpenBoards' /\ Posts(o)' = Posts(o) \cup {p}
          /\ \A b \in Board \ {o} : board'[b] = board[b]
      <3>1. /\ board'[o].posts = ps /\ o \in OpenBoards'
            /\ \A b \in Board \ {o} : board'[b] = board[b]
        BY <1>4, <2>2, <2>3
      <3>2. Posts(o)' = {ps[n] : n \in DOMAIN ps}
        BY <3>1 DEF Posts
      <3> QED BY <2>2, <3>1, <3>2
    <2>5. post[p] = None /\ post'[p] # None
      <3>1. [author |-> s, kind |-> k, backers |-> {}, promoted |-> None] \in PostState
        BY DEF PostState
      <3> QED BY <1>7, <3>1 DEF Publish, PostsOK
    <2>6. Posted(o, p) /\ o \in Board
      BY <2>4, <2>5 DEF Posted, OpenBoards
    <2> QED BY <1>0, <2>4, <2>6
  <1>8. ASSUME NEW o \in Board, Expire(o) PROVE \A b \in Board : Fewer(b)
    <2>1. o \in OpenBoards /\ board[o] \in BoardState /\ board[o].posts # <<>>
      BY <1>8 DEF Expire, OpenBoards, LobbyInv, BoardsOK
    <2>2. /\ board'[o].posts = Tail(board[o].posts) /\ board'[o].open
          /\ \A b \in Board \ {o} : board'[b] = board[b]
      BY <1>8, <2>1 DEF Expire, OpenBoards, LobbyInv, BoardsOK, BoardState
    <2>3. Posts(o)' \subseteq Posts(o)
      BY <1>5, <2>1, <2>2, TailPosts DEF Posts
    <2>4. Fewer(o)
      BY <2>1, <2>2, <2>3 DEF Fewer, OpenBoards
    <2> QED BY <1>0, <2>2, <2>4
  <1>9. CASE Forget
    BY <1>9 DEF Forget, Fewer
  <1>10. CASE UNCHANGED board
    BY <1>0, <1>10
  <1>11. ASSUME NEW s \in Session, NEW t \in Topic, Join(s, t) PROVE \A b \in Board : Fewer(b)
    BY <1>6, <1>11 DEF Join
  <1>12. ASSUME NEW s \in Session, NEW p \in Post, Corroborate(s, p)
         PROVE  \A b \in Board : Fewer(b)
    BY <1>6, <1>12 DEF Corroborate, Seated
  <1> QED BY <1>2, <1>3, <1>7, <1>8, <1>9, <1>10, <1>11, <1>12 DEF LobbyCalls

-----------------------------------------------------------------------------
(* Chains, task lists and types.                                           *)

LEMMA SupersedingTip ==
    ASSUME NEW s \in Seq(Nat), NEW b \in Nat, NEW n \in Nat
    PROVE  /\ Superseding(s, b, n) \in Seq(Nat)
           /\ On(Superseding(s, b, n)) \subseteq On(s) \cup {n}
           /\ s # <<>> => Superseding(s, b, n) # <<>>
           /\ b \in On(s) => Tip(Superseding(s, b, n)) = n
  <1>1. CASE b \notin On(s)
    BY <1>1 DEF Superseding
  <1>2. CASE b \in On(s)
    <2> DEFINE i == CHOOSE i \in DOMAIN s : s[i] = b
               t == SubSeq(s, 1, i)
    <2>0. i \in DOMAIN s
      BY <1>2 DEF On
    <2>1. i \in 1..Len(s) /\ DOMAIN s = 1..Len(s) /\ i \in Nat
      BY <2>0
    <2>2. \A j \in 1..i : s[j] \in Nat
      BY <2>1
    <2>3. Superseding(s, b, n) = Append(t, n)
      BY <1>2 DEF Superseding
    <2> HIDE DEF i
    <2>4. t \in Seq(Nat) /\ Len(t) = i /\ \A j \in 1..i : t[j] = s[j]
      <3>1. i \in Int /\ 1 \in Int
        BY <2>1
      <3>2. /\ SubSeq(s, 1, i) \in Seq(Nat)
            /\ Len(SubSeq(s, 1, i)) = IF 1 <= i THEN i - 1 + 1 ELSE 0
            /\ \A j \in 1..i - 1 + 1 : SubSeq(s, 1, i)[j] = s[1 + j - 1]
        BY <2>2, <3>1, SubSeqProperties
      <3> QED BY <3>2, <2>1
    <2> HIDE DEF t
    <2>5. /\ Append(t, n) \in Seq(Nat) /\ Len(Append(t, n)) = i + 1
          /\ \A j \in 1..i : Append(t, n)[j] = s[j]
          /\ Append(t, n)[i + 1] = n
      BY <2>4, AppendProperties
    <2>6. On(Append(t, n)) \subseteq On(s) \cup {n}
      <3> SUFFICES ASSUME NEW j \in 1..(i + 1) PROVE Append(t, n)[j] \in On(s) \cup {n}
        BY <2>5 DEF On
      <3>1. CASE j \in 1..i
        <4>1. j \in DOMAIN s
          BY <2>1, <3>1
        <4> QED BY <2>5, <3>1, <4>1 DEF On
      <3>2. CASE j = i + 1
        BY <2>5, <3>2
      <3>3. j \in 1..i \/ j = i + 1
        <4>1. i \in Nat
          BY <2>1
        <4> QED BY <4>1
      <3> QED BY <3>1, <3>2, <3>3
    <2>7. Append(t, n) # <<>> /\ Tip(Append(t, n)) = n
      BY <2>1, <2>5 DEF Tip
    <2> QED BY <1>2, <2>3, <2>5, <2>6, <2>7
  <1> QED BY <1>1, <1>2

Writes(t) == t.do \in {"write", "report"}

(* A task is one a caller may have: its ids are among the n given out, its  *)
(* post is among the posts ps, and it reports a failure as its author's.    *)
TaskOK(t, n, ps) ==
    /\ t \in Task
    /\ t.do # "mark" => t.session \in Session
    /\ t.do # "end" => t.item \in 1..n
    /\ t.do = "mark" => t.post # None
    /\ t.post # None => ps[t.post] # None
    /\ Writes(t) /\ t.post # None /\ ps[t.post].kind = "failure" =>
          t.session = ps[t.post].author

TodoOK ==
    /\ todo \in [Caller -> Seq(Task)]
    /\ \A c \in Caller : \A n \in DOMAIN todo[c] : TaskOK(todo[c][n], issued, post)

LedgerOK ==
    /\ account \in [Session -> Seq(Account)]
    /\ chain \in [Session -> Seq(Nat)]
    /\ \A s \in Session : On(chain[s]) \subseteq 1..Len(account[s])
    /\ stored \in [Item -> Session \cup {None}]
    /\ issued \in 0..MaxItems
    /\ \A s \in Session : (\E i \in Item : <<s, i>> \in logged) \/ s \in ended => Started(s)

ProgressOK ==
    /\ read \in [Caller -> Account \cup {None}]
    /\ base \in [Caller -> Nat]
    /\ \A c \in Caller : base[c] # 0 => read[c] # None
    /\ \A c \in Caller : read[c] # None =>
          ~Idle(c) /\ Now(c).do \in {"log", "end"} /\ Started(Now(c).session)

TypeInv == LobbyInv /\ PostsOK /\ LedgerOK /\ TodoOK /\ ProgressOK

LEMMA NowOK ==
    ASSUME TodoOK, NEW c \in Caller, ~Idle(c)
    PROVE  /\ 1 \in DOMAIN todo[c] /\ Now(c) = todo[c][1]
           /\ TaskOK(Now(c), issued, post)
           /\ todo[c] \in Seq(Task) /\ Len(todo[c]) \in Nat /\ DOMAIN todo[c] = 1..Len(todo[c])
  BY DEF TodoOK, Idle, Now

(* What is left of a list when its first task is done. *)
LEMMA NextTodo ==
    ASSUME TodoOK, NEW c \in Caller, ~Idle(c), Next1(c)
    PROVE  /\ todo' \in [Caller -> Seq(Task)]
           /\ \A d \in Caller \ {c} : todo'[d] = todo[d]
           /\ \A n \in DOMAIN todo'[c] :
                 n \in Nat \ {0} /\ n + 1 \in DOMAIN todo[c] /\ todo'[c][n] = todo[c][n + 1]
  <1>1. todo[c] \in Seq(Task) /\ todo[c] # <<>>
    BY DEF TodoOK, Idle
  <1>2. /\ Tail(todo[c]) \in Seq(Task)
        /\ \A n \in DOMAIN Tail(todo[c]) :
              n \in Nat \ {0} /\ n + 1 \in DOMAIN todo[c] /\ Tail(todo[c])[n] = todo[c][n + 1]
    BY <1>1
  <1>3. todo'[c] = Tail(todo[c])
    BY DEF Next1, TodoOK
  <1> QED BY <1>2, <1>3 DEF Next1, TodoOK

LEMMA DropTodo ==
    ASSUME TodoOK, NEW c \in Caller, Drop(c)
    PROVE  /\ todo' \in [Caller -> Seq(Task)]
           /\ \A d \in Caller \ {c} : todo'[d] = todo[d]
           /\ todo'[c] = <<>> /\ DOMAIN todo'[c] = {}
  BY DEF Drop, TodoOK

(* A report that is written is left to be logged. *)
LEMMA LogTodo ==
    ASSUME TodoOK, NEW c \in Caller, ~Idle(c), NEW u \in Task,
           todo' = [todo EXCEPT ![c] = <<u>> \o Tail(@)]
    PROVE  /\ todo' \in [Caller -> Seq(Task)]
           /\ \A d \in Caller \ {c} : todo'[d] = todo[d]
           /\ DOMAIN todo'[c] = DOMAIN todo[c]
           /\ todo'[c][1] = u
           /\ \A n \in DOMAIN todo[c] \ {1} : todo'[c][n] = todo[c][n]
  <1>1. todo[c] \in Seq(Task) /\ todo[c] # <<>>
    BY DEF TodoOK, Idle
  <1>2. /\ <<u>> \o Tail(todo[c]) \in Seq(Task)
        /\ DOMAIN (<<u>> \o Tail(todo[c])) = DOMAIN todo[c]
        /\ (<<u>> \o Tail(todo[c]))[1] = u
        /\ \A n \in DOMAIN todo[c] \ {1} : (<<u>> \o Tail(todo[c]))[n] = todo[c][n]
    BY <1>1
  <1>3. todo'[c] = <<u>> \o Tail(todo[c])
    BY DEF TodoOK
  <1> QED BY <1>2, <1>3 DEF TodoOK

(* A task stays one when ids are given out and posts are added. *)
LEMMA TaskStays ==
    ASSUME LobbyInv, PostsOK, [LobbyNext]_lobbyVars, NEW i \in Nat, NEW j \in Nat, i <= j,
           NEW t, TaskOK(t, i, post)
    PROVE  TaskOK(t, j, post')
  <1>1. t \in Task
    BY DEF TaskOK
  <1>2. t.post \in Post \cup {None}
    BY <1>1 DEF Task
  <1>3. CASE t.post = None
    BY <1>3 DEF TaskOK
  <1>4. CASE t.post \in Post /\ t.post # None
    <2>1. post[t.post] # None
      BY <1>4 DEF TaskOK
    <2>2. /\ post'[t.post] # None /\ post'[t.post].author = post[t.post].author
          /\ post'[t.post].kind = post[t.post].kind
      BY <1>4, <2>1, PostsFixed
    <2> QED BY <1>4, <2>2 DEF TaskOK
  <1> QED BY <1>2, <1>3, <1>4

-----------------------------------------------------------------------------
(* Types, over the steps.                                                  *)

LEMMA LobbySteps ==
    ASSUME TypeInv, [Next]_vars
    PROVE  [LobbyNext]_lobbyVars
  <1>1. CASE LobbyCall
    BY <1>1 DEF LobbyCall, LobbyNext
  <1>2. ASSUME NEW c \in Caller, NEW s \in Session, Close(c, s) PROVE LobbyNext
    BY <1>2 DEF Close, LobbyNext
  <1>3. ASSUME NEW c \in Caller, MarkStep(c) PROVE LobbyNext
    <2>1. TaskOK(Now(c), issued, post) /\ Now(c).do = "mark" /\ Mark(Now(c).post, Now(c).item)
      BY <1>3, NowOK DEF MarkStep, TypeInv
    <2>2. Now(c).post \in Post /\ post[Now(c).post] # None /\ Now(c).item \in Item
      <3>1. issued \in 0..MaxItems /\ MaxItems \in Nat
        BY SessionAssumption DEF TypeInv, LedgerOK
      <3>2. Now(c).item \in 1..issued /\ Now(c) \in Task /\ Now(c).post # None
            /\ post[Now(c).post] # None
        BY <2>1 DEF TaskOK
      <3> QED BY <3>1, <3>2, SessionAssumption DEF Task
    <2> QED BY <2>1, <2>2 DEF LobbyNext
  <1>4. CASE SessionStep \/ UNCHANGED vars
    BY <1>4 DEF SessionStep, vars
  <1>5. ASSUME NEW c \in Caller, WriteStep(c) \/ CallFails(c) PROVE UNCHANGED lobbyVars
    BY <1>5 DEF WriteStep, CallFails
  <1>6. ASSUME NEW c \in Caller, NEW s \in Session, NEW p \in Post, PromotePost(c, s, p)
        PROVE  UNCHANGED lobbyVars
    BY <1>6 DEF PromotePost
  <1>7. CASE Restart
    BY <1>7 DEF Restart, LobbyNext
  <1>8. ASSUME NEW b \in Board, Expire(b) PROVE LobbyNext
    BY <1>8 DEF LobbyNext
  <1> QED BY <1>1, <1>2, <1>3, <1>4, <1>5, <1>6, <1>7, <1>8 DEF Next

LEMMA TaskForms ==
    ASSUME NEW i \in Item, NEW s \in Session, NEW p \in Post \cup {None}
    PROVE  /\ {WriteTask(i, s, p), ReportTask(i, s, p), LogTask(i, s), EndTask(s)} \subseteq Task
           /\ p # None => MarkTask(p, i) \in Task
  BY DEF Task, WriteTask, ReportTask, LogTask, EndTask, MarkTask

(* The records of a new call have ids of their own, and what it marks it    *)
(* has stored before.                                                       *)
FreshTasks(tasks, i) ==
    /\ \A m \in DOMAIN tasks : Writes(tasks[m]) => tasks[m].item \notin 1..i
    /\ \A l, m \in DOMAIN tasks :
          Writes(tasks[l]) /\ Writes(tasks[m]) /\ tasks[l].item = tasks[m].item => l = m
    /\ \A n \in DOMAIN tasks : tasks[n].do = "mark" =>
          \E m \in DOMAIN tasks : /\ m < n /\ Writes(tasks[m])
                                  /\ tasks[m].item = tasks[n].item
                                  /\ tasks[m].post = tasks[n].post

(* The tasks of a new call are tasks. *)
GoodTasks(tasks, n, ps) ==
    /\ tasks \in Seq(Task)
    /\ \A m \in DOMAIN tasks : TaskOK(tasks[m], n, ps)

LEMMA ThreeTasks ==
    ASSUME NEW x, NEW y, NEW z, NEW n, NEW ps,
           TaskOK(x, n, ps), TaskOK(y, n, ps), TaskOK(z, n, ps)
    PROVE  GoodTasks(<<x, y, z>>, n, ps)
  <1>1. {x, y, z} \subseteq Task
    BY DEF TaskOK
  <1>2. <<x, y, z>> \in Seq(Task) /\ DOMAIN <<x, y, z>> = {1, 2, 3}
    BY <1>1
  <1> QED BY <1>2 DEF GoodTasks

LEMMA ReportTasks ==
    ASSUME TypeInv, NEW s \in Session, issued + 1 <= MaxItems
    PROVE  GoodTasks(<<ReportTask(issued + 1, s, None)>>, issued + 1, post)
  <1>1. issued + 1 \in Item /\ issued + 1 \in 1..(issued + 1)
    BY SessionAssumption DEF TypeInv, LedgerOK
  <1>2. ReportTask(issued + 1, s, None) \in Task
    BY <1>1, TaskForms
  <1>3. TaskOK(ReportTask(issued + 1, s, None), issued + 1, post)
    BY <1>1, <1>2 DEF TaskOK, ReportTask
  <1> QED BY <1>2, <1>3 DEF GoodTasks

LEMMA EndTasks ==
    ASSUME TypeInv, NEW s \in Session
    PROVE  GoodTasks(<<EndTask(s)>>, issued + 0, post)
  <1>1. EndTask(s) \in Task
    BY DEF Task, EndTask
  <1>2. TaskOK(EndTask(s), issued + 0, post)
    BY <1>1 DEF TaskOK, EndTask, Writes
  <1> QED BY <1>1, <1>2 DEF GoodTasks

(* A post of an open board was published, by a session. *)
LEMMA PostOnBoard ==
    ASSUME LobbyInv, PostsOK, NEW b \in OpenBoards, NEW p \in Posts(b)
    PROVE  /\ p \in Post /\ p # None /\ post[p] # None /\ post[p] \in PostState
           /\ post[p].author \in Session
  <1>1. p \in Post
    BY DEF Posts, OpenBoards, LobbyInv, BoardsOK, BoardState
  <1>2. post[p] \in PostState /\ post[p] # None
    BY <1>1 DEF PostsOK
  <1> QED BY <1>1, <1>2, SharedAssumption DEF PostState

LEMMA PromotionTasks ==
    ASSUME TypeInv, NEW s \in Session, NEW b \in OpenBoards, NEW p \in Posts(b),
           issued + 1 <= MaxItems
    PROVE  GoodTasks(PromoteTasks(s, p, issued + 1), issued + 1, post)
  <1>1. issued + 1 \in Item /\ issued + 1 \in 1..(issued + 1)
    BY SessionAssumption DEF TypeInv, LedgerOK
  <1>2. p \in Post /\ p # None /\ post[p] # None /\ post[p].author \in Session
    BY PostOnBoard DEF TypeInv
  <1> DEFINE r == ReportTask(issued + 1, post[p].author, p)
             w == WriteTask(issued + 1, s, p)
             k == MarkTask(p, issued + 1)
             l == LogTask(issued + 1, s)
  <1>3. {r, w, k, l} \subseteq Task
    BY <1>1, <1>2, TaskForms
  <1>4. /\ TaskOK(r, issued + 1, post) /\ TaskOK(k, issued + 1, post)
        /\ TaskOK(l, issued + 1, post)
        /\ post[p].kind # "failure" => TaskOK(w, issued + 1, post)
    BY <1>1, <1>2, <1>3
       DEF TaskOK, Writes, ReportTask, WriteTask, MarkTask, LogTask
  <1> HIDE DEF r, w, k, l
  <1>5. PromoteTasks(s, p, issued + 1) = IF post[p].kind = "failure" THEN <<r, k, l>> ELSE <<w, k, l>>
    BY DEF PromoteTasks, r, w, k, l
  <1>6. CASE post[p].kind = "failure"
    BY <1>4, <1>5, <1>6, ThreeTasks
  <1>7. CASE post[p].kind # "failure"
    BY <1>4, <1>5, <1>7, ThreeTasks
  <1> QED BY <1>6, <1>7

(* The failures of a board that is closed, and their reports. *)
ClosingTasks(b, at, s) ==
    [m \in DOMAIN at |-> ReportTask(issued + m, post[board[b].posts[at[m]]].author,
                                    board[b].posts[at[m]])]
      \o [m \in DOMAIN at |-> LogTask(issued + m, s)]

LEMMA CloseEnumerates ==
    ASSUME TypeInv, NEW b \in OpenBoards, NEW at \in InOrder(UnpromotedFailures(b))
    PROVE  \E n \in Nat :
              /\ DOMAIN at = 1..n /\ Cardinality(DOMAIN at) = n
              /\ n = Cardinality(UnpromotedFailures(b))
              /\ IsFiniteSet(UnpromotedFailures(b))
              /\ at \in [1..n -> UnpromotedFailures(b)]
              /\ \A l, m \in 1..n : l < m => at[l] < at[m]
              /\ UnpromotedFailures(b) \subseteq 1..Len(board[b].posts)
  <1>1. board[b].posts \in Seq(Post)
    BY DEF TypeInv, OpenBoards, LobbyInv, BoardsOK, BoardState
  <1>2. UnpromotedFailures(b) \subseteq 1..Len(board[b].posts) /\ Len(board[b].posts) \in Nat
    BY <1>1 DEF UnpromotedFailures
  <1>3. IsFiniteSet(1..Len(board[b].posts))
    BY <1>2, FS_Interval
  <1>4. IsFiniteSet(UnpromotedFailures(b))
    BY <1>2, <1>3, FS_Subset
  <1> DEFINE n == Cardinality(UnpromotedFailures(b))
  <1>5. n \in Nat
    BY <1>4, FS_CardinalityType
  <1>6. at \in [1..n -> UnpromotedFailures(b)] /\ \A l, m \in 1..n : l < m => at[l] < at[m]
    BY DEF InOrder
  <1>7. Cardinality(1..n) = n
    BY <1>5, FS_Interval
  <1> QED BY <1>2, <1>4, <1>5, <1>6, <1>7

(* What Close hands over: first the reports, then the links. *)
LEMMA CloseTasks ==
    ASSUME TypeInv, NEW s \in Session, NEW b \in OpenBoards,
           NEW at \in InOrder(UnpromotedFailures(b)), issued + Cardinality(DOMAIN at) <= MaxItems
    PROVE  \E n \in Nat :
              /\ n = Cardinality(DOMAIN at)
              /\ DOMAIN at = 1..n
              /\ DOMAIN ClosingTasks(b, at, s) = 1..(n + n)
              /\ \A m \in 1..n :
                    /\ ClosingTasks(b, at, s)[m] =
                          ReportTask(issued + m, post[board[b].posts[at[m]]].author,
                                     board[b].posts[at[m]])
                    /\ ClosingTasks(b, at, s)[n + m] = LogTask(issued + m, s)
                    /\ board[b].posts[at[m]] \in Posts(b)
              /\ GoodTasks(ClosingTasks(b, at, s), issued + n, post)
              /\ FreshTasks(ClosingTasks(b, at, s), issued)
  <1>1. PICK n \in Nat : /\ DOMAIN at = 1..n /\ Cardinality(DOMAIN at) = n
                         /\ at \in [1..n -> UnpromotedFailures(b)]
    BY CloseEnumerates
  <1> DEFINE failed(m) == board[b].posts[at[m]]
             reports == [m \in 1..n |-> ReportTask(issued + m, post[failed(m)].author, failed(m))]
             links == [m \in 1..n |-> LogTask(issued + m, s)]
  <1>2. ASSUME NEW m \in 1..n PROVE failed(m) \in Posts(b)
    BY <1>1 DEF UnpromotedFailures, Posts
  <1>3. ASSUME NEW m \in 1..n
        PROVE  /\ issued + m \in Item /\ issued + m \in 1..(issued + n)
               /\ failed(m) \in Post /\ failed(m) # None /\ post[failed(m)] # None
               /\ post[failed(m)].author \in Session
    <2>1. issued \in Nat /\ issued + n <= MaxItems /\ MaxItems \in Nat
      BY <1>1, SessionAssumption DEF TypeInv, LedgerOK
    <2>2. issued + m \in Item /\ issued + m \in 1..(issued + n)
      BY <2>1, SessionAssumption
    <2> QED BY <1>2, <2>2, PostOnBoard DEF TypeInv
  <1>4. ASSUME NEW m \in 1..n
        PROVE  TaskOK(reports[m], issued + n, post) /\ TaskOK(links[m], issued + n, post)
    <2>1. reports[m] \in Task /\ links[m] \in Task
      BY <1>3, TaskForms
    <2>2. /\ reports[m] = ReportTask(issued + m, post[failed(m)].author, failed(m))
          /\ links[m] = LogTask(issued + m, s)
      OBVIOUS
    <2> HIDE DEF failed, reports, links
    <2> QED BY <1>3, <2>1, <2>2 DEF TaskOK, Writes, ReportTask, LogTask
  <1>5. reports \in [1..n -> Task] /\ links \in [1..n -> Task]
    BY <1>4 DEF TaskOK
  <1>6. ClosingTasks(b, at, s) = reports \o links
    BY <1>1 DEF ClosingTasks
  <1>7. \A m \in 1..n : /\ reports[m] = ReportTask(issued + m, post[failed(m)].author, failed(m))
                        /\ links[m] = LogTask(issued + m, s)
    OBVIOUS
  <1> HIDE DEF reports, links, failed
  <1>8. /\ reports \in Seq(Task) /\ links \in Seq(Task)
        /\ Len(reports) = n /\ Len(links) = n
    BY <1>5
  <1>9. /\ reports \o links \in Seq(Task) /\ Len(reports \o links) = n + n
        /\ \A j \in 1..(n + n) : (reports \o links)[j] =
              IF j <= n THEN reports[j] ELSE links[j - n]
    BY <1>8, ConcatProperties
  <1>10. DOMAIN (reports \o links) = 1..(n + n)
    BY <1>9
  <1>11. \A m \in 1..n : (reports \o links)[m] = reports[m] /\ (reports \o links)[n + m] = links[m]
    <2> TAKE m \in 1..n
    <2>1. m \in 1..(n + n) /\ n + m \in 1..(n + n) /\ m <= n /\ ~(n + m <= n) /\ n + m - n = m
      OBVIOUS
    <2>2. (reports \o links)[m] = reports[m]
      BY <1>9, <2>1
    <2>3. (reports \o links)[n + m] = links[n + m - n]
      BY <1>9, <2>1
    <2> QED BY <2>1, <2>2, <2>3
  <1>12. GoodTasks(reports \o links, issued + n, post)
    <2> SUFFICES ASSUME NEW j \in 1..(n + n)
                 PROVE  TaskOK((reports \o links)[j], issued + n, post)
      BY <1>9, <1>10 DEF GoodTasks
    <2>1. CASE j <= n
      <3>1. j \in 1..n
        BY <2>1
      <3> QED BY <1>4, <1>9, <2>1, <3>1
    <2>2. CASE ~(j <= n)
      <3>1. j - n \in 1..n
        BY <2>2
      <3> QED BY <1>4, <1>9, <2>2, <3>1
    <2> QED BY <2>1, <2>2
  <1>13. \A m \in 1..n : failed(m) \in Posts(b)
    BY <1>2
  <1>14. FreshTasks(reports \o links, issued)
    <2>1. ASSUME NEW j \in 1..(n + n)
          PROVE  /\ (reports \o links)[j].do # "mark"
                 /\ Writes((reports \o links)[j]) => (reports \o links)[j].item = issued + j
                                                      /\ j \in 1..n
      <3>1. CASE j <= n
        <4>1. j \in 1..n
          BY <3>1
        <4>2. (reports \o links)[j] = ReportTask(issued + j, post[failed(j)].author, failed(j))
          BY <1>7, <1>11, <4>1
        <4> QED BY <4>1, <4>2 DEF ReportTask
      <3>2. CASE ~(j <= n)
        <4>1. j - n \in 1..n
          BY <3>2
        <4>2. (reports \o links)[j] = LogTask(issued + (j - n), s)
          BY <1>7, <1>9, <3>2, <4>1
        <4> QED BY <4>2 DEF LogTask, Writes
      <3> QED BY <3>1, <3>2
    <2>2. issued \in Nat
      BY DEF TypeInv, LedgerOK
    <2>3. \A j \in 1..n : issued + j \notin 1..issued
      BY <2>2
    <2>4. PICK q : q = reports \o links
      OBVIOUS
    <2>5. \A j \in DOMAIN q : q[j].do # "mark" /\ (Writes(q[j]) => q[j].item = issued + j /\ j \in 1..n)
      BY <1>10, <2>1, <2>4
    <2>6. \A j, l \in 1..n : issued + j = issued + l => j = l
      BY <2>2
    <2>7. FreshTasks(q, issued)
      <3>1. \A m \in DOMAIN q : Writes(q[m]) => q[m].item \notin 1..issued
        BY <2>3, <2>5
      <3>2. ASSUME NEW l \in DOMAIN q, NEW m \in DOMAIN q,
                   Writes(q[l]), Writes(q[m]), q[l].item = q[m].item
            PROVE  l = m
        <4>1. l \in 1..n /\ m \in 1..n /\ issued + l = issued + m
          BY <2>5, <3>2
        <4> QED BY <2>6, <4>1
      <3>3. \A m \in DOMAIN q : q[m].do # "mark"
        BY <2>5
      <3> QED BY <3>1, <3>2, <3>3, Zenon DEF FreshTasks
    <2> QED BY <2>4, <2>7
  <1>15. PICK q : q = reports \o links
    OBVIOUS
  <1>16. /\ ClosingTasks(b, at, s) = q /\ DOMAIN q = 1..(n + n)
         /\ GoodTasks(q, issued + n, post) /\ FreshTasks(q, issued)
    BY <1>6, <1>10, <1>12, <1>14, <1>15
  <1>17. \A m \in 1..n :
            /\ q[m] = ReportTask(issued + m, post[board[b].posts[at[m]]].author, board[b].posts[at[m]])
            /\ q[n + m] = LogTask(issued + m, s)
            /\ board[b].posts[at[m]] \in Posts(b)
    BY <1>7, <1>11, <1>13, <1>15 DEF failed
  <1> QED BY <1>1, <1>16, <1>17

LEMMA FreshOnes ==
    ASSUME NEW i \in Nat, NEW s, NEW p
    PROVE  /\ FreshTasks(<<ReportTask(i + 1, s, None)>>, i)
           /\ FreshTasks(<<EndTask(s)>>, i)
           /\ FreshTasks(PromoteTasks(s, p, i + 1), i)
  <1>0. i + 1 \notin 1..i
    OBVIOUS
  <1>1. FreshTasks(<<ReportTask(i + 1, s, None)>>, i)
    <2>1. Writes(ReportTask(i + 1, s, None)) /\ ReportTask(i + 1, s, None).do # "mark"
          /\ ReportTask(i + 1, s, None).item = i + 1
      BY DEF ReportTask, Writes
    <2> QED BY <1>0, <2>1 DEF FreshTasks
  <1>2. FreshTasks(<<EndTask(s)>>, i)
    <2>1. ~Writes(EndTask(s)) /\ EndTask(s).do # "mark"
      BY DEF EndTask, Writes
    <2> QED BY <2>1 DEF FreshTasks
  <1>3. ASSUME NEW x, NEW y, NEW z, Writes(x), x.item = i + 1, y.do = "mark",
               y.item = x.item, y.post = x.post, z.do = "log"
        PROVE  FreshTasks(<<x, y, z>>, i)
    <2>1. ~Writes(y) /\ ~Writes(z) /\ x.do # "mark" /\ z.do # "mark"
      BY <1>3 DEF Writes
    <2>2. DOMAIN <<x, y, z>> = {1, 2, 3}
      OBVIOUS
    <2> QED BY <1>0, <1>3, <2>1, <2>2 DEF FreshTasks
  <1> DEFINE w == WriteTask(i + 1, s, p)
             r == ReportTask(i + 1, post[p].author, p)
             k == MarkTask(p, i + 1)
             l == LogTask(i + 1, s)
  <1>4. /\ Writes(w) /\ w.item = i + 1 /\ w.post = p
        /\ Writes(r) /\ r.item = i + 1 /\ r.post = p
        /\ k.do = "mark" /\ k.item = i + 1 /\ k.post = p
        /\ l.do = "log"
    BY DEF WriteTask, ReportTask, MarkTask, LogTask, Writes
  <1>5. PromoteTasks(s, p, i + 1) = IF post[p].kind = "failure" THEN <<r, k, l>> ELSE <<w, k, l>>
    BY DEF PromoteTasks
  <1> HIDE DEF w, r, k, l
  <1>6. FreshTasks(<<r, k, l>>, i) /\ FreshTasks(<<w, k, l>>, i)
    BY <1>3, <1>4
  <1> QED BY <1>1, <1>2, <1>5, <1>6

(* The calls that begin. *)
Begins(c, tasks, n) ==
    /\ n \in Nat
    /\ Assign(c, tasks, n)
    /\ GoodTasks(tasks, issued + n, post)
    /\ FreshTasks(tasks, issued)

LEMMA Assignments ==
    ASSUME TypeInv, NEW c \in Caller, NEW s \in Session,
           \/ Report(c, s) \/ End(c, s) \/ Close(c, s)
           \/ \E p \in Post : PromotePost(c, s, p)
    PROVE  \E tasks, n : Begins(c, tasks, n)
  <1>1. CASE Report(c, s)
    <2>0. issued \in Nat
      BY DEF TypeInv, LedgerOK
    <2>1. Assign(c, <<ReportTask(issued + 1, s, None)>>, 1) /\ issued + 1 <= MaxItems
      BY <1>1 DEF Report, Assign
    <2> QED BY <2>0, <2>1, ReportTasks, FreshOnes DEF Begins
  <1>2. CASE End(c, s)
    <2>1. Assign(c, <<EndTask(s)>>, 0)
      BY <1>2 DEF End
    <2>2. issued \in Nat
      BY DEF TypeInv, LedgerOK
    <2> QED BY <2>1, <2>2, EndTasks, FreshOnes DEF Begins
  <1>3. ASSUME NEW p \in Post, PromotePost(c, s, p) PROVE \E tasks, n : Begins(c, tasks, n)
    <2>1. /\ boardOf[s] \in OpenBoards /\ p \in Posts(boardOf[s])
          /\ Assign(c, PromoteTasks(s, p, issued + 1), 1)
      BY <1>3 DEF PromotePost, Seated
    <2>2. issued + 1 <= MaxItems
      BY <2>1 DEF Assign
    <2>3. GoodTasks(PromoteTasks(s, p, issued + 1), issued + 1, post)
      BY <2>1, <2>2, PromotionTasks
    <2>4. Begins(c, PromoteTasks(s, p, issued + 1), 1)
      <3>1. issued \in Nat
        BY DEF TypeInv, LedgerOK
      <3> QED BY <2>1, <2>3, <3>1, FreshOnes DEF Begins
    <2> QED BY <2>4
  <1>4. CASE Close(c, s)
    <2>0. /\ boardOf[s] \in OpenBoards
          /\ \E at \in InOrder(UnpromotedFailures(boardOf[s])) :
                Assign(c, ClosingTasks(boardOf[s], at, s), Cardinality(DOMAIN at))
      BY <1>4, Zenon DEF Close, ClosingTasks, Seated
    <2> DEFINE b == boardOf[s]
    <2>1. PICK at \in InOrder(UnpromotedFailures(b)) :
              Assign(c, ClosingTasks(b, at, s), Cardinality(DOMAIN at))
      BY <2>0
    <2>2. issued + Cardinality(DOMAIN at) <= MaxItems
      BY <2>1 DEF Assign
    <2> QED BY <2>0, <2>1, <2>2, CloseTasks DEF Begins
  <1> QED BY <1>1, <1>2, <1>3, <1>4

LEMMA BeginTypes ==
    ASSUME TypeInv, [LobbyNext]_lobbyVars, NEW c \in Caller, NEW tasks, NEW n,
           Begins(c, tasks, n)
    PROVE  LedgerOK' /\ TodoOK' /\ ProgressOK'
  <1>1. /\ issued \in Nat /\ n \in Nat /\ issued + n <= MaxItems /\ MaxItems \in Nat
        /\ issued' = issued + n
        /\ UNCHANGED <<account, chain, stored, read, base, logged, ended>>
        /\ Idle(c)
        /\ todo' = [todo EXCEPT ![c] = tasks]
    BY SessionAssumption DEF Begins, Assign, TypeInv, LedgerOK, ledger
  <1>2. LedgerOK'
    BY <1>1 DEF TypeInv, LedgerOK, Started
  <1>3. TodoOK'
    <2>1. todo' \in [Caller -> Seq(Task)] /\ todo'[c] = tasks
          /\ \A d \in Caller \ {c} : todo'[d] = todo[d]
      BY <1>1 DEF Begins, GoodTasks, TypeInv, TodoOK
    <2>2. ASSUME NEW d \in Caller, NEW m \in DOMAIN todo'[d]
          PROVE  TaskOK(todo'[d][m], issued', post')
      <3>1. CASE d = c
        <4>1. TaskOK(tasks[m], issued + n, post)
          BY <2>1, <2>2, <3>1 DEF Begins, GoodTasks
        <4>2. TaskOK(tasks[m], issued + n, post')
          BY <1>1, <4>1, TaskStays DEF TypeInv
        <4> QED BY <1>1, <2>1, <3>1, <4>2
      <3>2. CASE d # c
        <4>1. TaskOK(todo[d][m], issued, post)
          BY <2>1, <2>2, <3>2 DEF TypeInv, TodoOK
        <4>2. TaskOK(todo[d][m], issued + n, post')
          BY <1>1, <4>1, TaskStays DEF TypeInv
        <4> QED BY <1>1, <2>1, <3>2, <4>2
      <3> QED BY <3>1, <3>2
    <2> QED BY <2>1, <2>2 DEF TodoOK
  <1>4. ProgressOK'
    <2>1. read[c] = None
      BY <1>1 DEF TypeInv, ProgressOK
    <2>2. \A d \in Caller : read[d] # None => todo'[d] = todo[d]
      BY <1>1, <2>1 DEF TypeInv, TodoOK
    <2> QED BY <1>1, <2>2 DEF TypeInv, ProgressOK, Idle, Now, Started
  <1> QED BY <1>2, <1>3, <1>4

(* What a step on the list of one caller keeps of the lists. *)
LEMMA TodoTypes ==
    ASSUME TypeInv, [LobbyNext]_lobbyVars, UNCHANGED issued,
           \/ UNCHANGED todo
           \/ \E c \in Caller : Drop(c) \/ (~Idle(c) /\ Next1(c))
           \/ \E c \in Caller : /\ ~Idle(c) /\ Now(c).do = "report"
                                /\ todo' = [todo EXCEPT ![c] = <<LogTask(Now(c).item, Now(c).session)>>
                                                               \o Tail(@)]
    PROVE  TodoOK'
  <1>0. issued \in Nat /\ issued \in 0..MaxItems /\ MaxItems \in Nat
    BY SessionAssumption DEF TypeInv, LedgerOK
  <1>1. ASSUME NEW t, TaskOK(t, issued, post) PROVE TaskOK(t, issued', post')
    BY <1>0, <1>1, TaskStays DEF TypeInv
  <1>2. CASE UNCHANGED todo
    BY <1>1, <1>2 DEF TypeInv, TodoOK
  <1>3. ASSUME NEW c \in Caller, Drop(c) PROVE TodoOK'
    BY <1>1, <1>3, DropTodo DEF TypeInv, TodoOK
  <1>4. ASSUME NEW c \in Caller, ~Idle(c), Next1(c) PROVE TodoOK'
    BY <1>1, <1>4, NextTodo DEF TypeInv, TodoOK
  <1>5. ASSUME NEW c \in Caller, ~Idle(c), Now(c).do = "report",
               todo' = [todo EXCEPT ![c] = <<LogTask(Now(c).item, Now(c).session)>> \o Tail(@)]
        PROVE  TodoOK'
    <2> DEFINE u == LogTask(Now(c).item, Now(c).session)
    <2>1. TaskOK(Now(c), issued, post)
      BY <1>5, NowOK DEF TypeInv
    <2>2. Now(c).item \in 1..issued /\ Now(c).item \in Item /\ Now(c).session \in Session
      BY <1>0, <1>5, <2>1, SessionAssumption DEF TaskOK
    <2>3. u \in Task
      BY <2>2 DEF Task, LogTask
    <2>4. TaskOK(u, issued, post)
      BY <2>2, <2>3 DEF TaskOK, LogTask, Writes
    <2> HIDE DEF u
    <2>5. /\ todo' \in [Caller -> Seq(Task)]
          /\ \A d \in Caller \ {c} : todo'[d] = todo[d]
          /\ DOMAIN todo'[c] = DOMAIN todo[c]
          /\ todo'[c][1] = u
          /\ \A n \in DOMAIN todo[c] \ {1} : todo'[c][n] = todo[c][n]
      <3>1. todo' = [todo EXCEPT ![c] = <<u>> \o Tail(@)]
        BY <1>5 DEF u
      <3> QED BY <1>5, <2>3, <3>1, LogTodo DEF TypeInv
    <2>6. ASSUME NEW d \in Caller, NEW n \in DOMAIN todo'[d]
          PROVE  TaskOK(todo'[d][n], issued', post')
      <3>1. todo'[d][n] = u \/ (n \in DOMAIN todo[d] /\ todo'[d][n] = todo[d][n])
        BY <2>5
      <3> QED BY <1>1, <2>4, <3>1 DEF TypeInv, TodoOK
    <2> QED BY <2>5, <2>6 DEF TodoOK
  <1> QED BY <1>2, <1>3, <1>4, <1>5

-----------------------------------------------------------------------------
(* Accounts.                                                               *)

(* The one caller that changes a session that is not raced has read its     *)
(* account as it is.                                                        *)
Alone ==
    \A s \in Session \ raced : \A c \in Updating(s) :
        /\ Updating(s) = {c}
        /\ Current(s).active
        /\ read[c] = Changed(Current(s), Now(c))
        /\ base[c] \in {0, Tip(chain[s])}

AccountInv == TypeInv /\ Alone /\ AccountKept

LEMMA CurrentOK ==
    ASSUME TypeInv, NEW s \in Session, Started(s)
    PROVE  /\ Tip(chain[s]) \in 1..Len(account[s]) /\ Tip(chain[s]) \in On(chain[s])
           /\ Current(s) \in Account
  <1>1. chain[s] \in Seq(Nat) /\ chain[s] # <<>> /\ On(chain[s]) \subseteq 1..Len(account[s])
        /\ account[s] \in Seq(Account)
    BY DEF TypeInv, LedgerOK, Started
  <1>2. Len(chain[s]) \in DOMAIN chain[s]
    BY <1>1
  <1>3. Tip(chain[s]) \in On(chain[s])
    BY <1>2 DEF Tip, On
  <1> QED BY <1>1, <1>3 DEF Current

(* Steps that leave the accounts and what is being changed of them alone.   *)
LEMMA AccountsKept ==
    ASSUME AccountInv, UNCHANGED <<account, chain, logged, ended>>, raced \subseteq raced',
           \A d \in Caller : read'[d] # None =>
               /\ read'[d] = read[d] /\ Now(d)' = Now(d)
               /\ base'[d] \in {base[d], Tip(chain[Now(d).session])}
    PROVE  Alone' /\ AccountKept'
  <1>1. ASSUME NEW s \in Session, NEW d \in Caller, d \in Updating(s)'
        PROVE  d \in Updating(s) /\ Now(d)' = Now(d) /\ Now(d).session = s
    BY <1>1 DEF Updating
  <1>2. Alone'
    <2> SUFFICES ASSUME NEW s \in Session \ raced', NEW d \in Caller, d \in Updating(s)'
                 PROVE  /\ Updating(s)' = {d}
                        /\ Current(s)'.active
                        /\ read'[d] = Changed(Current(s)', Now(d)')
                        /\ base'[d] \in {0, Tip(chain'[s])}
      BY DEF Alone, Updating
    <2>1. d \in Updating(s) /\ s \notin raced /\ Now(d)' = Now(d) /\ Now(d).session = s
      BY <1>1
    <2>2. Updating(s) = {d} /\ Current(s).active /\ read[d] = Changed(Current(s), Now(d))
          /\ base[d] \in {0, Tip(chain[s])}
      BY <2>1 DEF AccountInv, Alone
    <2>3. Updating(s)' \subseteq {d}
      <3>1. \A e \in Caller : e \in Updating(s)' => e \in Updating(s)
        BY <1>1
      <3> QED BY <2>2, <3>1 DEF Updating
    <2>4. Current(s)' = Current(s)
      BY DEF Current
    <2>5. read'[d] = read[d] /\ base'[d] \in {base[d], Tip(chain[s])}
      BY <2>1 DEF Updating
    <2> QED BY <2>1, <2>2, <2>3, <2>4, <2>5
  <1>3. AccountKept'
    BY DEF AccountInv, AccountKept, Current
  <1> QED BY <1>2, <1>3

(* A caller is done with session t, whether or not it has added a version;  *)
(* the others go on with theirs.                                            *)
Finishes(c, t) ==
    /\ c \in Updating(t)
    /\ read' = [read EXCEPT ![c] = None] /\ base' = [base EXCEPT ![c] = 0]
    /\ \A d \in Caller \ {c} : todo'[d] = todo[d]
    /\ \A s \in Session \ {t} : account'[s] = account[s] /\ chain'[s] = chain[s]
    /\ UNCHANGED raced

LEMMA OthersAlone ==
    ASSUME AccountInv, NEW c \in Caller, NEW t \in Session, Finishes(c, t)
    PROVE  Alone'
  <1>0. read'[c] = None /\ \A d \in Caller \ {c} : /\ read'[d] = read[d] /\ base'[d] = base[d]
                                                   /\ Now(d)' = Now(d)
    BY DEF Finishes, AccountInv, TypeInv, ProgressOK, Now
  <1>1. ASSUME NEW s \in Session, NEW d \in Caller, d \in Updating(s)'
        PROVE  d # c /\ d \in Updating(s) /\ Now(d)' = Now(d)
    BY <1>0, <1>1 DEF Updating
  <1> SUFFICES ASSUME NEW s \in Session \ raced', NEW d \in Caller, d \in Updating(s)'
               PROVE  /\ Updating(s)' = {d}
                      /\ Current(s)'.active
                      /\ read'[d] = Changed(Current(s)', Now(d)')
                      /\ base'[d] \in {0, Tip(chain'[s])}
    BY DEF Alone, Updating
  <1>2. d # c /\ d \in Updating(s) /\ Now(d)' = Now(d) /\ s \notin raced
    BY <1>1 DEF Finishes
  <1>3. Updating(s) = {d} /\ Current(s).active /\ read[d] = Changed(Current(s), Now(d))
        /\ base[d] \in {0, Tip(chain[s])}
    BY <1>2 DEF AccountInv, Alone
  <1>4. s # t
    BY <1>2, <1>3 DEF Finishes
  <1>5. Current(s)' = Current(s) /\ chain'[s] = chain[s]
    BY <1>4 DEF Finishes, Current
  <1>6. Updating(s)' \subseteq {d}
    <2>1. \A e \in Caller : e \in Updating(s)' => e \in Updating(s)
      BY <1>1
    <2> QED BY <1>3, <2>1 DEF Updating
  <1> QED BY <1>0, <1>2, <1>3, <1>5, <1>6

LEMMA Starting ==
    ASSUME AccountInv, [LobbyNext]_lobbyVars, NEW s \in Session, Start(s)
    PROVE  LedgerOK' /\ TodoOK' /\ ProgressOK' /\ Alone' /\ AccountKept'
  <1> DEFINE a == [active |-> TRUE, log |-> {}]
  <1>1. /\ ~Started(s) /\ UNCHANGED <<stored, progress, issued, logged, ended, raced>>
        /\ account' = [account EXCEPT ![s] = <<a>>] /\ chain' = [chain EXCEPT ![s] = <<1>>]
    BY DEF Start
  <1>2. <<a>> \in Seq(Account) /\ Len(<<a>>) = 1 /\ <<1>> \in Seq(Nat) /\ On(<<1>>) \subseteq 1..1
        /\ <<1>> # <<>>
    <2>1. a \in Account
      BY DEF Account
    <2> QED BY <2>1 DEF On
  <1>3. /\ account'[s] = <<a>> /\ chain'[s] = <<1>>
        /\ \A t \in Session \ {s} : account'[t] = account[t] /\ chain'[t] = chain[t]
        /\ account' \in [Session -> Seq(Account)] /\ chain' \in [Session -> Seq(Nat)]
    BY <1>1, <1>2 DEF AccountInv, TypeInv, LedgerOK
  <1>4. \A t \in Session : Started(t) => Started(t)'
    BY <1>2, <1>3 DEF Started
  <1>5. LedgerOK'
    BY <1>1, <1>2, <1>3, <1>4 DEF AccountInv, TypeInv, LedgerOK
  <1>6. TodoOK'
    BY <1>1, TodoTypes DEF AccountInv, progress
  <1>7. ProgressOK'
    <2>1. \A c \in Caller : read[c] # None => Now(c).session \in Session
      <3> SUFFICES ASSUME NEW c \in Caller, read[c] # None PROVE Now(c).session \in Session
        OBVIOUS
      <3>1. ~Idle(c) /\ Now(c).do \in {"log", "end"}
        BY DEF AccountInv, TypeInv, ProgressOK
      <3> QED BY <3>1, NowOK DEF AccountInv, TypeInv, TaskOK
    <2> QED BY <1>1, <1>4, <2>1 DEF AccountInv, TypeInv, ProgressOK, Idle, Now, progress
  <1>8. \A t \in Session : Updating(t)' = Updating(t)
    BY <1>1 DEF Updating, Now, progress
  <1>9. Updating(s) = {}
    BY <1>1 DEF Updating, AccountInv, TypeInv, ProgressOK
  <1>10. \A t \in Session \ {s} : Current(t)' = Current(t)
    BY <1>3 DEF Current
  <1>11. Alone'
    BY <1>1, <1>3, <1>8, <1>9, <1>10 DEF AccountInv, Alone, progress, Now
  <1>12. AccountKept'
    BY <1>1, <1>10 DEF AccountInv, TypeInv, LedgerOK, AccountKept
  <1> QED BY <1>5, <1>6, <1>7, <1>11, <1>12

(* A caller that changes a session is at a task on that session. *)
LEMMA ChangingOK ==
    ASSUME TypeInv, NEW c \in Caller, read[c] # None
    PROVE  /\ ~Idle(c) /\ Now(c).do \in {"log", "end"}
           /\ Now(c).session \in Session /\ Started(Now(c).session)
           /\ Now(c).do = "log" => Now(c).item \in Item
           /\ c \in Updating(Now(c).session)
           /\ read[c] \in Account
  <1>1. ~Idle(c) /\ Now(c).do \in {"log", "end"} /\ Started(Now(c).session)
        /\ read[c] \in Account
    BY DEF TypeInv, ProgressOK
  <1>2. TaskOK(Now(c), issued, post)
    BY <1>1, NowOK DEF TypeInv
  <1>3. issued \in 0..MaxItems /\ MaxItems \in Nat
    BY SessionAssumption DEF TypeInv, LedgerOK
  <1> QED BY <1>1, <1>2, <1>3, SessionAssumption DEF TaskOK, Updating

LEMMA Reading ==
    ASSUME AccountInv, [LobbyNext]_lobbyVars, NEW c \in Caller, Read(c)
    PROVE  LedgerOK' /\ TodoOK' /\ ProgressOK' /\ Alone' /\ AccountKept'
  <1>s. PICK s : s = Now(c).session
    OBVIOUS
  <1>0. TypeInv
    BY DEF AccountInv
  <1>1. /\ ~Idle(c) /\ Now(c).do \in {"log", "end"} /\ read[c] = None /\ base[c] = 0
        /\ UNCHANGED <<ledger, base, issued, logged, ended>>
    BY <1>0 DEF Read, TypeInv, ProgressOK
  <1>2. TaskOK(Now(c), issued, post)
    BY <1>0, <1>1, NowOK DEF TypeInv
  <1>3. s \in Session /\ (Now(c).do = "log" => Now(c).item \in Item)
    <2>1. issued \in 0..MaxItems /\ MaxItems \in Nat
      BY <1>0, SessionAssumption DEF TypeInv, LedgerOK
    <2> QED BY <1>s, <1>1, <1>2, <2>1, SessionAssumption DEF TaskOK
  <1>4. LedgerOK'
    BY <1>0, <1>1 DEF TypeInv, LedgerOK, Started, ledger
  <1>5. CASE ((~Started(s) /\ Next1(c)) \/ Drop(c)) /\ UNCHANGED <<read, raced>>
    <2>1. \A d \in Caller : read'[d] # None => todo'[d] = todo[d]
      BY <1>0, <1>1, <1>5, NextTodo, DropTodo DEF TypeInv
    <2>2. TodoOK'
      BY <1>0, <1>1, <1>5, TodoTypes
    <2>3. ProgressOK'
      BY <1>0, <1>1, <1>5, <2>1 DEF TypeInv, ProgressOK, Idle, Now, Started, ledger
    <2>4. Alone' /\ AccountKept'
      BY <1>1, <1>5, <2>1, AccountsKept DEF Now, ledger
    <2> QED BY <1>4, <2>2, <2>3, <2>4
  <1>6. CASE /\ Started(s) /\ Changeable(s) /\ UNCHANGED todo
             /\ read' = [read EXCEPT ![c] = Changed(Current(s), Now(c))]
             /\ raced' = IF Updating(s) # {} THEN raced \cup {s} ELSE raced
    <2>1. Current(s) \in Account /\ Current(s).active
      BY <1>0, <1>3, <1>6, CurrentOK DEF Changeable
    <2>2. Changed(Current(s), Now(c)) \in Account
      <3>1. CASE Now(c).do = "end"
        BY <2>1, <3>1 DEF Changed, Account
      <3>2. CASE Now(c).do = "log"
        BY <1>3, <2>1, <3>2 DEF Changed, Account
      <3> QED BY <1>1, <3>1, <3>2
    <2>3. /\ read' \in [Caller -> Account \cup {None}]
          /\ read'[c] = Changed(Current(s), Now(c)) /\ read'[c] # None
          /\ \A d \in Caller \ {c} : read'[d] = read[d]
      BY <1>0, <1>6, <2>2, AccountAssumption DEF TypeInv, ProgressOK
    <2>4. TodoOK'
      BY <1>0, <1>1, <1>6, TodoTypes
    <2>5. ProgressOK'
      BY <1>s, <1>0, <1>1, <1>6, <2>3 DEF TypeInv, ProgressOK, Idle, Now, Started, ledger
    <2>6. \A d \in Caller : Now(d)' = Now(d)
      BY <1>6 DEF Now
    <2>7. /\ Updating(s)' = Updating(s) \cup {c}
          /\ \A t \in Session \ {s} : Updating(t)' = Updating(t)
      BY <1>s, <1>1, <2>3, <2>6 DEF Updating
    <2>8. \A t \in Session : Current(t)' = Current(t) /\ chain'[t] = chain[t]
      BY <1>1 DEF Current, ledger
    <2>9. Alone'
      <3> SUFFICES ASSUME NEW t \in Session \ raced', NEW d \in Updating(t)'
                   PROVE  /\ Updating(t)' = {d}
                          /\ Current(t)'.active
                          /\ read'[d] = Changed(Current(t)', Now(d)')
                          /\ base'[d] \in {0, Tip(chain'[t])}
        BY DEF Alone
      <3>1. CASE t = s
        <4>1. Updating(s) = {} /\ d = c
          BY <1>6, <2>7, <3>1
        <4> QED BY <1>1, <1>3, <2>1, <2>3, <2>6, <2>7, <2>8, <3>1, <4>1
      <3>2. CASE t # s
        <4>1. d \in Updating(t) /\ t \notin raced /\ Updating(t)' = Updating(t)
          BY <1>6, <2>7, <3>2
        <4>2. d \in Caller /\ d # c
          BY <1>1, <4>1 DEF Updating
        <4> QED BY <1>1, <2>3, <2>6, <2>8, <4>1, <4>2 DEF AccountInv, Alone
      <3> QED BY <3>1, <3>2
    <2>10. AccountKept'
      BY <1>1, <1>6, <2>8 DEF AccountInv, AccountKept
    <2> QED BY <1>4, <2>4, <2>5, <2>9, <2>10
  <1> QED BY <1>s, <1>5, <1>6 DEF Read

LEMMA Heading ==
    ASSUME AccountInv, [LobbyNext]_lobbyVars, NEW c \in Caller, ReadHead(c)
    PROVE  LedgerOK' /\ TodoOK' /\ ProgressOK' /\ Alone' /\ AccountKept'
  <1>0. TypeInv
    BY DEF AccountInv
  <1>1. /\ read[c] # None
        /\ UNCHANGED <<ledger, todo, read, issued, logged, ended, raced>>
        /\ base' = [base EXCEPT ![c] = Tip(chain[Now(c).session])]
    BY DEF ReadHead
  <1>2. Tip(chain[Now(c).session]) \in Nat
    <2>1. Now(c).session \in Session /\ Started(Now(c).session)
      BY <1>0, <1>1, ChangingOK
    <2>2. account[Now(c).session] \in Seq(Account)
      BY <1>0, <2>1 DEF TypeInv, LedgerOK
    <2> QED BY <1>0, <2>1, <2>2, CurrentOK
  <1>3. /\ base' \in [Caller -> Nat] /\ base'[c] = Tip(chain[Now(c).session])
        /\ \A d \in Caller \ {c} : base'[d] = base[d]
    BY <1>0, <1>1, <1>2 DEF TypeInv, ProgressOK
  <1>4. LedgerOK'
    BY <1>0, <1>1 DEF TypeInv, LedgerOK, Started, ledger
  <1>5. TodoOK'
    BY <1>0, <1>1, TodoTypes
  <1>6. ProgressOK'
    BY <1>0, <1>1, <1>3 DEF TypeInv, ProgressOK, Idle, Now, Started, ledger
  <1>7. Alone' /\ AccountKept'
    <2>1. \A d \in Caller : Now(d)' = Now(d)
      BY <1>1 DEF Now
    <2>2. \A d \in Caller : base'[d] \in {base[d], Tip(chain[Now(d).session])}
      BY <1>3
    <2> QED BY <1>1, <2>1, <2>2, AccountsKept DEF ledger
  <1> QED BY <1>4, <1>5, <1>6, <1>7

(* A version of the session a caller changes is added, on its chain or off  *)
(* it.                                                                      *)
Adds(c, s, onChain) ==
    /\ s = Now(c).session /\ read[c] # None /\ base[c] # 0
    /\ account' = [account EXCEPT ![s] = Append(@, read[c])]
    /\ chain' = IF onChain
                THEN [chain EXCEPT ![s] = Superseding(@, base[c], Len(account[s]) + 1)]
                ELSE chain
    /\ UNCHANGED <<stored, issued>>

LEMMA Adding ==
    ASSUME AccountInv, NEW c \in Caller, NEW s \in Session, NEW onChain \in BOOLEAN,
           Adds(c, s, onChain)
    PROVE  /\ account' \in [Session -> Seq(Account)] /\ chain' \in [Session -> Seq(Nat)]
           /\ \A t \in Session : On(chain'[t]) \subseteq 1..Len(account'[t])
           /\ \A t \in Session : Started(t) => Started(t)'
           /\ \A t \in Session \ {s} : account'[t] = account[t] /\ chain'[t] = chain[t]
           /\ \A n \in DOMAIN account[s] :
                 n \in DOMAIN account'[s] /\ account'[s][n] = account[s][n]
           /\ s \notin raced => Current(s)' = IF onChain THEN read[c] ELSE Current(s)
  <1>0. TypeInv
    BY DEF AccountInv
  <1>1. /\ account[s] \in Seq(Account) /\ chain[s] \in Seq(Nat) /\ chain[s] # <<>>
        /\ On(chain[s]) \subseteq 1..Len(account[s]) /\ Len(account[s]) \in Nat
    <2>1. Started(s)
      BY <1>0, ChangingOK DEF Adds
    <2> QED BY <1>0, <2>1 DEF TypeInv, LedgerOK, Started
  <1>2. read[c] \in Account /\ base[c] \in Nat
    BY <1>0, ChangingOK DEF Adds, TypeInv, ProgressOK
  <1>n. PICK n \in Nat : n = Len(account[s]) + 1
    BY <1>1
  <1>a. PICK as : as = Append(account[s], read[c])
    OBVIOUS
  <1>h. PICK ch : ch = IF onChain THEN Superseding(chain[s], base[c], n) ELSE chain[s]
    OBVIOUS
  <1>3. /\ as \in Seq(Account) /\ Len(as) = n /\ n \in Nat /\ as[n] = read[c]
        /\ \A m \in DOMAIN account[s] : m \in DOMAIN as /\ as[m] = account[s][m]
    BY <1>1, <1>2, <1>n, <1>a
  <1>4. /\ ch \in Seq(Nat) /\ ch # <<>> /\ On(ch) \subseteq On(chain[s]) \cup {n}
        /\ onChain /\ base[c] \in On(chain[s]) => Tip(ch) = n
    <2>1. CASE onChain
      <3>1. ch = Superseding(chain[s], base[c], n)
        BY <1>h, <2>1
      <3>2. /\ Superseding(chain[s], base[c], n) \in Seq(Nat)
            /\ On(Superseding(chain[s], base[c], n)) \subseteq On(chain[s]) \cup {n}
            /\ chain[s] # <<>> => Superseding(chain[s], base[c], n) # <<>>
            /\ base[c] \in On(chain[s]) => Tip(Superseding(chain[s], base[c], n)) = n
        BY <1>1, <1>2, SupersedingTip
      <3> QED BY <1>1, <3>1, <3>2
    <2>2. CASE ~onChain
      BY <1>1, <1>h, <2>2
    <2> QED BY <2>1, <2>2
  <1>5. On(ch) \subseteq 1..Len(as)
    BY <1>1, <1>3, <1>4, <1>n
  <1>6. account' = [account EXCEPT ![s] = as] /\ chain' = [chain EXCEPT ![s] = ch]
    <2>1. account \in [Session -> Seq(Account)] /\ chain \in [Session -> Seq(Nat)]
      BY <1>0 DEF TypeInv, LedgerOK
    <2>2. CASE onChain
      BY <1>n, <1>a, <1>h, <2>2 DEF Adds
    <2>3. CASE ~onChain
      <3>1. chain' = chain /\ ch = chain[s]
        BY <1>h, <2>3 DEF Adds
      <3>2. account' = [account EXCEPT ![s] = as]
        BY <1>a DEF Adds
      <3> QED BY <2>1, <3>1, <3>2
    <2> QED BY <2>2, <2>3
  <1>7. /\ account'[s] = as /\ chain'[s] = ch
        /\ account' \in [Session -> Seq(Account)] /\ chain' \in [Session -> Seq(Nat)]
        /\ \A t \in Session \ {s} : account'[t] = account[t] /\ chain'[t] = chain[t]
    <2>1. account \in [Session -> Seq(Account)] /\ chain \in [Session -> Seq(Nat)]
      BY <1>0 DEF TypeInv, LedgerOK
    <2> QED BY <1>3, <1>4, <1>6, <2>1, Zenon
  <1>8. ASSUME s \notin raced PROVE Current(s)' = IF onChain THEN read[c] ELSE Current(s)
    <2>1. base[c] = Tip(chain[s])
      <3>1. c \in Updating(s)
        BY <1>0, ChangingOK DEF Adds
      <3> QED BY <1>8, <3>1 DEF AccountInv, Alone, Adds
    <2>2. Tip(chain[s]) \in On(chain[s]) /\ Tip(chain[s]) \in 1..Len(account[s])
      <3>1. Started(s)
        BY <1>1 DEF Started
      <3> QED BY <1>0, <3>1, CurrentOK
    <2>3. Current(s)' = as[Tip(ch)] /\ Current(s) = account[s][Tip(chain[s])]
      BY <1>7 DEF Current
    <2>4. CASE onChain
      <3>1. Tip(ch) = n
        BY <1>4, <2>1, <2>2, <2>4
      <3> QED BY <1>3, <2>3, <2>4, <3>1
    <2>5. CASE ~onChain
      <3>1. ch = chain[s] /\ Tip(chain[s]) \in DOMAIN account[s]
        BY <1>1, <1>h, <2>2, <2>5
      <3> QED BY <1>3, <2>3, <2>5, <3>1
    <2> QED BY <2>4, <2>5
  <1>9. \A t \in Session : Started(t) => Started(t)'
    BY <1>4, <1>7 DEF Started
  <1>10. \A t \in Session : On(chain'[t]) \subseteq 1..Len(account'[t])
    BY <1>0, <1>5, <1>7 DEF TypeInv, LedgerOK
  <1> QED BY <1>3, <1>7, <1>8, <1>9, <1>10

(* What a caller leaves when it is done with its session. *)
LEMMA Finishing ==
    ASSUME AccountInv, NEW c \in Caller, NEW s \in Session, Finishes(c, s),
           \A t \in Session : Started(t) => Started(t)'
    PROVE  ProgressOK'
  <1>0. TypeInv
    BY DEF AccountInv
  <1>1. /\ read'[c] = None /\ base'[c] = 0
        /\ read' \in [Caller -> Account \cup {None}] /\ base' \in [Caller -> Nat]
        /\ \A d \in Caller \ {c} : read'[d] = read[d] /\ base'[d] = base[d] /\ todo'[d] = todo[d]
    BY <1>0 DEF Finishes, TypeInv, ProgressOK
  <1>2. \A d \in Caller : read[d] # None => Now(d).session \in Session
    BY <1>0, ChangingOK
  <1> QED BY <1>0, <1>1, <1>2 DEF TypeInv, ProgressOK, Idle, Now

LEMMA Updated ==
    ASSUME AccountInv, [LobbyNext]_lobbyVars, NEW c \in Caller, Update(c)
    PROVE  LedgerOK' /\ TodoOK' /\ ProgressOK' /\ Alone' /\ AccountKept'
  <1>s. PICK s : s = Now(c).session
    OBVIOUS
  <1>0. TypeInv
    BY DEF AccountInv
  <1>1. /\ base[c] # 0 /\ read[c] # None /\ ~Idle(c)
        /\ UNCHANGED <<stored, issued, raced>> /\ Next1(c)
        /\ read' = [read EXCEPT ![c] = None] /\ base' = [base EXCEPT ![c] = 0]
    BY <1>0 DEF Update, TypeInv, ProgressOK
  <1>2. /\ s \in Session /\ Started(s) /\ Now(c).do \in {"log", "end"}
        /\ Now(c).do = "log" => Now(c).item \in Item
        /\ c \in Updating(s)
    BY <1>s, <1>0, <1>1, ChangingOK
  <1>3. Adds(c, s, TRUE)
    BY <1>s, <1>1 DEF Adds, Update, AddVersion
  <1>4. Finishes(c, s)
    <2>1. \A t \in Session \ {s} : account'[t] = account[t] /\ chain'[t] = chain[t]
      BY <1>2, <1>3, Adding
    <2>2. \A d \in Caller \ {c} : todo'[d] = todo[d]
      BY <1>0, <1>1, NextTodo DEF TypeInv
    <2> QED BY <1>1, <1>2, <2>1, <2>2 DEF Finishes
  <1>5. /\ account' \in [Session -> Seq(Account)] /\ chain' \in [Session -> Seq(Nat)]
        /\ \A t \in Session : On(chain'[t]) \subseteq 1..Len(account'[t])
        /\ \A t \in Session : Started(t) => Started(t)'
        /\ s \notin raced => Current(s)' = read[c]
    BY <1>2, <1>3, Adding
  <1>6. \/ Now(c).do = "end" /\ ended' = ended \cup {s} /\ logged' = logged
        \/ Now(c).do = "log" /\ logged' = logged \cup {<<s, Now(c).item>>} /\ ended' = ended
    BY <1>s, <1>2 DEF Update
  <1>7. LedgerOK'
    <2>1. \A t \in Session : (\E i \in Item : <<t, i>> \in logged') \/ t \in ended' =>
              t = s \/ (\E i \in Item : <<t, i>> \in logged) \/ t \in ended
      <3>1. CASE ended' = ended \cup {s} /\ logged' = logged
        BY <3>1
      <3>2. CASE logged' = logged \cup {<<s, Now(c).item>>} /\ ended' = ended
        BY <3>2
      <3> QED BY <1>6, <3>1, <3>2
    <2>2. \A t \in Session : (\E i \in Item : <<t, i>> \in logged') \/ t \in ended' => Started(t)'
      BY <1>0, <1>2, <1>5, <2>1 DEF TypeInv, LedgerOK
    <2> QED BY <1>0, <1>1, <1>5, <2>2 DEF TypeInv, LedgerOK
  <1>8. TodoOK'
    BY <1>0, <1>1, TodoTypes
  <1>9. ProgressOK' /\ Alone'
    BY <1>2, <1>4, <1>5, Finishing, OthersAlone
  <1>10. AccountKept'
    <2> SUFFICES ASSUME NEW t \in Session \ raced
                 PROVE  /\ \A i \in Item : <<t, i>> \in logged' => i \in Current(t)'.log
                        /\ t \in ended' => ~Current(t)'.active
      BY <1>1 DEF AccountKept
    <2>1. /\ \A i \in Item : <<t, i>> \in logged => i \in Current(t).log
          /\ t \in ended => ~Current(t).active
      BY DEF AccountInv, AccountKept
    <2>2. CASE t # s
      <3>1. Current(t)' = Current(t)
        BY <1>4, <2>2 DEF Finishes, Current
      <3> QED BY <1>6, <2>1, <2>2, <3>1
    <2>3. CASE t = s
      <3>1. Current(s)' = Changed(Current(s), Now(c)) /\ Current(s).active
        BY <1>2, <1>5, <2>3 DEF AccountInv, Alone
      <3>2. Current(s) \in Account
        BY <1>0, <1>2, CurrentOK
      <3>3. CASE Now(c).do = "end"
        <4>1. ~Current(s)'.active /\ Current(s)'.log = Current(s).log
          BY <3>1, <3>2, <3>3 DEF Changed, Account
        <4> QED BY <1>6, <2>1, <2>3, <3>3, <4>1
      <3>4. CASE Now(c).do = "log"
        <4>1. Current(s)'.log = Current(s).log \cup {Now(c).item}
          BY <3>1, <3>2, <3>4 DEF Changed, Account
        <4> QED BY <1>6, <2>1, <2>3, <3>1, <3>4, <4>1
      <3> QED BY <1>2, <3>3, <3>4
    <2> QED BY <2>2, <2>3
  <1> QED BY <1>7, <1>8, <1>9, <1>10

LEMMA FailAdds ==
    ASSUME TypeInv, NEW c \in Caller, Fail(c)
    PROVE  \/ UNCHANGED <<account, chain>>
           \/ read[c] # None /\ \E onChain \in BOOLEAN : Adds(c, Now(c).session, onChain)
  <1> SUFFICES ASSUME ~UNCHANGED <<account, chain>>
               PROVE  read[c] # None /\ \E onChain \in BOOLEAN : Adds(c, Now(c).session, onChain)
    OBVIOUS
  <1>s. PICK s : s = Now(c).session
    OBVIOUS
  <1>1. /\ base[c] # 0 /\ read[c] # None /\ UNCHANGED <<stored, issued>>
        /\ account' = [account EXCEPT ![s] = Append(@, read[c])]
        /\ \/ chain' = chain
           \/ chain' = [chain EXCEPT ![s] = Superseding(@, base[c], Len(account[s]) + 1)]
    BY <1>s DEF Fail, TypeInv, ProgressOK
  <1>2. CASE chain' = chain
    <2>1. Adds(c, s, FALSE)
      BY <1>s, <1>1, <1>2 DEF Adds
    <2> QED BY <1>s, <1>1, <2>1
  <1>3. CASE chain' = [chain EXCEPT ![s] = Superseding(@, base[c], Len(account[s]) + 1)]
    <2>1. Adds(c, s, TRUE)
      BY <1>s, <1>1, <1>3 DEF Adds
    <2> QED BY <1>s, <1>1, <2>1
  <1> QED BY <1>1, <1>2, <1>3

LEMMA Failing ==
    ASSUME AccountInv, [LobbyNext]_lobbyVars, NEW c \in Caller, Fail(c)
    PROVE  LedgerOK' /\ TodoOK' /\ ProgressOK' /\ Alone' /\ AccountKept'
  <1>s. PICK s : s = Now(c).session
    OBVIOUS
  <1>0. TypeInv
    BY DEF AccountInv
  <1>1. /\ ~Idle(c) /\ Drop(c) /\ UNCHANGED <<stored, issued, logged, ended, raced>>
        /\ read' = [read EXCEPT ![c] = None] /\ base' = [base EXCEPT ![c] = 0]
    BY DEF Fail
  <1>2. \A d \in Caller \ {c} : todo'[d] = todo[d] /\ read'[d] = read[d] /\ base'[d] = base[d]
    BY <1>0, <1>1, DropTodo DEF TypeInv, ProgressOK
  <1>3. read'[c] = None /\ base'[c] = 0
    BY <1>0, <1>1 DEF TypeInv, ProgressOK
  <1>4. TodoOK'
    BY <1>0, <1>1, TodoTypes
  <1>5. CASE UNCHANGED <<account, chain>>
    <2>1. LedgerOK'
      BY <1>0, <1>1, <1>5 DEF TypeInv, LedgerOK, Started
    <2>2. ProgressOK'
      <3>1. read' \in [Caller -> Account \cup {None}] /\ base' \in [Caller -> Nat]
        BY <1>0, <1>1 DEF TypeInv, ProgressOK
      <3> QED BY <1>0, <1>2, <1>3, <1>5, <3>1 DEF TypeInv, ProgressOK, Idle, Now, Started
    <2>3. Alone' /\ AccountKept'
      BY <1>1, <1>2, <1>3, <1>5, AccountsKept DEF Now
    <2> QED BY <1>4, <2>1, <2>2, <2>3
  <1>6. CASE ~UNCHANGED <<account, chain>>
    <2>1. base[c] # 0 /\ read[c] # None
      BY <1>0, <1>6 DEF Fail, TypeInv, ProgressOK
    <2>2. s \in Session /\ c \in Updating(s)
      BY <1>s, <1>0, <2>1, ChangingOK
    <2>3. PICK onChain \in BOOLEAN : Adds(c, s, onChain)
      BY <1>s, <1>0, <1>6, FailAdds
    <2>4. /\ account' \in [Session -> Seq(Account)] /\ chain' \in [Session -> Seq(Nat)]
          /\ \A t \in Session : On(chain'[t]) \subseteq 1..Len(account'[t])
          /\ \A t \in Session : Started(t) => Started(t)'
          /\ \A t \in Session \ {s} : account'[t] = account[t] /\ chain'[t] = chain[t]
          /\ s \notin raced => Current(s)' = IF onChain THEN read[c] ELSE Current(s)
      BY <2>2, <2>3, Adding
    <2>5. Finishes(c, s)
      BY <1>1, <1>2, <2>2, <2>4 DEF Finishes
    <2>6. LedgerOK'
      BY <1>0, <1>1, <2>4 DEF TypeInv, LedgerOK
    <2>7. ProgressOK' /\ Alone'
      BY <2>2, <2>4, <2>5, Finishing, OthersAlone
    <2>8. AccountKept'
      <3> SUFFICES ASSUME NEW t \in Session \ raced
                   PROVE  /\ \A i \in Item : <<t, i>> \in logged => i \in Current(t)'.log
                          /\ t \in ended => ~Current(t)'.active
        BY <1>1 DEF AccountKept
      <3>1. /\ \A i \in Item : <<t, i>> \in logged => i \in Current(t).log
            /\ t \in ended => ~Current(t).active
        BY DEF AccountInv, AccountKept
      <3>2. CASE t # s
        <4>1. Current(t)' = Current(t)
          BY <2>4, <3>2 DEF Current
        <4> QED BY <3>1, <4>1
      <3>3. CASE t = s
        <4>1. read[c] = Changed(Current(s), Now(c)) /\ Current(s).active
          BY <2>2, <3>3 DEF AccountInv, Alone
        <4>2. Started(s)
          BY <1>s, <1>0, <2>1, ChangingOK
        <4>3. Current(s) \in Account
          BY <1>0, <2>2, <4>2, CurrentOK
        <4>4. Current(s).log \subseteq Changed(Current(s), Now(c)).log
          BY <4>3 DEF Changed, Account
        <4>5. Current(s).log \subseteq Current(s)'.log
          BY <2>4, <3>3, <4>1, <4>4
        <4> QED BY <3>1, <3>3, <4>1, <4>5
      <3> QED BY <3>2, <3>3
    <2> QED BY <1>4, <2>6, <2>7, <2>8
  <1> QED BY <1>5, <1>6

(* Steps that change no account: only the list of a caller, which is not    *)
(* changing a session, gets shorter, or a record is written.                *)
LEMMA Passing ==
    ASSUME AccountInv, UNCHANGED <<account, chain, read, base, issued, logged, ended, raced>>,
           stored' \in [Item -> Session \cup {None}],
           \A d \in Caller : read[d] # None => todo'[d] = todo[d]
    PROVE  LedgerOK' /\ ProgressOK' /\ Alone' /\ AccountKept'
  <1>0. TypeInv
    BY DEF AccountInv
  <1>1. LedgerOK'
    BY <1>0 DEF TypeInv, LedgerOK, Started
  <1>2. ProgressOK'
    BY <1>0 DEF TypeInv, ProgressOK, Idle, Now, Started
  <1>3. Alone' /\ AccountKept'
    BY AccountsKept DEF Now
  <1> QED BY <1>1, <1>2, <1>3

LEMMA Writing ==
    ASSUME AccountInv, [LobbyNext]_lobbyVars, NEW c \in Caller, Write(c)
    PROVE  LedgerOK' /\ TodoOK' /\ ProgressOK' /\ Alone' /\ AccountKept'
  <1>0. TypeInv
    BY DEF AccountInv
  <1>1. /\ ~Idle(c) /\ Writes(Now(c))
        /\ UNCHANGED <<account, chain, read, base, issued, logged, ended, raced>>
        /\ stored' = [stored EXCEPT ![Now(c).item] = Now(c).session]
    BY DEF Write, Writes
  <1>2. \/ Next1(c)
        \/ /\ Now(c).do = "report"
           /\ todo' = [todo EXCEPT ![c] = <<LogTask(Now(c).item, Now(c).session)>> \o Tail(@)]
    BY DEF Write
  <1>3. Now(c).session \in Session
    BY <1>0, <1>1, NowOK DEF TypeInv, TaskOK, Writes
  <1>4. stored' \in [Item -> Session \cup {None}]
    BY <1>0, <1>1, <1>3 DEF TypeInv, LedgerOK
  <1>5. TodoOK'
    BY <1>0, <1>1, <1>2, TodoTypes
  <1>6. \A d \in Caller : read[d] # None => todo'[d] = todo[d]
    BY <1>0, <1>1, <1>2 DEF TypeInv, ProgressOK, Writes, Next1, TodoOK
  <1> QED BY <1>1, <1>4, <1>5, <1>6, Passing

LEMMA AccountStep == AccountInv /\ [Next]_vars => AccountInv'
  <1> SUFFICES ASSUME AccountInv, [Next]_vars PROVE AccountInv'
    OBVIOUS
  <1>0. TypeInv
    BY DEF AccountInv
  <1>1. [LobbyNext]_lobbyVars
    BY <1>0, LobbySteps
  <1>2. LobbyInv' /\ PostsOK'
    BY <1>0, <1>1, LobbyKept, PostsKept DEF TypeInv
  <1> SUFFICES LedgerOK' /\ TodoOK' /\ ProgressOK' /\ Alone' /\ AccountKept'
    BY <1>2 DEF AccountInv, TypeInv
  <1>3. stored \in [Item -> Session \cup {None}]
    BY <1>0 DEF TypeInv, LedgerOK
  <1>4. ASSUME NEW c \in Caller, NEW s \in Session,
               \/ Report(c, s) \/ End(c, s) \/ Close(c, s)
               \/ \E p \in Post : PromotePost(c, s, p)
        PROVE  LedgerOK' /\ TodoOK' /\ ProgressOK' /\ Alone' /\ AccountKept'
    <2>1. PICK tasks, n : Begins(c, tasks, n)
      BY <1>0, <1>4, Assignments
    <2>2. LedgerOK' /\ TodoOK' /\ ProgressOK'
      BY <1>0, <1>1, <2>1, BeginTypes
    <2>3. /\ Idle(c) /\ UNCHANGED <<account, chain, read, base, logged, ended, raced>>
          /\ todo' = [todo EXCEPT ![c] = tasks]
      BY <2>1 DEF Begins, Assign, ledger
    <2>4. \A d \in Caller : read[d] # None => todo'[d] = todo[d]
      BY <1>0, <2>3 DEF TypeInv, ProgressOK, TodoOK
    <2>5. Alone' /\ AccountKept'
      BY <2>3, <2>4, AccountsKept DEF Now
    <2> QED BY <2>2, <2>5
  <1>5. CASE SessionCalls
    <2>1. ASSUME NEW s \in Session, Start(s)
          PROVE  LedgerOK' /\ TodoOK' /\ ProgressOK' /\ Alone' /\ AccountKept'
      BY <1>1, <2>1, Starting
    <2>2. ASSUME NEW c \in Caller, Read(c) \/ ReadHead(c) \/ Update(c)
          PROVE  LedgerOK' /\ TodoOK' /\ ProgressOK' /\ Alone' /\ AccountKept'
      BY <1>1, <2>2, Reading, Heading, Updated
    <2> QED BY <1>4, <1>5, <2>1, <2>2 DEF SessionCalls
  <1>6. ASSUME UNCHANGED <<ledger, progress, issued, logged, ended, raced>>
        PROVE  LedgerOK' /\ TodoOK' /\ ProgressOK' /\ Alone' /\ AccountKept'
    <2>1. TodoOK'
      BY <1>0, <1>1, <1>6, TodoTypes DEF progress
    <2> QED BY <1>3, <1>6, <2>1, Passing DEF ledger, progress
  <1>7. ASSUME NEW c \in Caller, MarkStep(c)
        PROVE  LedgerOK' /\ TodoOK' /\ ProgressOK' /\ Alone' /\ AccountKept'
    <2>1. /\ ~Idle(c) /\ Now(c).do = "mark" /\ Next1(c)
          /\ UNCHANGED <<ledger, read, base, issued, logged, ended, raced>>
      BY <1>7 DEF MarkStep
    <2>2. TodoOK'
      BY <1>0, <1>1, <2>1, TodoTypes
    <2>3. \A d \in Caller : read[d] # None => todo'[d] = todo[d]
      BY <1>0, <2>1 DEF TypeInv, ProgressOK, Next1, TodoOK
    <2> QED BY <1>3, <2>1, <2>2, <2>3, Passing DEF ledger
  <1>8. ASSUME NEW c \in Caller, WriteStep(c) \/ CallFails(c)
        PROVE  LedgerOK' /\ TodoOK' /\ ProgressOK' /\ Alone' /\ AccountKept'
    BY <1>1, <1>8, Writing, Failing DEF WriteStep, CallFails
  <1>9. CASE LobbyCall \/ Restart \/ UNCHANGED vars
             \/ \E b \in Board : Expire(b) /\ UNCHANGED <<sessionVars, shared>>
    BY <1>6, <1>9 DEF LobbyCall, Restart, vars, sessionVars
  <1> QED BY <1>4, <1>5, <1>7, <1>8, <1>9 DEF Next, SessionStep

LEMMA AccountInit == Init => AccountInv
  <1> SUFFICES ASSUME Init PROVE AccountInv
    OBVIOUS
  <1>1. LobbyInv /\ PostsOK
    <2>1. OpenBoards = {} /\ \A s \in Session : boardOf[s] = None
      BY DEF Init, LobbyInit, OpenBoards
    <2> QED BY <2>1 DEF Init, LobbyInit, LobbyInv, BoardsOK, SeatsAgree, PostsOK
  <1>2. /\ <<>> \in Seq(Account) /\ <<>> \in Seq(Nat) /\ <<>> \in Seq(Task)
        /\ On(<<>>) = {} /\ MaxItems \in Nat
    BY SessionAssumption DEF On
  <1>3. LedgerOK
    BY <1>2 DEF Init, SessionInit, LedgerOK
  <1>4. TodoOK /\ ProgressOK
    BY <1>2 DEF Init, SessionInit, TodoOK, ProgressOK
  <1>5. Alone /\ AccountKept
    BY DEF Init, SessionInit, Alone, Updating, AccountKept
  <1> QED BY <1>1, <1>3, <1>4, <1>5 DEF AccountInv, TypeInv

LEMMA AccountAlways == Spec => []AccountInv
  BY AccountInit, AccountStep, PTL DEF Spec

(* Whatever calls, failures and lobby traffic interleave, an item whose     *)
(* logging returned stays on its session's account and a session that was   *)
(* ended stays ended, as long as no two changes of it overlap               *)
(* (db.py _update_session).                                                 *)
THEOREM AccountsAreKept == Spec => []AccountKept
  <1>1. AccountInv => AccountKept
    BY DEF AccountInv
  <1> QED BY <1>1, AccountAlways, PTL

-----------------------------------------------------------------------------
(* Marks.                                                                  *)

(* A record is written once: its id is still free while a caller has it to  *)
(* write, and no other caller has.                                          *)
NotYet ==
    /\ \A i \in Item : stored[i] # None => i \in 1..issued
    /\ \A c \in Caller : \A m \in DOMAIN todo[c] :
          Writes(todo[c][m]) => stored[todo[c][m].item] = None

OneWriter ==
    \A c, d \in Caller : \A m \in DOMAIN todo[c], n \in DOMAIN todo[d] :
        Writes(todo[c][m]) /\ Writes(todo[d][n]) /\ todo[c][m].item = todo[d][n].item
            => c = d /\ m = n

(* What is stored for a post carries on what the post says. *)
KeptRight ==
    /\ kept \in [Post -> SUBSET Item]
    /\ \A p \in Post : \A i \in kept[p] :
          /\ post[p] # None /\ stored[i] # None
          /\ post[p].kind = "failure" => stored[i] = post[p].author

(* What a caller is to mark is stored, or it stores it before. *)
MarkReady ==
    \A c \in Caller : \A n \in DOMAIN todo[c] : todo[c][n].do = "mark" =>
        \/ todo[c][n].item \in kept[todo[c][n].post]
        \/ \E m \in DOMAIN todo[c] : /\ m < n /\ Writes(todo[c][m])
                                     /\ todo[c][m].item = todo[c][n].item
                                     /\ todo[c][m].post = todo[c][n].post

Marked ==
    \A p \in Post : post[p] # None /\ post[p].promoted # None => post[p].promoted \in kept[p]

MarkInv == AccountInv /\ NotYet /\ OneWriter /\ KeptRight /\ MarkReady /\ Marked

(* Only MarkStep marks. *)
LEMMA MarksFixed ==
    ASSUME LobbyInv, PostsOK,
           \/ \E s \in Session : LobbyCalls(s)
           \/ \E b \in Board : Expire(b)
           \/ Forget \/ UNCHANGED post,
           NEW p \in Post, post'[p] # None, post'[p].promoted # None
    PROVE  post[p] # None /\ post[p].promoted = post'[p].promoted
  <1>1. ASSUME NEW s \in Session, NEW q \in Post, Corroborate(s, q)
        PROVE  post[p] # None /\ post[p].promoted = post'[p].promoted
    <2>1. post[q] # None /\ post[q] \in PostState
      BY <1>1, PostOnBoard DEF Corroborate, Seated
    <2> QED BY <1>1, <2>1 DEF Corroborate, PostsOK, PostState
  <1>2. ASSUME NEW s \in Session, NEW q \in Post, NEW k \in {"failure", "discovery"},
               Publish(s, q, k)
        PROVE  post[p] # None /\ post[p].promoted = post'[p].promoted
    BY <1>2 DEF Publish, PostsOK
  <1>3. ASSUME NEW s \in Session,
               \/ Return(s) \/ Leave(s)
               \/ \E t \in Topic : Join(s, t) \/ \E b \in Board : Create(s, t, b)
        PROVE  post' = post
    BY <1>3 DEF Return, Leave, Join, Create
  <1>4. ASSUME Forget \/ \E b \in Board : Expire(b)
        PROVE  post' = post
    BY <1>4 DEF Forget, Expire
  <1> QED BY <1>1, <1>2, <1>3, <1>4 DEF LobbyCalls

(* The first task of caller c is done, or all of them are dropped: what is  *)
(* left is what came after, k places on.                                    *)
Advances(c, k) ==
    /\ todo' \in [Caller -> Seq(Task)]
    /\ \A d \in Caller \ {c} : todo'[d] = todo[d]
    /\ \A n \in DOMAIN todo'[c] :
          /\ n \in Nat \ {0} /\ n + k \in DOMAIN todo[c]
          /\ \/ n + k > 1 /\ todo'[c][n] = todo[c][n + k]
             \/ /\ n + k = 1 /\ todo'[c][n].do = "log"
                /\ todo'[c][n].session = todo[c][n + k].session

LEMMA Advancing ==
    ASSUME TypeInv, NEW c \in Caller, ~Idle(c),
           \/ Next1(c) \/ Drop(c)
           \/ /\ Now(c).do = "report"
              /\ todo' = [todo EXCEPT ![c] = <<LogTask(Now(c).item, Now(c).session)>> \o Tail(@)]
    PROVE  \E k \in {0, 1} : Advances(c, k)
  <1>0. TodoOK /\ DOMAIN todo[c] \subseteq Nat \ {0}
    BY DEF TypeInv, TodoOK
  <1>1. CASE Next1(c)
    <2>1. Advances(c, 1)
      BY <1>0, <1>1, NextTodo DEF Advances
    <2> QED BY <2>1
  <1>2. CASE Drop(c)
    <2>1. Advances(c, 0)
      BY <1>0, <1>2, DropTodo DEF Advances
    <2> QED BY <2>1
  <1>3. CASE /\ Now(c).do = "report"
             /\ todo' = [todo EXCEPT ![c] = <<LogTask(Now(c).item, Now(c).session)>> \o Tail(@)]
    <2> DEFINE u == LogTask(Now(c).item, Now(c).session)
    <2>1. u \in Task /\ u.do = "log" /\ u.session = todo[c][1].session
      <3>1. TaskOK(Now(c), issued, post)
        BY <1>0, NowOK
      <3>2. issued \in 0..MaxItems /\ MaxItems \in Nat
        BY SessionAssumption DEF TypeInv, LedgerOK
      <3>3. Now(c).item \in Item /\ Now(c).session \in Session
        BY <1>3, <3>1, <3>2, SessionAssumption DEF TaskOK
      <3>4. Now(c) = todo[c][1]
        BY <1>0, NowOK
      <3> QED BY <3>3, <3>4 DEF Task, LogTask
    <2>2. todo' = [todo EXCEPT ![c] = <<u>> \o Tail(@)]
      BY <1>3
    <2> HIDE DEF u
    <2>3. /\ todo' \in [Caller -> Seq(Task)]
          /\ \A d \in Caller \ {c} : todo'[d] = todo[d]
          /\ DOMAIN todo'[c] = DOMAIN todo[c]
          /\ todo'[c][1] = u
          /\ \A n \in DOMAIN todo[c] \ {1} : todo'[c][n] = todo[c][n]
      BY <1>0, <2>1, <2>2, LogTodo
    <2>4. Advances(c, 0)
      BY <1>0, <2>1, <2>3 DEF Advances
    <2> QED BY <2>4
  <1> QED BY <1>1, <1>2, <1>3

(* A write or a mark that is left was there before, and not at the head.    *)
LEMMA LeftOver ==
    ASSUME TypeInv, NEW c \in Caller, NEW k \in {0, 1}, Advances(c, k),
           NEW d \in Caller, NEW n \in DOMAIN todo'[d],
           Writes(todo'[d][n]) \/ todo'[d][n].do = "mark"
    PROVE  \E m \in DOMAIN todo[d] :
              /\ todo'[d][n] = todo[d][m]
              /\ m = IF d = c THEN n + k ELSE n
              /\ d = c => m > 1
  <1>1. CASE d = c
    BY <1>1 DEF Advances, Writes
  <1>2. CASE d # c
    BY <1>2 DEF Advances
  <1> QED BY <1>1, <1>2

LEMMA TasksKept ==
    ASSUME TypeInv, OneWriter, MarkReady, NEW c \in Caller, NEW k \in {0, 1}, Advances(c, k),
           \A p \in Post : kept[p] \subseteq kept'[p],
           \/ DOMAIN todo'[c] = {}
           \/ Writes(Now(c)) /\ Now(c).post # None => Now(c).item \in kept'[Now(c).post]
    PROVE  OneWriter' /\ MarkReady'
  <1>0. \A d \in Caller : /\ todo[d] \in Seq(Task) /\ todo'[d] \in Seq(Task)
                          /\ DOMAIN todo[d] \subseteq Nat /\ DOMAIN todo'[d] \subseteq Nat
    BY DEF TypeInv, TodoOK, Advances
  <1>1. OneWriter'
    <2> SUFFICES ASSUME NEW d \in Caller, NEW e \in Caller,
                        NEW m \in DOMAIN todo'[d], NEW n \in DOMAIN todo'[e],
                        Writes(todo'[d][m]), Writes(todo'[e][n]),
                        todo'[d][m].item = todo'[e][n].item
                 PROVE  d = e /\ m = n
      BY DEF OneWriter, Writes
    <2>1. PICK x \in DOMAIN todo[d] : /\ todo'[d][m] = todo[d][x]
                                      /\ x = IF d = c THEN m + k ELSE m
      BY LeftOver
    <2>2. PICK y \in DOMAIN todo[e] : /\ todo'[e][n] = todo[e][y]
                                      /\ y = IF e = c THEN n + k ELSE n
      BY LeftOver
    <2>3. d = e /\ x = y
      BY <2>1, <2>2 DEF OneWriter
    <2>4. m \in Nat /\ n \in Nat
      BY <1>0
    <2> QED BY <2>1, <2>2, <2>3, <2>4
  <1>2. MarkReady'
    <2> SUFFICES ASSUME NEW d \in Caller, NEW n \in DOMAIN todo'[d], todo'[d][n].do = "mark",
                        todo'[d][n].item \notin kept'[todo'[d][n].post]
                 PROVE  \E m \in DOMAIN todo'[d] : /\ m < n /\ Writes(todo'[d][m])
                                                   /\ todo'[d][m].item = todo'[d][n].item
                                                   /\ todo'[d][m].post = todo'[d][n].post
      BY DEF MarkReady, Writes
    <2>1. PICK x \in DOMAIN todo[d] : /\ todo'[d][n] = todo[d][x]
                                      /\ x = IF d = c THEN n + k ELSE n
      BY LeftOver
    <2>2. todo[d][x].post \in Post /\ todo[d][x].post # None
      BY <2>1 DEF TypeInv, TodoOK, TaskOK, Task
    <2>3. PICK y \in DOMAIN todo[d] : /\ y < x /\ Writes(todo[d][y])
                                      /\ todo[d][y].item = todo[d][x].item
                                      /\ todo[d][y].post = todo[d][x].post
      BY <2>1, <2>2 DEF MarkReady
    <2>4. CASE d # c
      BY <2>1, <2>3, <2>4 DEF Advances
    <2>5. CASE d = c
      <3>1. y # 1
        <4> SUFFICES ASSUME y = 1 PROVE FALSE
          OBVIOUS
        <4>1. todo[c] # <<>> /\ Now(c) = todo[c][1]
          BY <1>0, <2>3, <2>5 DEF Now
        <4> QED BY <2>1, <2>2, <2>3, <2>5, <4>1
      <3>2. PICK m \in Nat : m + k = y /\ m >= 1
        <4>1. y \in Nat /\ y > 1
          BY <1>0, <2>3, <3>1
        <4>2. y - k \in Nat /\ y - k + k = y /\ y - k >= 1
          BY <4>1
        <4> QED BY <4>2
      <3>3. n \in Nat /\ x = n + k /\ m < n
        BY <1>0, <2>1, <2>3, <2>5, <3>2
      <3>4. m \in DOMAIN todo'[c]
        <4>1. todo'[c] \in Seq(Task) /\ n \in DOMAIN todo'[c]
          BY <1>0, <2>5
        <4> QED BY <3>2, <3>3, <4>1
      <3>5. todo'[c][m] = todo[c][y]
        BY <3>1, <3>2, <3>4 DEF Advances
      <3> QED BY <2>1, <2>3, <2>5, <3>3, <3>4, <3>5
    <2> QED BY <2>4, <2>5
  <1> QED BY <1>1, <1>2

LEMMA KeptRightStays ==
    ASSUME TypeInv, KeptRight, [LobbyNext]_lobbyVars, UNCHANGED <<kept, stored>>
    PROVE  KeptRight'
  <1> SUFFICES ASSUME NEW p \in Post, NEW i \in kept[p]
               PROVE  /\ post'[p] # None /\ stored[i] # None
                      /\ post'[p].kind = "failure" => stored[i] = post'[p].author
    BY DEF KeptRight
  <1>1. /\ post[p] # None /\ stored[i] # None
        /\ post[p].kind = "failure" => stored[i] = post[p].author
    BY DEF KeptRight
  <1>2. /\ post'[p] # None /\ post'[p].author = post[p].author /\ post'[p].kind = post[p].kind
    BY <1>1, PostsFixed DEF TypeInv
  <1> QED BY <1>1, <1>2

LEMMA MarkedStays ==
    ASSUME TypeInv, Marked, \A p \in Post : kept[p] \subseteq kept'[p],
           \/ \E s \in Session : LobbyCalls(s)
           \/ \E b \in Board : Expire(b)
           \/ Forget \/ UNCHANGED post
    PROVE  Marked'
  <1> SUFFICES ASSUME NEW p \in Post, post'[p] # None, post'[p].promoted # None
               PROVE  post'[p].promoted \in kept'[p]
    BY DEF Marked
  <1>1. post[p] # None /\ post[p].promoted = post'[p].promoted
    BY MarksFixed DEF TypeInv
  <1> QED BY <1>1 DEF Marked

(* The ids of what is still to be written. *)
LEMMA ItemsOfTasks ==
    ASSUME TypeInv, NEW c \in Caller, NEW m \in DOMAIN todo[c], Writes(todo[c][m])
    PROVE  todo[c][m].item \in Item /\ todo[c][m].item \in 1..issued
  <1>1. TaskOK(todo[c][m], issued, post)
    BY DEF TypeInv, TodoOK
  <1>2. issued \in 0..MaxItems /\ MaxItems \in Nat
    BY SessionAssumption DEF TypeInv, LedgerOK
  <1> QED BY <1>1, <1>2, SessionAssumption DEF TaskOK, Writes

LEMMA MarkBegins ==
    ASSUME MarkInv, TypeInv', NEW c \in Caller, NEW tasks, NEW n, Begins(c, tasks, n),
           UNCHANGED <<kept, post>>
    PROVE  NotYet' /\ OneWriter' /\ MarkReady'
  <1>0. TypeInv
    BY DEF MarkInv, AccountInv
  <1>1. /\ n \in Nat /\ issued \in Nat /\ issued' = issued + n /\ stored' = stored
        /\ issued' \in 0..MaxItems /\ MaxItems \in Nat
        /\ todo'[c] = tasks /\ \A d \in Caller \ {c} : todo'[d] = todo[d]
    BY <1>0, SessionAssumption DEF Begins, Assign, TypeInv, TodoOK, LedgerOK, ledger
  <1>2. FreshTasks(tasks, issued)
    BY DEF Begins
  <1>3. ASSUME NEW m \in DOMAIN tasks, Writes(tasks[m])
        PROVE  tasks[m].item \in Item /\ tasks[m].item \notin 1..issued
    <2>1. TaskOK(tasks[m], issued', post')
      BY <1>1 DEF TypeInv, TodoOK
    <2>2. tasks[m].item \in 1..issued'
      BY <1>3, <2>1 DEF TaskOK, Writes
    <2> QED BY <1>1, <1>2, <1>3, <2>2, SessionAssumption DEF FreshTasks
  <1>4. NotYet'
    <2>1. \A i \in Item : stored'[i] # None => i \in 1..issued'
      <3>1. \A i \in Item : stored[i] # None => i \in 1..issued
        BY DEF MarkInv, NotYet
      <3>2. 1..issued \subseteq 1..issued'
        BY <1>1
      <3> QED BY <1>1, <3>1, <3>2
    <2>2. ASSUME NEW d \in Caller, NEW m \in DOMAIN todo'[d], Writes(todo'[d][m])
          PROVE  stored'[todo'[d][m].item] = None
      <3>1. CASE d = c
        BY <1>1, <1>3, <2>2, <3>1 DEF MarkInv, NotYet
      <3>2. CASE d # c
        BY <1>1, <2>2, <3>2 DEF MarkInv, NotYet
      <3> QED BY <3>1, <3>2
    <2> QED BY <2>1, <2>2 DEF NotYet, Writes
  <1>5. OneWriter'
    <2> SUFFICES ASSUME NEW d \in Caller, NEW e \in Caller,
                        NEW l \in DOMAIN todo'[d], NEW m \in DOMAIN todo'[e],
                        Writes(todo'[d][l]), Writes(todo'[e][m]),
                        todo'[d][l].item = todo'[e][m].item
                 PROVE  d = e /\ l = m
      BY DEF OneWriter, Writes
    <2>1. CASE d = c /\ e = c
      BY <1>1, <1>2, <2>1 DEF FreshTasks
    <2>2. CASE d # c /\ e # c
      BY <1>1, <2>2 DEF MarkInv, OneWriter
    <2>3. CASE d = c /\ e # c
      BY <1>0, <1>1, <1>3, <2>3, ItemsOfTasks
    <2>4. CASE d # c /\ e = c
      BY <1>0, <1>1, <1>3, <2>4, ItemsOfTasks
    <2> QED BY <2>1, <2>2, <2>3, <2>4
  <1>6. MarkReady'
    <2> SUFFICES ASSUME NEW d \in Caller, NEW l \in DOMAIN todo'[d], todo'[d][l].do = "mark"
                 PROVE  \/ todo'[d][l].item \in kept[todo'[d][l].post]
                        \/ \E m \in DOMAIN todo'[d] : /\ m < l /\ Writes(todo'[d][m])
                                                      /\ todo'[d][m].item = todo'[d][l].item
                                                      /\ todo'[d][m].post = todo'[d][l].post
      BY DEF MarkReady, Writes
    <2>1. CASE d = c
      BY <1>1, <1>2, <2>1 DEF FreshTasks
    <2>2. CASE d # c
      BY <1>1, <2>2 DEF MarkInv, MarkReady
    <2> QED BY <2>1, <2>2
  <1> QED BY <1>4, <1>5, <1>6

(* A task that writes no record, or a failure, takes a caller further. *)
LEMMA MarkAdvances ==
    ASSUME MarkInv, NEW c \in Caller, NEW k \in {0, 1}, Advances(c, k),
           UNCHANGED <<stored, kept, issued>>, DOMAIN todo'[c] = {} \/ ~Writes(Now(c))
    PROVE  NotYet' /\ OneWriter' /\ MarkReady'
  <1>0. TypeInv
    BY DEF MarkInv, AccountInv
  <1>1. OneWriter' /\ MarkReady'
    BY <1>0, TasksKept DEF MarkInv
  <1>2. ASSUME NEW d \in Caller, NEW n \in DOMAIN todo'[d], Writes(todo'[d][n])
        PROVE  stored'[todo'[d][n].item] = None
    <2>1. PICK m \in DOMAIN todo[d] : todo'[d][n] = todo[d][m]
      BY <1>0, <1>2, LeftOver
    <2> QED BY <1>2, <2>1 DEF MarkInv, NotYet
  <1>3. NotYet'
    BY <1>2 DEF MarkInv, NotYet, Writes
  <1> QED BY <1>1, <1>3

LEMMA MarkWrites ==
    ASSUME MarkInv, NEW c \in Caller, WriteStep(c)
    PROVE  /\ NotYet' /\ OneWriter' /\ MarkReady' /\ KeptRight'
           /\ \A p \in Post : kept[p] \subseteq kept'[p]
  <1>t. PICK t : t = Now(c)
    OBVIOUS
  <1>0. TypeInv
    BY DEF MarkInv, AccountInv
  <1>1. /\ ~Idle(c) /\ Writes(t) /\ UNCHANGED <<issued, post>>
        /\ stored' = [stored EXCEPT ![t.item] = t.session]
        /\ kept' = IF t.post = None THEN kept ELSE [kept EXCEPT ![t.post] = @ \cup {t.item}]
    BY <1>t DEF WriteStep, Write, Writes, lobbyVars
  <1>2. 1 \in DOMAIN todo[c] /\ t = todo[c][1] /\ TaskOK(t, issued, post)
    BY <1>t, <1>0, <1>1, NowOK DEF TypeInv
  <1>3. /\ t.item \in Item /\ t.item \in 1..issued /\ t.session \in Session
        /\ t.post \in Post \cup {None}
        /\ t.post # None => post[t.post] # None
        /\ t.post # None /\ post[t.post].kind = "failure" => t.session = post[t.post].author
    <2>1. t.item \in Item /\ t.item \in 1..issued
      BY <1>0, <1>1, <1>2, ItemsOfTasks
    <2> QED BY <1>1, <1>2, <2>1 DEF TaskOK, Task, Writes
  <1>4. /\ stored \in [Item -> Session \cup {None}] /\ kept \in [Post -> SUBSET Item]
        /\ stored[t.item] = None
    BY <1>0, <1>1, <1>2 DEF MarkInv, NotYet, KeptRight, TypeInv, LedgerOK
  <1>5. /\ stored'[t.item] = t.session /\ t.session # None
        /\ \A i \in Item \ {t.item} : stored'[i] = stored[i]
    BY <1>1, <1>3, <1>4, SharedAssumption
  <1>6. /\ kept' \in [Post -> SUBSET Item]
        /\ t.post # None => kept'[t.post] = kept[t.post] \cup {t.item}
        /\ \A p \in Post : p # t.post => kept'[p] = kept[p]
    <2>1. CASE t.post = None
      BY <1>1, <1>4, <2>1, SharedAssumption
    <2>2. CASE t.post # None
      <3>1. kept[t.post] \cup {t.item} \in SUBSET Item
        BY <1>3, <1>4, <2>2
      <3> QED BY <1>1, <1>3, <1>4, <2>2, <3>1
    <2> QED BY <2>1, <2>2
  <1>7. \A p \in Post : kept[p] \subseteq kept'[p]
    BY <1>3, <1>6, SharedAssumption
  <1>8. KeptRight'
    <2> SUFFICES ASSUME NEW p \in Post, NEW i \in kept'[p]
                 PROVE  /\ post[p] # None /\ stored'[i] # None
                        /\ post[p].kind = "failure" => stored'[i] = post[p].author
      BY <1>1, <1>6 DEF KeptRight
    <2>1. CASE i \in kept[p]
      <3>1. i \in Item /\ i # t.item
        BY <1>4, <2>1 DEF MarkInv, KeptRight
      <3> QED BY <1>5, <2>1, <3>1 DEF MarkInv, KeptRight
    <2>2. CASE i \notin kept[p]
      <3>1. i = t.item /\ p = t.post /\ t.post # None
        BY <1>6, <2>2, SharedAssumption
      <3> QED BY <1>3, <1>5, <3>1
    <2> QED BY <2>1, <2>2
  <1>9. PICK k \in {0, 1} : Advances(c, k)
    <2>1. \/ Next1(c)
          \/ /\ Now(c).do = "report"
             /\ todo' = [todo EXCEPT ![c] = <<LogTask(Now(c).item, Now(c).session)>> \o Tail(@)]
      BY DEF WriteStep, Write
    <2> QED BY <1>0, <1>1, <2>1, Advancing
  <1>10. OneWriter' /\ MarkReady'
    <2>1. Writes(Now(c)) /\ Now(c).post # None => Now(c).item \in kept'[Now(c).post]
      BY <1>t, <1>3, <1>6
    <2> QED BY <1>0, <1>7, <1>9, <2>1, TasksKept DEF MarkInv
  <1>11. NotYet'
    <2>1. \A i \in Item : stored'[i] # None => i \in 1..issued
      BY <1>3, <1>5 DEF MarkInv, NotYet
    <2>2. ASSUME NEW d \in Caller, NEW n \in DOMAIN todo'[d], Writes(todo'[d][n])
          PROVE  stored'[todo'[d][n].item] = None
      <3>1. PICK m \in DOMAIN todo[d] : todo'[d][n] = todo[d][m] /\ (d = c => m > 1)
        BY <1>0, <1>9, <2>2, LeftOver
      <3>2. todo[d][m].item # t.item
        <4>1. CASE d = c
          <5>1. m # 1
            BY <3>1, <4>1
          <5> QED BY <1>1, <1>2, <2>2, <3>1, <4>1, <5>1 DEF MarkInv, OneWriter
        <4>2. CASE d # c
          BY <1>1, <1>2, <2>2, <3>1, <4>2 DEF MarkInv, OneWriter
        <4> QED BY <4>1, <4>2
      <3>3. todo[d][m].item \in Item /\ stored[todo[d][m].item] = None
        BY <1>0, <2>2, <3>1, ItemsOfTasks DEF MarkInv, NotYet
      <3> QED BY <1>5, <3>1, <3>2, <3>3
    <2> QED BY <1>1, <2>1, <2>2 DEF NotYet, Writes
  <1> QED BY <1>7, <1>8, <1>10, <1>11

LEMMA MarkInvStep == MarkInv /\ [Next]_vars => MarkInv'
  <1> SUFFICES ASSUME MarkInv, [Next]_vars PROVE MarkInv'
    OBVIOUS
  <1>0. AccountInv /\ TypeInv
    BY DEF MarkInv, AccountInv
  <1>1. AccountInv' /\ TypeInv' /\ [LobbyNext]_lobbyVars
    BY <1>0, AccountStep, LobbySteps DEF AccountInv
  <1> SUFFICES NotYet' /\ OneWriter' /\ KeptRight' /\ MarkReady' /\ Marked'
    BY <1>1 DEF MarkInv
  <1>2. ASSUME NEW c \in Caller, NEW s \in Session,
               \/ Report(c, s) \/ End(c, s) \/ Close(c, s)
               \/ \E p \in Post : PromotePost(c, s, p),
               UNCHANGED <<post, kept, stored>>
        PROVE  NotYet' /\ OneWriter' /\ KeptRight' /\ MarkReady' /\ Marked'
    <2>1. PICK tasks, n : Begins(c, tasks, n)
      BY <1>0, <1>2, Assignments
    <2>2. NotYet' /\ OneWriter' /\ MarkReady'
      BY <1>1, <1>2, <2>1, MarkBegins
    <2>3. KeptRight' /\ Marked'
      BY <1>0, <1>1, <1>2, KeptRightStays, MarkedStays DEF MarkInv
    <2> QED BY <2>2, <2>3
  <1>3. ASSUME UNCHANGED <<todo, stored, kept, issued>>,
               \/ \E s \in Session : LobbyCalls(s)
               \/ \E b \in Board : Expire(b)
               \/ Forget \/ UNCHANGED post
        PROVE  NotYet' /\ OneWriter' /\ KeptRight' /\ MarkReady' /\ Marked'
    <2>1. NotYet' /\ OneWriter' /\ MarkReady'
      BY <1>3 DEF MarkInv, NotYet, OneWriter, MarkReady, Writes
    <2>2. KeptRight' /\ Marked'
      BY <1>0, <1>1, <1>3, KeptRightStays, MarkedStays DEF MarkInv
    <2> QED BY <2>1, <2>2
  <1>4. ASSUME NEW c \in Caller, ~Idle(c), UNCHANGED <<stored, kept, issued, post>>,
               Drop(c) \/ (Next1(c) /\ ~Writes(Now(c)))
        PROVE  NotYet' /\ OneWriter' /\ KeptRight' /\ MarkReady' /\ Marked'
    <2>1. PICK k \in {0, 1} : Advances(c, k)
      BY <1>0, <1>4, Advancing
    <2>2. DOMAIN todo'[c] = {} \/ ~Writes(Now(c))
      BY <1>0, <1>4, DropTodo DEF TypeInv
    <2>3. NotYet' /\ OneWriter' /\ MarkReady'
      BY <1>4, <2>1, <2>2, MarkAdvances
    <2>4. KeptRight' /\ Marked'
      BY <1>0, <1>1, <1>4, KeptRightStays, MarkedStays DEF MarkInv
    <2> QED BY <2>3, <2>4
  <1>5. ASSUME NEW c \in Caller, Read(c) \/ ReadHead(c) \/ Update(c), UNCHANGED <<lobbyVars, shared>>
        PROVE  NotYet' /\ OneWriter' /\ KeptRight' /\ MarkReady' /\ Marked'
    <2>1. ~Idle(c) /\ UNCHANGED <<stored, kept, issued, post>>
      BY <1>5 DEF Read, ReadHead, Update, ledger, lobbyVars, shared
    <2>2. ASSUME Read(c) \/ Update(c) PROVE ~Writes(Now(c))
      <3>1. CASE Read(c)
        BY <3>1 DEF Read, Writes
      <3>2. CASE Update(c)
        BY <1>0, <3>2, ChangingOK DEF Update, Writes, TypeInv, ProgressOK
      <3> QED BY <2>2, <3>1, <3>2
    <2>3. UNCHANGED todo \/ Drop(c) \/ (Next1(c) /\ ~Writes(Now(c)))
      BY <1>5, <2>2 DEF Read, ReadHead, Update
    <2> QED BY <1>3, <1>4, <2>1, <2>3
  <1>6. ASSUME NEW c \in Caller, CallFails(c)
        PROVE  NotYet' /\ OneWriter' /\ KeptRight' /\ MarkReady' /\ Marked'
    <2>1. ~Idle(c) /\ UNCHANGED <<stored, kept, issued, post>> /\ Drop(c)
      BY <1>6 DEF CallFails, Fail, lobbyVars
    <2> QED BY <1>4, <2>1
  <1>7. ASSUME NEW c \in Caller, WriteStep(c)
        PROVE  NotYet' /\ OneWriter' /\ KeptRight' /\ MarkReady' /\ Marked'
    <2>1. /\ NotYet' /\ OneWriter' /\ MarkReady' /\ KeptRight'
          /\ \A p \in Post : kept[p] \subseteq kept'[p]
      BY <1>7, MarkWrites
    <2>2. UNCHANGED post
      BY <1>7 DEF WriteStep, lobbyVars
    <2> QED BY <1>0, <2>1, <2>2, MarkedStays DEF MarkInv
  <1>8. ASSUME NEW c \in Caller, MarkStep(c)
        PROVE  NotYet' /\ OneWriter' /\ KeptRight' /\ MarkReady' /\ Marked'
    <2>t. PICK t : t = Now(c)
      OBVIOUS
    <2>1. /\ ~Idle(c) /\ t.do = "mark" /\ Next1(c) /\ UNCHANGED <<stored, kept, issued>>
          /\ post' = [post EXCEPT ![t.post].promoted = t.item]
      BY <1>8, <2>t DEF MarkStep, Mark, ledger, shared
    <2>2. 1 \in DOMAIN todo[c] /\ t = todo[c][1] /\ DOMAIN todo[c] \subseteq Nat \ {0}
      BY <1>0, <2>t, <2>1, NowOK DEF TypeInv
    <2>3. t.item \in kept[t.post]
      <3>1. ~(\E m \in DOMAIN todo[c] : m < 1)
        BY <2>2
      <3> QED BY <2>1, <2>2, <3>1 DEF MarkInv, MarkReady
    <2>4. t.post \in Post /\ post[t.post] # None
      <3>1. TaskOK(t, issued, post)
        BY <1>0, <2>t, <2>1, NowOK DEF TypeInv
      <3> QED BY <2>1, <3>1 DEF TaskOK, Task
    <2>5. PICK k \in {0, 1} : Advances(c, k)
      BY <1>0, <2>1, Advancing
    <2>6. NotYet' /\ OneWriter' /\ MarkReady'
      <3>1. ~Writes(Now(c))
        BY <2>t, <2>1 DEF Writes
      <3> QED BY <2>1, <2>5, <3>1, MarkAdvances
    <2>7. KeptRight'
      BY <1>0, <1>1, <2>1, KeptRightStays DEF MarkInv
    <2>8. Marked'
      <3> SUFFICES ASSUME NEW p \in Post, post'[p] # None, post'[p].promoted # None
                   PROVE  post'[p].promoted \in kept[p]
        BY <2>1 DEF Marked
      <3>1. CASE p = t.post
        <4>1. post[p] \in PostState
          BY <1>0, <2>4, <3>1 DEF TypeInv, PostsOK
        <4>2. post'[p].promoted = t.item
          BY <1>0, <2>1, <2>4, <3>1, <4>1 DEF TypeInv, PostsOK, PostState
        <4> QED BY <2>3, <3>1, <4>2
      <3>2. CASE p # t.post
        <4>1. post'[p] = post[p]
          BY <1>0, <2>1, <3>2 DEF TypeInv, PostsOK
        <4> QED BY <4>1 DEF MarkInv, Marked
      <3> QED BY <3>1, <3>2
    <2> QED BY <2>6, <2>7, <2>8
  <1>9. CASE SessionStep
    <2>1. ASSUME NEW s \in Session, Start(s) PROVE UNCHANGED <<todo, stored, issued>>
      BY <2>1 DEF Start, progress
    <2>2. ASSUME NEW c \in Caller, NEW s \in Session, Report(c, s) \/ End(c, s)
          PROVE  UNCHANGED stored
      BY <2>2 DEF Report, End, Assign, ledger
    <2> QED BY <1>2, <1>3, <1>5, <1>9, <2>1, <2>2 DEF SessionStep, SessionCalls, lobbyVars, shared
  <1>10. ASSUME NEW c \in Caller, NEW s \in Session,
                Close(c, s) \/ \E p \in Post : PromotePost(c, s, p)
         PROVE  UNCHANGED <<post, kept, stored>>
    BY <1>10 DEF Close, CloseBoard, PromotePost, Assign, ledger, lobbyVars, shared
  <1>11. CASE LobbyCall
    BY <1>3, <1>11 DEF LobbyCall, sessionVars, ledger, progress
  <1>12. CASE Restart \/ UNCHANGED vars
              \/ \E b \in Board : Expire(b) /\ UNCHANGED <<sessionVars, shared>>
    BY <1>3, <1>12 DEF Restart, vars, sessionVars, ledger, progress, shared, lobbyVars
  <1> QED BY <1>2, <1>6, <1>7, <1>8, <1>9, <1>10, <1>11, <1>12 DEF Next

LEMMA MarkInit == Init => MarkInv
  <1>1. Init => AccountInv
    BY AccountInit
  <1>2. Init => NotYet /\ OneWriter /\ KeptRight /\ MarkReady /\ Marked
    BY DEF Init, SessionInit, LobbyInit, NotYet, OneWriter, KeptRight, MarkReady, Marked
  <1> QED BY <1>1, <1>2 DEF MarkInv

LEMMA MarkAlways == Spec => []MarkInv
  BY MarkInit, MarkInvStep, PTL DEF Spec

(* Whoever promotes a post, however often and whatever fails on the way, it *)
(* is marked only with a record that is stored, a failure with one of its   *)
(* author's session (lobby_surface.py _promote).                            *)
THEOREM MarksAreAlwaysStored == Spec => []MarksAreStored
  <1>1. MarkInv => MarksAreStored
    BY DEF MarkInv, KeptRight, Marked, MarksAreStored
  <1> QED BY <1>1, MarkAlways, PTL

-----------------------------------------------------------------------------
(* Failures.                                                               *)

(* Whose sessions the failures before p on board b are of. *)
Owners(b, p) == {post[q].author : q \in Ahead(b, p)}

Unstarted == \A s \in Session : ~Started(s) => account[s] = <<>>

(* A post is on one board. *)
PostsOnce ==
    \A a \in Board : board[a] # None => \A p \in Posts(a) :
        /\ p \in Post /\ post[p] # None
        /\ \A b \in Board : board[b] # None /\ p \in Posts(b) => a = b

(* What a call does before it reports a failure of a board is on accounts   *)
(* of authors of failures posted before it on that board, which is closed.  *)
LogsLocal ==
    \A c \in Caller : \A m, n \in DOMAIN todo[c] :
        m < n /\ Writes(todo[c][n]) =>
            \A b \in Board, p \in Post : 
                todo[c][n].post = p /\ board[b] # None /\ p \in Posts(b) =>
                    ~board[b].open /\ todo[c][m].session \in Owners(b, p)

FailInv == MarkInv /\ Unstarted /\ PostsOnce /\ LogsLocal /\ FailuresKept

LEMMA FailTypes == FailInv => AccountInv /\ TypeInv /\ LobbyInv /\ PostsOK
  BY DEF FailInv, MarkInv, AccountInv, TypeInv

(* Versions of sessions stay. *)
LEMMA VersionsStay ==
    ASSUME AccountInv, Unstarted, [Next]_vars
    PROVE  Unstarted' /\ \A s \in Session : EverEnded(s) => EverEnded(s)'
  <1>0. TypeInv
    BY DEF AccountInv
  <1>1. CASE UNCHANGED <<account, chain>>
    BY <1>1 DEF Unstarted, Started, EverEnded
  <1>2. ASSUME NEW c \in Caller, NEW t \in Session, NEW onChain \in BOOLEAN, Adds(c, t, onChain)
        PROVE  Unstarted' /\ \A s \in Session : EverEnded(s) => EverEnded(s)'
    <2>1. /\ \A s \in Session : Started(s) => Started(s)'
          /\ \A s \in Session \ {t} : account'[s] = account[s] /\ chain'[s] = chain[s]
          /\ \A n \in DOMAIN account[t] : n \in DOMAIN account'[t] /\ account'[t][n] = account[t][n]
      BY <1>2, Adding
    <2>2. Started(t)
      BY <1>0, <1>2, ChangingOK DEF Adds
    <2> QED BY <2>1, <2>2 DEF Unstarted, EverEnded
  <1>3. ASSUME NEW s \in Session, Start(s)
        PROVE  Unstarted' /\ \A t \in Session : EverEnded(t) => EverEnded(t)'
    <2>1. /\ ~EverEnded(s) /\ Started(s)'
          /\ \A t \in Session \ {s} : account'[t] = account[t] /\ chain'[t] = chain[t]
      BY <1>0, <1>3 DEF Start, Unstarted, EverEnded, Started, TypeInv, LedgerOK
    <2> QED BY <2>1 DEF Unstarted, EverEnded, Started
  <1>4. ASSUME NEW c \in Caller, Update(c)
        PROVE  \E t \in Session, onChain \in BOOLEAN : Adds(c, t, onChain)
    <2>1. read[c] # None
      BY <1>0, <1>4 DEF Update, TypeInv, ProgressOK
    <2>2. Adds(c, Now(c).session, TRUE) /\ Now(c).session \in Session
      BY <1>0, <1>4, <2>1, ChangingOK DEF Update, AddVersion, Adds
    <2> QED BY <2>2
  <1>5. ASSUME NEW c \in Caller, Fail(c)
        PROVE  \/ UNCHANGED <<account, chain>>
               \/ \E t \in Session, onChain \in BOOLEAN : Adds(c, t, onChain)
    BY <1>0, <1>5, FailAdds, ChangingOK
  <1>6. ASSUME NEW c \in Caller, NEW s \in Session,
               \/ Report(c, s) \/ End(c, s) \/ Close(c, s) \/ Read(c) \/ ReadHead(c)
               \/ WriteStep(c) \/ MarkStep(c)
               \/ \E p \in Post : PromotePost(c, s, p)
        PROVE  UNCHANGED <<account, chain>>
    BY <1>6 DEF Report, End, Close, PromotePost, Assign, Read, ReadHead, WriteStep, Write, MarkStep,
                ledger
  <1>7. CASE SessionStep
    <2>1. \/ \E s \in Session : Start(s)
          \/ \E c \in Caller, s \in Session : Report(c, s) \/ End(c, s)
          \/ \E c \in Caller : Read(c) \/ ReadHead(c) \/ Update(c)
      BY <1>7 DEF SessionStep, SessionCalls
    <2>2. CASE \E c \in Caller, s \in Session : Report(c, s) \/ End(c, s)
      BY <1>1, <1>6, <2>2
    <2>3. ASSUME NEW c \in Caller, Read(c) \/ ReadHead(c)
          PROVE  UNCHANGED <<account, chain>>
      BY <2>3 DEF Read, ReadHead, ledger
    <2>4. CASE \E c \in Caller : Read(c) \/ ReadHead(c)
      BY <1>1, <2>3, <2>4
    <2>5. CASE \E c \in Caller : Update(c)
      BY <1>2, <1>4, <2>5
    <2>6. CASE \E s \in Session : Start(s)
      BY <1>3, <2>6
    <2> QED BY <2>1, <2>2, <2>4, <2>5, <2>6
  <1>8. ASSUME NEW c \in Caller, WriteStep(c) \/ MarkStep(c) \/ CallFails(c)
        PROVE  Unstarted' /\ \A s \in Session : EverEnded(s) => EverEnded(s)'
    <2>1. WriteStep(c) \/ MarkStep(c) => UNCHANGED <<account, chain>>
      BY DEF WriteStep, Write, MarkStep, ledger
    <2> QED BY <1>1, <1>2, <1>5, <1>8, <2>1 DEF CallFails
  <1>9. CASE LobbyCall \/ Restart \/ UNCHANGED vars
             \/ \E b \in Board : Expire(b) /\ UNCHANGED <<sessionVars, shared>>
    BY <1>1, <1>9 DEF LobbyCall, Restart, vars, sessionVars, ledger
  <1> QED BY <1>1, <1>6, <1>7, <1>8, <1>9 DEF Next

(* The boards over a step. *)
Closes == \E c \in Caller, s \in Session : Close(c, s)

ClosedNow(o) ==
    /\ o \in OpenBoards /\ board'[o] # None /\ ~board'[o].open
    /\ board'[o].posts = board[o].posts
    /\ \A b \in Board \ {o} : board'[b] = board[b]
    /\ UNCHANGED post

LEMMA CloseBoards ==
    ASSUME LobbyInv, NEW c \in Caller, NEW s \in Session, Close(c, s)
    PROVE  \E o \in OpenBoards : o = boardOf[s] /\ ClosedNow(o)
  <1>1. PICK o \in OpenBoards : o = boardOf[s]
    BY DEF Close, Seated
  <1>2. board[o] \in BoardState /\ o \in Board /\ board \in [Board -> BoardState \cup {None}]
    BY DEF OpenBoards, LobbyInv, BoardsOK
  <1>3. board' = [board EXCEPT ![o].open = FALSE] /\ UNCHANGED post
    BY <1>1 DEF Close, CloseBoard
  <1>4. PICK new \in BoardState : new = [board[o] EXCEPT !.open = FALSE]
    BY <1>2 DEF BoardState
  <1>5. board' = [board EXCEPT ![o] = new]
    BY <1>3, <1>4
  <1>6. board'[o] = new /\ \A b \in Board \ {o} : board'[b] = board[b]
    BY <1>2, <1>5
  <1>7. new.posts = board[o].posts /\ ~new.open /\ new # None
    BY <1>2, <1>4, LobbyAssumption DEF BoardState
  <1>8. board'[o].posts = board[o].posts
    BY <1>6, <1>7
  <1>9. ClosedNow(o)
    BY <1>3, <1>6, <1>7, <1>8 DEF ClosedNow
  <1> QED BY <1>1, <1>9

LEMMA BoardsEvolve ==
    ASSUME TypeInv, [Next]_vars
    PROVE  \/ \A b \in Board : Fewer(b)
           \/ \E o \in Board, q \in Post : Posted(o, q) /\ \A b \in Board \ {o} : Fewer(b)
           \/ \E c \in Caller, s \in Session : Close(c, s) /\ \E o \in OpenBoards :
                 o = boardOf[s] /\ ClosedNow(o)
  <1>0. LobbyInv /\ PostsOK
    BY DEF TypeInv
  <1>1. CASE \E c \in Caller, s \in Session : Close(c, s)
    BY <1>0, <1>1, CloseBoards
  <1>2. CASE LobbyCall
    BY <1>0, <1>2, BoardSteps DEF LobbyCall
  <1>3. CASE \E b \in Board : Expire(b) /\ UNCHANGED <<sessionVars, shared>>
    BY <1>0, <1>3, BoardSteps
  <1>4. CASE Restart
    BY <1>0, <1>4, BoardSteps DEF Restart
  <1>5. CASE SessionStep \/ UNCHANGED vars
    BY <1>0, <1>5, BoardSteps DEF SessionStep, vars, lobbyVars
  <1>6. ASSUME NEW c \in Caller, WriteStep(c) \/ MarkStep(c) \/ CallFails(c)
        PROVE  UNCHANGED board
    BY <1>6 DEF WriteStep, MarkStep, Mark, CallFails, lobbyVars
  <1>7. ASSUME NEW c \in Caller, NEW s \in Session, NEW p \in Post, PromotePost(c, s, p)
        PROVE  UNCHANGED board
    BY <1>7 DEF PromotePost, lobbyVars
  <1> QED BY <1>0, <1>1, <1>2, <1>3, <1>4, <1>5, <1>6, <1>7, BoardSteps DEF Next

(* A board on which there was a post: it stays where it is, and what is     *)
(* closed stays as it is.                                                   *)
LEMMA OldPosts ==
    ASSUME TypeInv, [Next]_vars, NEW b \in Board, board'[b] # None,
           NEW p \in Posts(b)', post[p] # None
    PROVE  /\ board[b] # None /\ p \in Posts(b)
           /\ ~board[b].open => ~board'[b].open /\ board'[b].posts = board[b].posts
  <1>1. CASE Fewer(b)
    BY <1>1 DEF Fewer, Posts
  <1>2. ASSUME NEW q \in Post, Posted(b, q)
        PROVE  /\ board[b] # None /\ p \in Posts(b)
               /\ ~board[b].open => ~board'[b].open /\ board'[b].posts = board[b].posts
    BY <1>2 DEF Posted, OpenBoards
  <1>3. CASE ClosedNow(b)
    BY <1>3 DEF ClosedNow, OpenBoards, Posts
  <1>4. CASE board'[b] = board[b]
    BY <1>4 DEF Posts
  <1>5. Fewer(b) \/ (\E q \in Post : Posted(b, q)) \/ ClosedNow(b) \/ board'[b] = board[b]
    BY BoardsEvolve DEF ClosedNow
  <1> QED BY <1>1, <1>2, <1>3, <1>4, <1>5

LEMMA ClosedBoards ==
    ASSUME TypeInv, [Next]_vars, NEW b \in Board, board'[b] # None, ~board'[b].open
    PROVE  /\ board[b] # None /\ board'[b].posts = board[b].posts
           /\ \/ ~board[b].open
              \/ \E c \in Caller, s \in Session : /\ Close(c, s) /\ b = boardOf[s]
                                                  /\ b \in OpenBoards /\ UNCHANGED post
  <1>1. CASE Fewer(b)
    BY <1>1 DEF Fewer
  <1>2. ASSUME NEW q \in Post, Posted(b, q)
        PROVE  FALSE
    BY <1>2 DEF Posted, OpenBoards
  <1>3. ASSUME NEW c \in Caller, NEW s \in Session, Close(c, s), NEW o \in OpenBoards,
               o = boardOf[s], ClosedNow(o)
        PROVE  /\ board[b] # None /\ board'[b].posts = board[b].posts
               /\ ~board[b].open \/ (b = boardOf[s] /\ b \in OpenBoards /\ UNCHANGED post)
    <2>1. CASE b = o
      BY <1>3, <2>1 DEF ClosedNow, OpenBoards
    <2>2. CASE b # o
      BY <1>3, <2>2 DEF ClosedNow, Posts
    <2> QED BY <2>1, <2>2
  <1>4. \/ Fewer(b) \/ \E q \in Post : Posted(b, q)
        \/ \E c \in Caller, s \in Session : Close(c, s) /\ \E o \in OpenBoards :
                 o = boardOf[s] /\ ClosedNow(o)
    BY BoardsEvolve
  <1> QED BY <1>1, <1>2, <1>3, <1>4

LEMMA PostsOnceKept ==
    ASSUME TypeInv, PostsOnce, [Next]_vars
    PROVE  PostsOnce'
  <1> SUFFICES ASSUME NEW a \in Board, board'[a] # None, NEW p \in Posts(a)'
               PROVE  /\ p \in Post /\ post'[p] # None
                      /\ \A b \in Board : board'[b] # None /\ p \in Posts(b)' => a = b
    BY DEF PostsOnce
  <1>0. [LobbyNext]_lobbyVars
    BY LobbySteps
  <1>1. CASE post[p] # None
    <2>1. \A b \in Board : board'[b] # None /\ p \in Posts(b)' => board[b] # None /\ p \in Posts(b)
      BY <1>1, OldPosts
    <2>2. p \in Post /\ \A b \in Board : board'[b] # None /\ p \in Posts(b)' => a = b
      BY <2>1 DEF PostsOnce
    <2>3. post'[p] # None
      BY <1>0, <1>1, <2>2, PostsFixed DEF TypeInv
    <2> QED BY <2>2, <2>3
  <1>2. CASE post[p] = None
    <2>1. \A b \in Board : board[b] # None => p \notin Posts(b)
      BY <1>2 DEF PostsOnce
    <2>2. \A b \in Board : Fewer(b) => ~(board'[b] # None /\ p \in Posts(b)')
      BY <2>1 DEF Fewer
    <2>3. \A o \in OpenBoards : ClosedNow(o) => \A b \in Board : ~(board'[b] # None /\ p \in Posts(b)')
      BY <2>1 DEF ClosedNow, OpenBoards, Posts
    <2>4. PICK o \in Board, q \in Post : Posted(o, q) /\ \A b \in Board \ {o} : Fewer(b)
      BY <2>2, <2>3, BoardsEvolve
    <2>5. a = o /\ \A b \in Board : board'[b] # None /\ p \in Posts(b)' => b = o
      BY <2>2, <2>4
    <2>6. p = q
      BY <2>1, <2>4, <2>5 DEF Posted, OpenBoards
    <2> QED BY <2>4, <2>5, <2>6 DEF Posted
  <1> QED BY <1>1, <1>2

LEMMA OwnersStay ==
    ASSUME TypeInv, PostsOnce, [Next]_vars, NEW b \in Board, board[b] # None,
           board'[b].posts = board[b].posts
    PROVE  /\ Posts(b)' = Posts(b)
           /\ \A p : Ahead(b, p)' = Ahead(b, p) /\ Owners(b, p)' = Owners(b, p)
           /\ \A p \in Posts(b) : post'[p].kind = post[p].kind /\ post'[p].author = post[p].author
  <1>1. \A p \in Posts(b) : p \in Post /\ post[p] # None
    BY DEF PostsOnce
  <1>2. \A p \in Posts(b) : post'[p].kind = post[p].kind /\ post'[p].author = post[p].author
    BY <1>1, LobbySteps, PostsFixed DEF TypeInv
  <1>3. Posts(b)' = Posts(b)
    BY DEF Posts
  <1>4. ASSUME NEW p PROVE Ahead(b, p)' = Ahead(b, p)
    BY <1>2, <1>3 DEF Ahead
  <1>5. ASSUME NEW p PROVE Owners(b, p)' = Owners(b, p)
    <2>1. \A q \in Ahead(b, p) : post'[q].author = post[q].author
      BY <1>2 DEF Ahead
    <2> QED BY <1>4, <2>1 DEF Owners
  <1> QED BY <1>2, <1>3, <1>4, <1>5

(* A task that waits for one on a post of closed boards. *)
LEMMA StillLocal ==
    ASSUME TypeInv, PostsOnce, LogsLocal, [Next]_vars,
           NEW c \in Caller, NEW m \in DOMAIN todo[c], NEW n \in DOMAIN todo[c], m < n,
           Writes(todo[c][n]), NEW b \in Board, board'[b] # None,
           NEW p \in Post, p = todo[c][n].post, p \in Posts(b)'
    PROVE  ~board'[b].open /\ todo[c][m].session \in Owners(b, p)'
  <1>1. post[p] # None
    BY SharedAssumption DEF TypeInv, TodoOK, TaskOK
  <1>2. /\ board[b] # None /\ p \in Posts(b)
        /\ ~board[b].open => ~board'[b].open /\ board'[b].posts = board[b].posts
    BY <1>1, OldPosts
  <1>3. ~board[b].open /\ todo[c][m].session \in Owners(b, p)
    BY <1>2 DEF LogsLocal
  <1> QED BY <1>2, <1>3, OwnersStay

LEMMA LogsAdvance ==
    ASSUME TypeInv, PostsOnce, LogsLocal, [Next]_vars,
           NEW c \in Caller, NEW k \in {0, 1}, Advances(c, k)
    PROVE  LogsLocal'
  <1> SUFFICES ASSUME NEW d \in Caller, NEW m \in DOMAIN todo'[d], NEW n \in DOMAIN todo'[d], m < n,
                      Writes(todo'[d][n]), NEW b \in Board, board'[b] # None,
                      NEW p \in Post, p = todo'[d][n].post, p \in Posts(b)'
               PROVE  ~board'[b].open /\ todo'[d][m].session \in Owners(b, p)'
    BY DEF LogsLocal, Writes
  <1>1. PICK y \in DOMAIN todo[d] : todo'[d][n] = todo[d][y] /\ y = IF d = c THEN n + k ELSE n
    BY LeftOver
  <1>2. PICK x \in DOMAIN todo[d] : /\ todo'[d][m].session = todo[d][x].session
                                    /\ x = IF d = c THEN m + k ELSE m
    <2>1. CASE d = c
      BY <2>1 DEF Advances
    <2>2. CASE d # c
      BY <2>2 DEF Advances
    <2> QED BY <2>1, <2>2
  <1>3. x < y
    <2>1. m \in Nat /\ n \in Nat
      BY DEF Advances
    <2> QED BY <1>1, <1>2, <2>1
  <1> QED BY <1>1, <1>2, <1>3, StillLocal

(* The tasks of the calls on the lobby's behalf. *)
LEMMA SingleWrites ==
    ASSUME TypeInv, NEW c \in Caller, NEW s \in Session,
           \/ Report(c, s) \/ End(c, s) \/ \E p \in Post : PromotePost(c, s, p)
    PROVE  /\ Idle(c) /\ \A d \in Caller \ {c} : todo'[d] = todo[d]
           /\ \A n \in DOMAIN todo'[c] : Writes(todo'[c][n]) => n = 1
  <1>0. todo \in [Caller -> Seq(Task)]
    BY DEF TypeInv, TodoOK
  <1>1. ASSUME NEW tasks, NEW n, Assign(c, tasks, n), \A m \in DOMAIN tasks : Writes(tasks[m]) => m = 1
        PROVE  /\ Idle(c) /\ \A d \in Caller \ {c} : todo'[d] = todo[d]
               /\ \A m \in DOMAIN todo'[c] : Writes(todo'[c][m]) => m = 1
    <2>1. todo'[c] = tasks /\ Idle(c) /\ \A d \in Caller \ {c} : todo'[d] = todo[d]
      BY <1>0, <1>1 DEF Assign
    <2> QED BY <1>1, <2>1
  <1>2. ASSUME NEW t PROVE DOMAIN <<t>> = {1}
    OBVIOUS
  <1>3. CASE Report(c, s)
    BY <1>1, <1>2, <1>3 DEF Report
  <1>4. CASE End(c, s)
    BY <1>1, <1>2, <1>4 DEF End
  <1>5. ASSUME NEW p \in Post, PromotePost(c, s, p)
        PROVE  /\ Idle(c) /\ \A d \in Caller \ {c} : todo'[d] = todo[d]
               /\ \A n \in DOMAIN todo'[c] : Writes(todo'[c][n]) => n = 1
    <2>1. ASSUME NEW x, NEW m \in DOMAIN <<x, MarkTask(p, issued + 1), LogTask(issued + 1, s)>>,
                 Writes(<<x, MarkTask(p, issued + 1), LogTask(issued + 1, s)>>[m])
          PROVE  m = 1
      <3>1. ~Writes(MarkTask(p, issued + 1)) /\ ~Writes(LogTask(issued + 1, s))
        BY DEF MarkTask, LogTask, Writes
      <3> QED BY <2>1, <3>1
    <2>2. \A m \in DOMAIN PromoteTasks(s, p, issued + 1) :
              Writes(PromoteTasks(s, p, issued + 1)[m]) => m = 1
      <3>1. CASE post[p].kind = "failure"
        BY <2>1, <3>1 DEF PromoteTasks
      <3>2. CASE post[p].kind # "failure"
        BY <2>1, <3>2 DEF PromoteTasks
      <3> QED BY <3>1, <3>2
    <2> QED BY <1>1, <1>5, <2>2 DEF PromotePost
  <1> QED BY <1>3, <1>4, <1>5

LEMMA LogsBegin ==
    ASSUME TypeInv, TypeInv', PostsOnce, LogsLocal, [Next]_vars, NEW c \in Caller,
           \A d \in Caller \ {c} : todo'[d] = todo[d],
           \A n \in DOMAIN todo'[c] : Writes(todo'[c][n]) => n = 1
    PROVE  LogsLocal'
  <1> SUFFICES ASSUME NEW d \in Caller, NEW m \in DOMAIN todo'[d], NEW n \in DOMAIN todo'[d], m < n,
                      Writes(todo'[d][n]), NEW b \in Board, board'[b] # None,
                      NEW p \in Post, p = todo'[d][n].post, p \in Posts(b)'
               PROVE  ~board'[b].open /\ todo'[d][m].session \in Owners(b, p)'
    BY DEF LogsLocal, Writes
  <1>1. CASE d = c
    <2>1. n = 1 /\ todo'[c] \in Seq(Task)
      BY <1>1 DEF TypeInv, TodoOK
    <2>2. m \in Nat \ {0}
      BY <1>1, <2>1
    <2> QED BY <2>1, <2>2
  <1>2. CASE d # c
    <2>1. todo'[d] = todo[d]
      BY <1>2
    <2> QED BY <2>1, StillLocal
  <1> QED BY <1>1, <1>2

(* What a closing call is left to do: the failures at positions at of board *)
(* o, first reported, then linked.                                          *)
ClosesWith(c, s, o, at, n) ==
    /\ o \in OpenBoards /\ o = boardOf[s] /\ at \in InOrder(UnpromotedFailures(o))
    /\ Idle(c) /\ \A d \in Caller \ {c} : todo'[d] = todo[d]
    /\ n \in Nat /\ DOMAIN at = 1..n /\ DOMAIN todo'[c] = 1..(n + n)
    /\ \A m \in 1..n :
          /\ board[o].posts[at[m]] \in Posts(o)
          /\ todo'[c][m].do = "report" /\ todo'[c][m].post = board[o].posts[at[m]]
          /\ todo'[c][m].session = post[board[o].posts[at[m]]].author
          /\ todo'[c][n + m].do = "log"

LEMMA ClosingTodo ==
    ASSUME TypeInv, NEW c \in Caller, NEW s \in Session, Close(c, s)
    PROVE  \E o, at, n : ClosesWith(c, s, o, at, n)
  <1>1. PICK o \in OpenBoards : o = boardOf[s]
    BY DEF Close, Seated
  <1>2. PICK at \in InOrder(UnpromotedFailures(o)) :
            Assign(c, ClosingTasks(o, at, s), Cardinality(DOMAIN at))
    BY <1>1, Zenon DEF Close, ClosingTasks
  <1>3. issued + Cardinality(DOMAIN at) <= MaxItems
    BY <1>2 DEF Assign
  <1>4. /\ todo'[c] = ClosingTasks(o, at, s) /\ Idle(c)
        /\ \A d \in Caller \ {c} : todo'[d] = todo[d]
    BY <1>2 DEF Assign, TypeInv, TodoOK
  <1>5. PICK n \in Nat :
              /\ n = Cardinality(DOMAIN at)
              /\ DOMAIN at = 1..n
              /\ DOMAIN ClosingTasks(o, at, s) = 1..(n + n)
              /\ \A m \in 1..n :
                    /\ ClosingTasks(o, at, s)[m] =
                          ReportTask(issued + m, post[board[o].posts[at[m]]].author,
                                     board[o].posts[at[m]])
                    /\ ClosingTasks(o, at, s)[n + m] = LogTask(issued + m, s)
                    /\ board[o].posts[at[m]] \in Posts(o)
    BY <1>3, CloseTasks
  <1>6. ASSUME NEW m \in 1..n
        PROVE  /\ todo'[c][m].do = "report" /\ todo'[c][m].post = board[o].posts[at[m]]
               /\ todo'[c][m].session = post[board[o].posts[at[m]]].author
               /\ todo'[c][n + m].do = "log"
               /\ board[o].posts[at[m]] \in Posts(o)
    <2>1. todo'[c][m] = ReportTask(issued + m, post[board[o].posts[at[m]]].author,
                                   board[o].posts[at[m]])
      BY <1>4, <1>5
    <2>2. todo'[c][n + m] = LogTask(issued + m, s)
      BY <1>4, <1>5
    <2> QED BY <1>5, <2>1, <2>2 DEF ReportTask, LogTask
  <1>7. DOMAIN todo'[c] = 1..(n + n)
    BY <1>4, <1>5
  <1>8. ClosesWith(c, s, o, at, n)
    BY <1>1, <1>4, <1>5, <1>6, <1>7 DEF ClosesWith
  <1> QED BY <1>8

LEMMA LogsClose ==
    ASSUME TypeInv, PostsOnce, PostsOnce', LogsLocal, [Next]_vars,
           NEW c \in Caller, NEW s \in Session, Close(c, s)
    PROVE  LogsLocal'
  <1> SUFFICES ASSUME NEW d \in Caller, NEW m \in DOMAIN todo'[d], NEW n \in DOMAIN todo'[d], m < n,
                      Writes(todo'[d][n]), NEW b \in Board, board'[b] # None,
                      NEW p \in Post, p = todo'[d][n].post, p \in Posts(b)'
               PROVE  ~board'[b].open /\ todo'[d][m].session \in Owners(b, p)'
    BY DEF LogsLocal, Writes
  <1>1. PICK o \in OpenBoards : o = boardOf[s] /\ ClosedNow(o)
    BY CloseBoards DEF TypeInv
  <1>2. PICK at, j : ClosesWith(c, s, o, at, j)
    <2>1. PICK q, at, j : ClosesWith(c, s, q, at, j)
      BY ClosingTodo
    <2>2. q = o
      BY <1>1, <2>1 DEF ClosesWith
    <2> QED BY <2>1, <2>2
  <1>3. j \in Nat /\ DOMAIN todo'[c] = 1..(j + j) /\ \A e \in Caller \ {c} : todo'[e] = todo[e]
    BY <1>2 DEF ClosesWith
  <1>4. CASE d = c
    <2>1. n \in 1..j
      <3>1. n \in 1..(j + j)
        BY <1>3, <1>4
      <3>2. CASE n > j
        <4>1. PICK l \in 1..j : j + l = n
          <5>1. n - j \in 1..j /\ j + (n - j) = n
            BY <1>3, <3>1, <3>2
          <5> QED BY <5>1
        <4>2. todo'[c][j + l].do = "log"
          BY <1>2 DEF ClosesWith
        <4> QED BY <1>4, <4>1, <4>2 DEF Writes
      <3> QED BY <1>3, <3>1, <3>2
    <2>2. m \in 1..j
      BY <1>3, <1>4, <2>1
    <2>3. /\ todo'[c][n].post = board[o].posts[at[n]] /\ board[o].posts[at[n]] \in Posts(o)
          /\ todo'[c][m].session = post[board[o].posts[at[m]]].author
          /\ board[o].posts[at[m]] \in Posts(o)
      BY <1>2, <2>1, <2>2 DEF ClosesWith
    <2>4. b = o
      <3>1. board'[o] # None /\ p \in Posts(o)'
        BY <1>1, <1>4, <2>3 DEF ClosedNow, Posts
      <3> QED BY <3>1 DEF PostsOnce, OpenBoards
    <2>5. ~board'[o].open /\ board'[o].posts = board[o].posts /\ board[o] # None /\ o \in Board
      BY <1>1, LobbyAssumption DEF ClosedNow, OpenBoards
    <2>6. Owners(o, p)' = Owners(o, p)
      BY <2>5, OwnersStay
    <2>7. todo'[c][m].session \in Owners(o, p)
      <3>1. /\ at[m] \in UnpromotedFailures(o) /\ at[n] \in UnpromotedFailures(o)
            /\ at[m] < at[n]
        <4>1. PICK i \in Nat : /\ DOMAIN at = 1..i /\ at \in [1..i -> UnpromotedFailures(o)]
                               /\ \A x, y \in 1..i : x < y => at[x] < at[y]
          BY <1>2, CloseEnumerates DEF ClosesWith
        <4>2. m \in 1..i /\ n \in 1..i
          BY <1>2, <2>1, <2>2, <4>1 DEF ClosesWith
        <4> QED BY <4>1, <4>2
      <3>2. board[o].posts[at[m]] \in Ahead(o, p)
        BY <1>4, <2>3, <3>1 DEF Ahead, UnpromotedFailures, Unpromoted
      <3> QED BY <2>3, <3>2 DEF Owners
    <2> QED BY <1>4, <2>4, <2>5, <2>6, <2>7
  <1>5. CASE d # c
    <2>1. todo'[d] = todo[d]
      BY <1>3, <1>5
    <2> QED BY <2>1, StillLocal
  <1> QED BY <1>4, <1>5

(* What a step does to the lists of tasks. *)
LEMMA TodoSteps ==
    ASSUME AccountInv, [Next]_vars
    PROVE  \/ UNCHANGED todo
           \/ Closes
           \/ \E c \in Caller, s \in Session :
                 Report(c, s) \/ End(c, s) \/ \E p \in Post : PromotePost(c, s, p)
           \/ \E c \in Caller : ~Idle(c) /\ (WriteStep(c) \/ CallFails(c))
           \/ \E c \in Caller : /\ ~Idle(c) /\ ~Writes(Now(c))
                                /\ Next1(c) \/ (Drop(c) /\ EverEnded(Now(c).session))
  <1>0. TypeInv
    BY DEF AccountInv
  <1>1. CASE LobbyCall \/ Restart \/ UNCHANGED vars
             \/ \E b \in Board : Expire(b) /\ UNCHANGED <<sessionVars, shared>>
    BY <1>1 DEF LobbyCall, Restart, vars, sessionVars, progress
  <1>2. ASSUME NEW s \in Session, Start(s) PROVE UNCHANGED todo
    BY <1>2 DEF Start, progress
  <1>3. ASSUME NEW c \in Caller, ReadHead(c) PROVE UNCHANGED todo
    BY <1>3 DEF ReadHead
  <1>4. ASSUME NEW c \in Caller, Update(c) PROVE ~Idle(c) /\ ~Writes(Now(c)) /\ Next1(c)
    BY <1>0, <1>4, ChangingOK DEF Update, Writes, TypeInv, ProgressOK
  <1>5. ASSUME NEW c \in Caller, MarkStep(c) PROVE ~Idle(c) /\ ~Writes(Now(c)) /\ Next1(c)
    BY <1>5 DEF MarkStep, Writes
  <1>6. ASSUME NEW c \in Caller, WriteStep(c) \/ CallFails(c) PROVE ~Idle(c)
    BY <1>6 DEF WriteStep, Write, CallFails, Fail
  <1>7. ASSUME NEW c \in Caller, Read(c)
        PROVE  \/ UNCHANGED todo
               \/ /\ ~Idle(c) /\ ~Writes(Now(c))
                  /\ Next1(c) \/ (Drop(c) /\ EverEnded(Now(c).session))
    <2>1. ~Idle(c) /\ ~Writes(Now(c)) /\ Now(c).session \in Session
      <3>1. ~Idle(c) /\ Now(c).do \in {"log", "end"}
        BY <1>7 DEF Read
      <3> QED BY <1>0, <3>1, NowOK DEF Writes, TypeInv, TaskOK
    <2>2. ASSUME Started(Now(c).session), ~Changeable(Now(c).session) PROVE EverEnded(Now(c).session)
      <3>1. /\ Tip(chain[Now(c).session]) \in 1..Len(account[Now(c).session])
            /\ account[Now(c).session] \in Seq(Account)
        BY <1>0, <2>1, <2>2, CurrentOK DEF TypeInv, LedgerOK
      <3> QED BY <2>2, <3>1 DEF Changeable, Current, EverEnded
    <2> QED BY <1>7, <2>1, <2>2 DEF Read
  <1>8. CASE SessionStep
    <2>1. \/ \E s \in Session : Start(s)
          \/ \E c \in Caller, s \in Session : Report(c, s) \/ End(c, s)
          \/ \E c \in Caller : Read(c) \/ ReadHead(c) \/ Update(c)
      BY <1>8 DEF SessionStep, SessionCalls
    <2> QED BY <1>2, <1>3, <1>4, <1>7, <2>1
  <1> QED BY <1>1, <1>5, <1>6, <1>8 DEF Next, Closes

LEMMA LogsLocalKept ==
    ASSUME AccountInv, PostsOnce, LogsLocal, [Next]_vars, TypeInv', PostsOnce'
    PROVE  LogsLocal'
  <1>0. TypeInv
    BY DEF AccountInv
  <1>1. CASE UNCHANGED todo
    <2> SUFFICES ASSUME NEW d \in Caller, NEW m \in DOMAIN todo[d], NEW n \in DOMAIN todo[d], m < n,
                        Writes(todo[d][n]), NEW b \in Board, board'[b] # None,
                        NEW p \in Post, p = todo[d][n].post, p \in Posts(b)'
                 PROVE  ~board'[b].open /\ todo[d][m].session \in Owners(b, p)'
      BY <1>1 DEF LogsLocal, Writes
    <2> QED BY <1>0, StillLocal
  <1>2. CASE Closes
    BY <1>0, <1>2, LogsClose DEF Closes
  <1>3. CASE \E c \in Caller, s \in Session :
                Report(c, s) \/ End(c, s) \/ \E p \in Post : PromotePost(c, s, p)
    BY <1>0, <1>3, SingleWrites, LogsBegin
  <1>4. ASSUME NEW c \in Caller, ~Idle(c),
               WriteStep(c) \/ CallFails(c) \/ Next1(c) \/ Drop(c)
        PROVE  LogsLocal'
    <2>1. PICK k \in {0, 1} : Advances(c, k)
      <3>1. \/ Next1(c) \/ Drop(c)
            \/ /\ Now(c).do = "report"
               /\ todo' = [todo EXCEPT ![c] = <<LogTask(Now(c).item, Now(c).session)>> \o Tail(@)]
        BY <1>4 DEF WriteStep, Write, CallFails, Fail
      <3> QED BY <1>0, <1>4, <3>1, Advancing
    <2> QED BY <1>0, <2>1, LogsAdvance
  <1> QED BY <1>1, <1>2, <1>3, <1>4, TodoSteps

(* What is behind the head of a list is still to be done. *)
LEMMA Remains ==
    ASSUME TypeInv, NEW c \in Caller, ~Idle(c), NEW n \in DOMAIN todo[c], n # 1,
           \/ Next1(c)
           \/ /\ Now(c).do = "report"
              /\ todo' = [todo EXCEPT ![c] = <<LogTask(Now(c).item, Now(c).session)>> \o Tail(@)]
    PROVE  \E m \in DOMAIN todo'[c] : todo'[c][m] = todo[c][n]
  <1>0. TodoOK /\ todo[c] \in Seq(Task) /\ todo[c] # <<>> /\ todo \in [Caller -> Seq(Task)]
    BY DEF TypeInv, TodoOK, Idle
  <1>1. CASE Next1(c)
    <2>1. todo'[c] = Tail(todo[c])
      BY <1>0, <1>1 DEF Next1
    <2>2. PICK m \in DOMAIN Tail(todo[c]) : Tail(todo[c])[m] = todo[c][n]
      <3>1. n - 1 \in DOMAIN Tail(todo[c]) /\ Tail(todo[c])[n - 1] = todo[c][n]
        BY <1>0
      <3> QED BY <3>1
    <2> QED BY <2>1, <2>2
  <1>2. CASE /\ Now(c).do = "report"
             /\ todo' = [todo EXCEPT ![c] = <<LogTask(Now(c).item, Now(c).session)>> \o Tail(@)]
    <2> DEFINE u == LogTask(Now(c).item, Now(c).session)
    <2>1. u \in Task
      <3>1. TaskOK(Now(c), issued, post)
        BY <1>0, NowOK
      <3>2. issued \in 0..MaxItems /\ MaxItems \in Nat
        BY SessionAssumption DEF TypeInv, LedgerOK
      <3>3. Now(c).item \in Item /\ Now(c).session \in Session
        BY <1>2, <3>1, <3>2, SessionAssumption DEF TaskOK
      <3> QED BY <3>3 DEF Task, LogTask
    <2>2. todo' = [todo EXCEPT ![c] = <<u>> \o Tail(@)]
      BY <1>2
    <2> HIDE DEF u
    <2>3. /\ DOMAIN todo'[c] = DOMAIN todo[c]
          /\ \A j \in DOMAIN todo[c] \ {1} : todo'[c][j] = todo[c][j]
      BY <1>0, <2>1, <2>2, LogTodo
    <2> QED BY <2>3
  <1> QED BY <1>1, <1>2

(* A failure that a call is to store is stored, or the call fails, or a     *)
(* session was closed of the author of a failure posted before it.          *)
LEMMA UnwrittenStays ==
    ASSUME AccountInv, KeptRight, PostsOnce, LogsLocal, [Next]_vars, NEW c \in Caller,
           NEW b \in Board, board[b] # None, NEW p \in Posts(b), p \in Unwritten(c)
    PROVE  p \in Unwritten(c)' \/ kept'[p] # {} \/ p \in cut' \/ \E s \in Owners(b, p) : EverEnded(s)
  <1>0. TypeInv
    BY DEF AccountInv
  <1>1. p \in Post /\ p # None
    BY SharedAssumption DEF PostsOnce
  <1>2. PICK n \in DOMAIN todo[c] : Writes(todo[c][n]) /\ todo[c][n].post = p
    BY DEF Unwritten, Writes
  <1>3. ASSUME NEW m \in DOMAIN todo'[c], todo'[c][m] = todo[c][n]
        PROVE  p \in Unwritten(c)'
    BY <1>2, <1>3 DEF Unwritten, Writes
  <1>4. CASE todo'[c] = todo[c]
    BY <1>2, <1>3, <1>4
  <1>5. ASSUME NEW d \in Caller, \A e \in Caller \ {d} : todo'[e] = todo[e], Idle(d)
        PROVE  todo'[c] = todo[c]
    BY <1>2, <1>5 DEF Idle
  <1>6. ASSUME Closes PROVE todo'[c] = todo[c]
    <2>1. PICK d \in Caller, s \in Session : Close(d, s)
      BY <1>6 DEF Closes
    <2> QED BY <1>0, <1>5, <2>1, ClosingTodo DEF ClosesWith
  <1>7. ASSUME NEW d \in Caller, NEW s \in Session,
               Report(d, s) \/ End(d, s) \/ \E q \in Post : PromotePost(d, s, q)
        PROVE  todo'[c] = todo[c]
    BY <1>0, <1>5, <1>7, SingleWrites
  <1>8. ASSUME NEW d \in Caller, d # c, WriteStep(d) \/ CallFails(d) \/ Next1(d) \/ Drop(d)
        PROVE  todo'[c] = todo[c]
    BY <1>0, <1>8 DEF WriteStep, Write, CallFails, Fail, Next1, Drop, TypeInv, TodoOK
  <1>9. CASE ~Idle(c) /\ WriteStep(c)
    <2>1. CASE n = 1
      <3>1. Now(c) = todo[c][1]
        BY <1>0, <1>9, NowOK DEF TypeInv
      <3>2. kept'[p] = kept[p] \cup {todo[c][1].item}
        BY <1>1, <1>2, <1>9, <2>1, <3>1 DEF WriteStep, KeptRight
      <3> QED BY <3>2
    <2>2. CASE n # 1
      <3>1. \/ Next1(c)
            \/ /\ Now(c).do = "report"
               /\ todo' = [todo EXCEPT ![c] = <<LogTask(Now(c).item, Now(c).session)>> \o Tail(@)]
        BY <1>9 DEF WriteStep, Write
      <3> QED BY <1>0, <1>3, <1>9, <2>2, <3>1, Remains
    <2> QED BY <2>1, <2>2
  <1>10. CASE CallFails(c)
    BY <1>1, <1>10 DEF CallFails
  <1>11. CASE /\ ~Idle(c) /\ ~Writes(Now(c))
              /\ Next1(c) \/ (Drop(c) /\ EverEnded(Now(c).session))
    <2>1. /\ n # 1 /\ 1 \in DOMAIN todo[c] /\ Now(c) = todo[c][1]
          /\ DOMAIN todo[c] = 1..Len(todo[c]) /\ Len(todo[c]) \in Nat
      BY <1>0, <1>2, <1>11, NowOK DEF TypeInv
    <2>2. CASE Next1(c)
      BY <1>0, <1>3, <1>11, <2>1, <2>2, Remains
    <2>3. CASE EverEnded(Now(c).session)
      <3>1. 1 < n
        BY <2>1
      <3>2. Now(c).session \in Owners(b, p)
        BY <1>1, <1>2, <2>1, <3>1 DEF LogsLocal
      <3> QED BY <2>3, <3>2
    <2> QED BY <1>11, <2>2, <2>3
  <1>12. ASSUME NEW d \in Caller, ~Idle(d), WriteStep(d) \/ CallFails(d)
         PROVE  p \in Unwritten(c)' \/ kept'[p] # {} \/ p \in cut' \/ \E s \in Owners(b, p) : EverEnded(s)
    BY <1>4, <1>8, <1>9, <1>10, <1>12
  <1>13. ASSUME NEW d \in Caller, ~Idle(d), ~Writes(Now(d)),
                Next1(d) \/ (Drop(d) /\ EverEnded(Now(d).session))
         PROVE  p \in Unwritten(c)' \/ kept'[p] # {} \/ p \in cut' \/ \E s \in Owners(b, p) : EverEnded(s)
    BY <1>4, <1>8, <1>11, <1>13
  <1> QED BY <1>4, <1>6, <1>7, <1>12, <1>13, TodoSteps

LEMMA KeptGrows ==
    ASSUME MarkInv, [Next]_vars
    PROVE  cut \subseteq cut' /\ \A p \in Post : kept[p] \subseteq kept'[p]
  <1>1. ASSUME NEW c \in Caller, WriteStep(c)
        PROVE  cut' = cut /\ \A p \in Post : kept[p] \subseteq kept'[p]
    BY <1>1, MarkWrites DEF WriteStep
  <1>2. ASSUME NEW c \in Caller, CallFails(c)
        PROVE  cut \subseteq cut' /\ kept' = kept
    BY <1>2 DEF CallFails
  <1>3. ASSUME NEW c \in Caller, NEW s \in Session,
               Close(c, s) \/ \E p \in Post : PromotePost(c, s, p)
        PROVE  cut' = cut /\ kept' = kept
    BY <1>3 DEF Close, PromotePost, shared
  <1>4. ASSUME NEW c \in Caller, MarkStep(c) PROVE cut' = cut /\ kept' = kept
    BY <1>4 DEF MarkStep, shared
  <1>5. CASE SessionStep \/ LobbyCall \/ Restart \/ UNCHANGED vars
             \/ \E b \in Board : Expire(b) /\ UNCHANGED <<sessionVars, shared>>
    BY <1>5 DEF SessionStep, LobbyCall, Restart, vars, shared
  <1> QED BY <1>1, <1>2, <1>3, <1>4, <1>5 DEF Next

(* Positions in order are all the positions. *)
LEMMA InOrderOnto ==
    ASSUME TypeInv, NEW b \in OpenBoards, NEW at \in InOrder(UnpromotedFailures(b)),
           NEW m \in UnpromotedFailures(b)
    PROVE  \E l \in DOMAIN at : at[l] = m
  <1> DEFINE S == UnpromotedFailures(b)
  <1>1. PICK n \in Nat : /\ DOMAIN at = 1..n /\ Cardinality(DOMAIN at) = n
                         /\ n = Cardinality(S) /\ IsFiniteSet(S)
                         /\ at \in [1..n -> S]
                         /\ \A l, k \in 1..n : l < k => at[l] < at[k]
                         /\ S \subseteq 1..Len(board[b].posts)
    BY CloseEnumerates
  <1> HIDE DEF S
  <1>2. \A l \in 1..n : at[l] \in Nat
    <2>1. board[b].posts \in Seq(Post)
      BY DEF TypeInv, OpenBoards, LobbyInv, BoardsOK, BoardState
    <2>2. 1..Len(board[b].posts) \subseteq Nat
      BY <2>1
    <2>3. S \subseteq Nat
      BY <1>1, <2>2
    <2> QED BY <1>1, <2>3
  <1>3. ASSUME NEW l \in 1..n, NEW k \in 1..n, at[l] = at[k] PROVE l = k
    <2>1. ~(at[l] < at[k]) /\ ~(at[k] < at[l])
      BY <1>2, <1>3
    <2>2. ~(l < k) /\ ~(k < l)
      BY <1>1, <2>1
    <2> QED BY <2>2
  <1>4. at \in Injection(1..n, S)
    BY <1>1, <1>3 DEF Injection, IsInjective
  <1>5. at \in Surjection(1..n, S)
    <2>1. Cardinality(1..n) = Cardinality(S)
      BY <1>1
    <2> QED BY <1>1, <1>4, <2>1, FS_Injection
  <1>6. m \in S
    BY DEF S
  <1> QED BY <1>1, <1>5, <1>6 DEF Surjection

LEMMA ClosingFailures ==
    ASSUME MarkInv, PostsOnce, NEW c \in Caller, NEW s \in Session, Close(c, s),
           NEW p \in Posts(boardOf[s]), post[p].kind = "failure"
    PROVE  kept[p] # {} \/ p \in Unwritten(c)'
  <1>0. TypeInv
    BY DEF MarkInv, AccountInv
  <1>1. PICK o, at, n : ClosesWith(c, s, o, at, n)
    BY <1>0, ClosingTodo
  <1>2. o \in OpenBoards /\ p \in Posts(o) /\ at \in InOrder(UnpromotedFailures(o))
        /\ n \in Nat /\ DOMAIN at = 1..n /\ DOMAIN todo'[c] = 1..(n + n)
    BY <1>1 DEF ClosesWith
  <1>3. p \in Post /\ post[p] # None
    BY <1>2 DEF PostsOnce, OpenBoards
  <1>4. CASE post[p].promoted # None
    BY <1>3, <1>4 DEF MarkInv, Marked
  <1>5. CASE post[p].promoted = None
    <2>1. PICK m \in DOMAIN board[o].posts : board[o].posts[m] = p
      BY <1>2 DEF Posts
    <2>2. m \in UnpromotedFailures(o)
      BY <1>5, <2>1 DEF UnpromotedFailures, Unpromoted
    <2>3. PICK l \in 1..n : at[l] = m
      BY <1>0, <1>2, <2>2, InOrderOnto
    <2>4. todo'[c][l].do = "report" /\ todo'[c][l].post = p
      BY <1>1, <2>1, <2>3 DEF ClosesWith
    <2>5. l \in DOMAIN todo'[c]
      BY <1>2, <2>3
    <2> QED BY <2>4, <2>5 DEF Unwritten
  <1> QED BY <1>4, <1>5

LEMMA FailuresStep ==
    ASSUME FailInv, [Next]_vars
    PROVE  FailuresKept'
  <1> SUFFICES ASSUME NEW b \in Board, board'[b] # None, ~board'[b].open,
                      NEW p \in Posts(b)',
                      \A s \in Owners(b, p)' : ~EverEnded(s)',
                      post'[p].kind = "failure", kept'[p] = {}, p \notin cut'
               PROVE  \E c \in Caller : p \in Unwritten(c)'
    BY DEF FailuresKept, Flushed, Owners
  <1>0. MarkInv /\ AccountInv /\ TypeInv /\ PostsOnce /\ Unstarted
    BY FailTypes DEF FailInv
  <1>1. /\ board[b] # None /\ board'[b].posts = board[b].posts
        /\ \/ ~board[b].open
           \/ \E c \in Caller, s \in Session : /\ Close(c, s) /\ b = boardOf[s]
                                               /\ b \in OpenBoards /\ UNCHANGED post
    BY <1>0, ClosedBoards
  <1>2. p \in Posts(b) /\ p \in Post /\ post[p].kind = "failure" /\ Owners(b, p)' = Owners(b, p)
    BY <1>0, <1>1, OwnersStay DEF PostsOnce
  <1>3. Owners(b, p) \subseteq Session
    <2> SUFFICES ASSUME NEW q \in Posts(b) PROVE post[q].author \in Session
      BY DEF Owners, Ahead
    <2>1. q \in Post /\ post[q] # None
      BY <1>0, <1>1 DEF PostsOnce
    <2> QED BY <1>0, <2>1 DEF TypeInv, PostsOK, PostState
  <1>4. \A s \in Owners(b, p) : ~EverEnded(s)
    BY <1>0, <1>2, <1>3, VersionsStay
  <1>5. kept[p] = {} /\ p \notin cut
    BY <1>0, <1>2, KeptGrows
  <1>6. CASE ~board[b].open
    <2>1. PICK c \in Caller : p \in Unwritten(c)
      BY <1>1, <1>2, <1>4, <1>5, <1>6 DEF FailInv, FailuresKept, Flushed, Owners
    <2> QED BY <1>0, <1>1, <1>2, <1>4, <2>1, UnwrittenStays DEF FailInv, MarkInv
  <1>7. ASSUME NEW c \in Caller, NEW s \in Session, Close(c, s), b = boardOf[s]
        PROVE  p \in Unwritten(c)'
    BY <1>0, <1>2, <1>5, <1>7, ClosingFailures
  <1> QED BY <1>1, <1>6, <1>7

LEMMA FailAlways == Spec => []FailInv
  <1>1. Init => FailInv
    <2> SUFFICES ASSUME Init PROVE FailInv
      OBVIOUS
    <2>1. MarkInv
      BY MarkInit
    <2>2. Unstarted /\ PostsOnce /\ LogsLocal /\ FailuresKept
      BY DEF Init, SessionInit, LobbyInit, Unstarted, PostsOnce, LogsLocal, FailuresKept
    <2> QED BY <2>1, <2>2 DEF FailInv
  <1>2. FailInv /\ [Next]_vars => FailInv'
    <2> SUFFICES ASSUME FailInv, [Next]_vars PROVE FailInv'
      OBVIOUS
    <2>1. MarkInv' /\ TypeInv'
      BY MarkInvStep DEF FailInv, MarkInv, AccountInv
    <2>2. Unstarted'
      BY FailTypes, VersionsStay DEF FailInv
    <2>3. PostsOnce'
      BY FailTypes, PostsOnceKept DEF FailInv
    <2>4. LogsLocal'
      BY <2>1, <2>3, FailTypes, LogsLocalKept DEF FailInv
    <2>5. FailuresKept'
      BY FailuresStep
    <2> QED BY <2>1, <2>2, <2>3, <2>4, <2>5 DEF FailInv
  <1> QED BY <1>1, <1>2, PTL DEF Spec

(* A failure that is on a board when the board is closed is stored, or one  *)
(* of the calls is still to store it or was cut short by a fault, whoever   *)
(* publishes, promotes or closes meanwhile, unless it was posted after a    *)
(* failure whose author has ended its session, on which the close stops     *)
(* (lobby_surface.py _close, db.py report_failure).                         *)
THEOREM FailuresAreKept == Spec => []FailuresKept
  <1>1. FailInv => FailuresKept
    BY DEF FailInv
  <1> QED BY <1>1, FailAlways, PTL

=============================================================================
