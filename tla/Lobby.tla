------------------------------- MODULE Lobby -------------------------------
(***************************************************************************)
(* The lobby (embers/lobby/store.py): boards in the memory of one process, *)
(* every method under one lock and so one action.  What a presence row     *)
(* carries beside the session is left out, and configure, which replaces   *)
(* the limits; the events the methods emit are those of EventBroker.       *)
(***************************************************************************)
EXTENDS Shared, Naturals, Sequences, FiniteSets

CONSTANTS
    Board,
    Topic,          \* task, namespace and room of a board
    agentOf,        \* agentOf[s]: the agent of session s
    MaxAgents       \* max_agents, 0 for no limit

BoardState == [topic : Topic, open : BOOLEAN, members : SUBSET Session,
               present : SUBSET Session, posts : Seq(Post)]
PostState  == [author : Session, kind : {"failure", "discovery"},
               backers : SUBSET Session, promoted : Item \cup {None}]

ASSUME LobbyAssumption ==
    /\ MaxAgents \in Nat /\ DOMAIN agentOf = Session
    /\ None \notin Board \cup BoardState \cup PostState

VARIABLES
    board,        \* board[b], None if there is no b
    post,         \* post[p], None if there is no p
    boardOf       \* by_session

lobbyVars == <<board, post, boardOf>>

LobbyInit ==
    /\ board = [b \in Board |-> None]
    /\ post = [p \in Post |-> None]
    /\ boardOf = [s \in Session |-> None]

OpenBoards == {b \in Board : board[b] # None /\ board[b].open}

(* board_for_session finds a board. *)
Seated(s) == boardOf[s] \in OpenBoards
Posts(b)  == {board[b].posts[n] : n \in DOMAIN board[b].posts}

(* _check_capacity. *)
HasRoom(b, s) ==
    \/ MaxAgents = 0 \/ s \in board[b].members
    \/ Cardinality(board[b].members) < MaxAgents

(* participants, by_session and _touch. *)
Seat(b, s, ps) ==
    /\ board' = [board EXCEPT ![b].members = @ \cup {s}, ![b].present = @ \cup {s},
                              ![b].posts = ps]
    /\ boardOf' = [boardOf EXCEPT ![s] = b]

(* open: the board the session has (heartbeat alike), or the one its task has. *)
Return(s) ==
    /\ Seated(s)
    /\ board' = [board EXCEPT ![boardOf[s]].present = @ \cup {s}]
    /\ UNCHANGED <<post, boardOf>>

Join(s, t) ==
    /\ ~Seated(s)
    /\ \E b \in OpenBoards :
          board[b].topic = t /\ HasRoom(b, s) /\ Seat(b, s, board[b].posts)
    /\ UNCHANGED post

(* Mutant: a new board, whether or not the task has one. *)
CreateAlways(s, t, b) ==
    /\ ~Seated(s) /\ board[b] = None
    /\ board' = [board EXCEPT ![b] = [topic |-> t, open |-> TRUE, members |-> {s},
                                      present |-> {s}, posts |-> <<>>]]
    /\ boardOf' = [boardOf EXCEPT ![s] = b]
    /\ UNCHANGED post

Create(s, t, b) ==
    /\ ~Seated(s) /\ board[b] = None
    /\ \A o \in OpenBoards : board[o].topic # t
    /\ board' = [board EXCEPT ![b] = [topic |-> t, open |-> TRUE, members |-> {s},
                                      present |-> {s}, posts |-> <<>>]]
    /\ boardOf' = [boardOf EXCEPT ![s] = b]
    /\ UNCHANGED post

(* publish: the post is on the board before the capacity is checked. *)
Publish(s, p, k) ==
    LET b == boardOf[s] IN
    /\ Seated(s) /\ post[p] = None
    /\ post' = [post EXCEPT ![p] = [author |-> s, kind |-> k, backers |-> {},
                                    promoted |-> None]]
    /\ IF HasRoom(b, s)
       THEN Seat(b, s, Append(board[b].posts, p))
       ELSE /\ board' = [board EXCEPT ![b].posts = Append(@, p)]
            /\ UNCHANGED boardOf

(* corroborate: by another session of another agent, once. *)
Corroborate(s, p) ==
    LET b == boardOf[s] IN
    /\ Seated(s) /\ p \in Posts(b) /\ HasRoom(b, s)
    /\ \A r \in {post[p].author} \cup post[p].backers : agentOf[r] # agentOf[s]
    /\ post' = [post EXCEPT ![p].backers = @ \cup {s}]
    /\ Seat(b, s, board[b].posts)

(* leave. *)
Leave(s) ==
    /\ Seated(s)
    /\ board' = [board EXCEPT ![boardOf[s]].members = @ \ {s},
                              ![boardOf[s]].present = @ \ {s}]
    /\ boardOf' = [boardOf EXCEPT ![s] = None]
    /\ UNCHANGED post

LobbyCalls(s) ==
    \/ Return(s) \/ Leave(s)
    \/ \E t \in Topic : Join(s, t) \/ \E b \in Board : Create(s, t, b)
    \/ \E p \in Post :
          Corroborate(s, p) \/ \E k \in {"failure", "discovery"} : Publish(s, p, k)

(* mark_promoted, on the post as it was taken, wherever it is by now. *)
Mark(p, i) ==
    /\ post' = [post EXCEPT ![p].promoted = i]
    /\ UNCHANGED <<board, boardOf>>

(* close. *)
CloseBoard(b) ==
    /\ board' = [board EXCEPT ![b].open = FALSE]
    /\ boardOf' = [s \in Session |->
                      IF s \in board[b].members /\ boardOf[s] = b THEN None ELSE boardOf[s]]
    /\ UNCHANGED post

Unpromoted(p) == post[p].kind = "failure" /\ post[p].promoted = None

(* _expire_posts: the oldest posts of a board outlive message_ttl_seconds.  *)
Expire(b) ==
    /\ b \in OpenBoards /\ board[b].posts # <<>>
    /\ board' = [board EXCEPT ![b].posts = Tail(@)]
    /\ UNCHANGED <<post, boardOf>>

(* reset, or a new process: boards are not kept. *)
Forget ==
    /\ board' = [b \in Board |-> None]
    /\ boardOf' = [s \in Session |-> None]
    /\ UNCHANGED post

LobbyNext ==
    \/ \E s \in Session : LobbyCalls(s) \/ (Seated(s) /\ CloseBoard(boardOf[s]))
    \/ \E p \in Post, i \in Item : post[p] # None /\ Mark(p, i)
    \/ \E b \in Board : Expire(b)
    \/ Forget

LobbySpec == LobbyInit /\ [][LobbyNext]_lobbyVars

-----------------------------------------------------------------------------

LobbyTypeOK ==
    /\ board \in [Board -> BoardState \cup {None}]
    /\ post \in [Post -> PostState \cup {None}]
    /\ boardOf \in [Session -> Board \cup {None}]

(* A task has one open board, whoever opens it first, with no more agents   *)
(* than allowed; a session sits at one board at most; and the three places  *)
(* that say who sits where (participants, presence, by_session) agree, so   *)
(* nobody holds a seat it cannot use or uses one it does not hold (open,    *)
(* publish, corroborate, leave, close).                                     *)
SeatsAgree ==
    /\ \A a, b \in OpenBoards : board[a].topic = board[b].topic => a = b
    /\ \A b \in OpenBoards :
          /\ board[b].present = board[b].members
          /\ board[b].members = {s \in Session : boardOf[s] = b}
          /\ MaxAgents = 0 \/ Cardinality(board[b].members) <= MaxAgents
    /\ \A s \in Session : boardOf[s] # None => Seated(s)

=============================================================================
