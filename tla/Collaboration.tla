--------------------------- MODULE Collaboration ---------------------------
(***************************************************************************)
(* Agents that share sessions and a lobby: Sessions and Lobby, and the     *)
(* calls of the surfaces that use both (embers/mcp/lobby_surface.py,       *)
(* mcp/session_collab.py, the lobby routes of api/v1.py and                *)
(* api/http_parity.py).  The board step of such a call is one action, the  *)
(* writes to the store that follow are tasks of its caller.                *)
(***************************************************************************)
EXTENDS Sessions, Lobby

CONSTANT MaxMoves   \* bound: calls that only change the lobby

ASSUME CollaborationAssumption == MaxMoves \in Nat

VARIABLES
    kept,    \* history: kept[p]: the records stored for post p
    cut,     \* history: posts a failing call was to store a record for
    moves

shared == <<kept, cut, moves>>
vars   == <<sessionVars, lobbyVars, shared>>

Init == SessionInit /\ LobbyInit /\ kept = [p \in Post |-> {}] /\ cut = {} /\ moves = 0

(* A session has to be known (session_auth.py, session_gate.py). *)
LobbyCall ==
    /\ moves < MaxMoves
    /\ moves' = moves + 1
    /\ \E s \in Session : Started(s) /\ LobbyCalls(s)
    /\ UNCHANGED <<sessionVars, kept, cut>>

(* Mutant: a promoted discovery is marked before its proposal is stored. *)
MarkedFirst(s, p, i) ==
    IF post[p].kind = "failure"
    THEN <<ReportTask(i, post[p].author, p), MarkTask(p, i), LogTask(i, s)>>
    ELSE <<MarkTask(p, i), WriteTask(i, s, p), LogTask(i, s)>>

(* _promote and the link the surface draws after it.  The failure is its    *)
(* author's, the proposal the promoter's.                                   *)
PromoteTasks(s, p, i) ==
    IF post[p].kind = "failure"
    THEN <<ReportTask(i, post[p].author, p), MarkTask(p, i), LogTask(i, s)>>
    ELSE <<WriteTask(i, s, p), MarkTask(p, i), LogTask(i, s)>>

(* take_post, on the board of the session: promoted before or not. *)
PromotePost(c, s, p) ==
    /\ Started(s) /\ Seated(s) /\ p \in Posts(boardOf[s])
    /\ Assign(c, PromoteTasks(s, p, issued + 1), 1)
    /\ UNCHANGED <<lobbyVars, shared>>

(* Mutant: what others have corroborated is taken to be stored. *)
UnbackedFailures(b) ==
    {m \in DOMAIN board[b].posts : LET p == board[b].posts[m] IN
                                   Unpromoted(p) /\ post[p].backers = {}}

UnpromotedFailures(b) == {m \in DOMAIN board[b].posts : Unpromoted(board[b].posts[m])}

(* A set of numbers as the one sequence of them in order. *)
InOrder(S) ==
    LET n == Cardinality(S)
    IN  {f \in [1..n -> S] : \A l, m \in 1..n : l < m => f[l] < f[m]}

(* _close: the board is closed, then its failures are reported in the order *)
(* they were posted, then the surface links them to the session that closed.*)
Close(c, s) ==
    LET b == boardOf[s] IN
    /\ Started(s) /\ Seated(s)
    /\ CloseBoard(b)
    /\ \E at \in InOrder(UnpromotedFailures(b)) :
          LET failed(m) == board[b].posts[at[m]]
          IN  Assign(c, [m \in DOMAIN at |-> ReportTask(issued + m, post[failed(m)].author,
                                                       failed(m))]
                           \o [m \in DOMAIN at |-> LogTask(issued + m, s)],
                     Cardinality(DOMAIN at))
    /\ UNCHANGED shared

WriteStep(c) ==
    LET t == Now(c) IN
    /\ Write(c)
    /\ kept' = IF t.post = None THEN kept ELSE [kept EXCEPT ![t.post] = @ \cup {t.item}]
    /\ UNCHANGED <<lobbyVars, cut, moves>>

MarkStep(c) ==
    /\ ~Idle(c) /\ Now(c).do = "mark"
    /\ Mark(Now(c).post, Now(c).item)
    /\ Next1(c)
    /\ UNCHANGED <<ledger, read, base, issued, logged, ended, raced, calls, faults, shared>>

SessionStep == SessionCalls /\ UNCHANGED <<lobbyVars, shared>>

Unwritten(c) ==
    {todo[c][n].post : n \in {m \in DOMAIN todo[c] : todo[c][m].do \in {"write", "report"}}}

CallFails(c) ==
    /\ Fail(c)
    /\ cut' = cut \cup (Unwritten(c) \ {None})
    /\ UNCHANGED <<lobbyVars, kept, moves>>

(* Time passes; the process that keeps the lobby starts again.  Its calls,  *)
(* if any were under way, have failed before (CallFails).                   *)
Restart ==
    /\ \A c \in Caller : Idle(c)
    /\ \E b \in Board : board[b] # None
    /\ faults < MaxFaults
    /\ faults' = faults + 1
    /\ Forget
    /\ UNCHANGED <<ledger, progress, issued, logged, ended, raced, calls, shared>>

Next ==
    \/ SessionStep \/ LobbyCall
    \/ \E c \in Caller, s \in Session : Close(c, s) \/ \E p \in Post : PromotePost(c, s, p)
    \/ \E c \in Caller : WriteStep(c) \/ MarkStep(c) \/ CallFails(c)
    \/ \E b \in Board : Expire(b) /\ UNCHANGED <<sessionVars, shared>>
    \/ Restart

Spec == Init /\ [][Next]_vars

-----------------------------------------------------------------------------

EverEnded(s) == \E n \in DOMAIN account[s] : ~account[s][n].active

(* The failures posted to board b before p. *)
Ahead(b, p) ==
    {q \in Posts(b) : /\ post[q].kind = "failure"
                      /\ \E m, n \in DOMAIN board[b].posts :
                            m < n /\ board[b].posts[m] = q /\ board[b].posts[n] = p}

(* A record of p is stored, or the call that is to store it is under way or *)
(* was cut short by a fault.                                                *)
Flushed(p) == kept[p] # {} \/ p \in cut \/ \E c \in Caller : p \in Unwritten(c)

(* Closing a board stores the failures on it up to the first whose author   *)
(* has ended its session, and that one too, whoever publishes, promotes or  *)
(* closes meanwhile: report_failure stores the record before it raises on   *)
(* the session, and _close then gives up the failures posted later.         *)
FailuresKept ==
    \A b \in Board :
        board[b] # None /\ ~board[b].open =>
            \A p \in Posts(b) :
                \/ post[p].kind # "failure" \/ Flushed(p)
                \/ \E q \in Ahead(b, p) : EverEnded(post[q].author)

(* No failure of a closed board is dropped, whether or not authors have     *)
(* ended their sessions (lobby_design.md: "Silent drop is ruled out").      *)
FailuresFlushed ==
    \A b \in Board :
        board[b] # None /\ ~board[b].open =>
            \A p \in Posts(b) : post[p].kind # "failure" \/ Flushed(p)

(* A post is marked with a record that is stored, and that carries on what  *)
(* it says: a failure is still its author's, whoever promoted it, and the   *)
(* mark never runs ahead of the record (lobby_surface._promote).            *)
MarksAreStored ==
    \A p \in Post :
        \/ post[p] = None \/ post[p].promoted = None
        \/ /\ post[p].promoted \in kept[p]
           /\ post[p].kind = "failure" => stored[post[p].promoted] = post[p].author

=============================================================================
