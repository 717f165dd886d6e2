------------------------------ MODULE Gateway ------------------------------
(***************************************************************************)
(* The calls on memories of the MCP server and of the REST routes          *)
(* (embers/mcp/server.py, mcp/session_auth.py, api/v1.py,                  *)
(* api/session_gate.py).  A process serves one call at a time, on a handle *)
(* and a copy of the registry (Namespaces) of its own; what others do      *)
(* comes between its accesses to the store.  Agents are registered; of a   *)
(* session there is only who started it and whether it is over: that a race *)
(* takes one up again is in Sessions.                                      *)
(* A call that is refused before it writes changes nothing and is no step. *)
(***************************************************************************)
EXTENDS Namespaces

CONSTANTS
    Session,
    Item,           \* ids of memories, numbers
    Nothing,
    MaxGrants,      \* bound: changes to the registry between the calls
    MaxCalls        \* bound: writes and updates

(* The namespace that may be registered and one that is not. *)
Spaces == {"kept", "open"}

(* base: the memory it took the place of, by the sidecar of that one. *)
Memory == [space : Spaces, session : Session \cup {Nothing}, base : Item \cup {Nothing}]

(* base: the memory to update; item: what the call has stored; under: the   *)
(* registered namespace when it was asked, Nothing if the process's copy    *)
(* was not up to date.                                                      *)
Request == [agent : Agent, session : Session \cup {Nothing}, space : Spaces,
            base : Item \cup {Nothing}, item : Item \cup {Nothing},
            under : Space \cup {NoSpace, Nothing}]

ASSUME GatewayAssumption ==
    /\ Nothing \notin Agent \cup Item \cup Session \cup Memory \cup Request \cup Space \cup {NoSpace}
    /\ {MaxGrants, MaxCalls} \subseteq Nat

VARIABLES
    startedBy,      \* startedBy[s]: the agent of session s, Nothing if there is no s
    over,           \* sessions that are not active
    memory,         \* memory[i]: the record, Nothing if there is no i
    deprecated,
    serving,        \* serving[h]: the write or update that process h serves
    blamed,         \* history: memories stored by calls that were answered with an error
    faulted,        \* history: those of them whose call met a fault after it had stored
    trespasses,     \* history: rights <<agent, right>> exercised and not had
    calls

gatewayOwnVars ==
    <<startedBy, over, memory, deprecated, serving, blamed, faulted, trespasses, calls>>
gatewayVars    == <<accessVars, gatewayOwnVars>>

GatewayInit ==
    /\ startedBy = [s \in Session |-> Nothing] /\ over = {}
    /\ memory = [i \in Item |-> Nothing] /\ deprecated = {}
    /\ serving = [h \in Process |-> Nothing]
    /\ blamed = {} /\ faulted = {} /\ trespasses = {} /\ calls = 0

(* Every process has loaded the registry since it last changed. *)
Loaded ==
    /\ \E n \in Space \cup {NoSpace} :
          registry = [h \in Process |-> n] /\ registryFile = n /\ intended = n
    /\ clobbered = FALSE /\ changes = 0 /\ tears = 0

Stored == {i \in Item : memory[i] # Nothing}
Gone   == {i \in Stored : i \in deprecated \/ \E j \in Stored : memory[j].base = i}

-----------------------------------------------------------------------------
(* Sessions, retirements and grants, by anybody.                           *)

BeginSession(a, s) ==
    /\ startedBy[s] = Nothing
    /\ startedBy' = [startedBy EXCEPT ![s] = a]
    /\ UNCHANGED <<accessVars, over, memory, deprecated, serving, blamed, faulted, trespasses, calls>>

EndSession(s) ==
    /\ startedBy[s] # Nothing
    /\ over' = over \cup {s}
    /\ UNCHANGED <<accessVars, startedBy, memory, deprecated, serving, blamed, faulted, trespasses, calls>>

Deprecate(i) ==
    /\ i \in Stored
    /\ deprecated' = deprecated \cup {i}
    /\ UNCHANGED <<accessVars, startedBy, over, memory, serving, blamed, faulted, trespasses, calls>>

Grant(h) ==
    /\ serving[h] = Nothing
    /\ changes < MaxGrants
    /\ ChangeAccess(h)
    /\ UNCHANGED <<startedBy, over, memory, deprecated, serving, blamed, faulted, trespasses, calls>>

-----------------------------------------------------------------------------

(* EmberMCP._auth: a session that is named is the agent's, and active when  *)
(* there is no token; without either there is no agent.                     *)
McpKnows(a, s, token) ==
    /\ s = Nothing => token
    /\ s # Nothing => startedBy[s] = a /\ (token \/ s \notin over)

(* resolve_agent: the token, or a session in the header; the session a body *)
(* names is another matter.                                                 *)
RestKnows(a, token) == token \/ \E s \in Session \ over : startedBy[s] = a

Authenticated(a, s) == \E token \in BOOLEAN : McpKnows(a, s, token) \/ RestKnows(a, token)

CanRead(h, a, sp)  == sp = "kept" => MayRead(registry[h], a)
CanWrite(h, a, sp) == sp = "kept" => MayWrite(registry[h], a)

Under(h) == IF registry[h] = intended THEN intended ELSE Nothing

Has(n, a, right) == IF right = "read" THEN MayRead(n, a) ELSE MayWrite(n, a)

Exercise(n, a, sp, rights) ==
    trespasses' = IF sp = "kept" /\ n # Nothing
                  THEN trespasses \cup {<<a, r>> : r \in {r \in rights : ~Has(n, a, r)}}
                  ELSE trespasses

(* ember_write, ember_update: who asks, and may it. *)
Ask(h, a, s, sp, base) ==
    /\ serving[h] = Nothing
    /\ Authenticated(a, s)
    /\ CanWrite(h, a, sp)
    /\ base # Nothing => base \in Stored /\ memory[base].space = sp /\ CanRead(h, a, sp)
    /\ serving' = [serving EXCEPT ![h] =
                  [agent |-> a, session |-> s, space |-> sp, base |-> base,
                   item |-> Nothing, under |-> Under(h)]]
    /\ calls < MaxCalls /\ calls' = calls + 1
    /\ UNCHANGED <<accessVars, startedBy, over, memory, deprecated, blamed, faulted, trespasses>>

AskWrite(h, a, s, sp) == Ask(h, a, s, sp, Nothing)
AskUpdate(h, a, s, i) == i \in Stored /\ Ask(h, a, s, memory[i].space, i)

Waiting(h) == serving[h] # Nothing /\ serving[h].item = Nothing
Stores(h)  == serving[h] # Nothing /\ serving[h].item # Nothing

Remembers(h) == Waiting(h) /\ serving[h].base = Nothing

(* update with expected_hash: a memory that is superseded is a conflict and *)
(* its update is answered without a step.                                   *)
Revises(h) ==
    /\ Waiting(h) /\ serving[h].base # Nothing
    /\ \A j \in Stored : memory[j].base # serving[h].base

(* The record of i, in place of base. *)
Put(h, i, base) ==
    LET q == serving[h] IN
    /\ i \notin Stored
    /\ \A j \in Item \ Stored : i <= j
    /\ memory' = [memory EXCEPT ![i] = [space |-> q.space, session |-> q.session,
                                        base |-> base]]
    /\ Exercise(q.under, q.agent, q.space, {"write"})
    /\ UNCHANGED <<accessVars, startedBy, over, deprecated, calls>>

Goes(h, i) ==
    /\ Put(h, i, serving[h].base)
    /\ serving' = [serving EXCEPT ![h].item = i]
    /\ UNCHANGED <<blamed, faulted>>

Remember(h, i) == Remembers(h) /\ Goes(h, i)
Revise(h, i)   == Revises(h) /\ Goes(h, i)

Close(h) == serving' = [serving EXCEPT ![h] = Nothing]

Blame(h, items) == blamed' = blamed \cup items /\ Close(h)

(* A fault once the record is stored: the end of its transaction, or the    *)
(* sidecar of the memory it should supersede.                               *)
StoreFails(h, i) ==
    /\ Remembers(h) \/ Revises(h)
    /\ Put(h, i, Nothing)
    /\ Blame(h, {i})
    /\ faulted' = faulted \cup {i}

(* The answer of a call that stored a memory. *)
AnswerOk(h, shown) ==
    /\ Close(h)
    /\ Exercise(serving[h].under, serving[h].agent, serving[h].space, shown)
    /\ UNCHANGED <<accessVars, startedBy, over, memory, deprecated, blamed, calls>>

AnswerError(h) ==
    /\ Blame(h, {serving[h].item})
    /\ UNCHANGED <<accessVars, startedBy, over, memory, deprecated, trespasses, calls>>

(* Mutant: a write is logged whether or not there is such a session. *)
LogsAlways(s) == s # Nothing

(* A write is logged to a session if there is one by that name. *)
Logs(s) == s # Nothing /\ startedBy[s] # Nothing

(* record_memory_write raises when the session is over.  The MCP server     *)
(* goes on to show what in the namespace the memory may contradict.         *)
Logged(h) ==
    LET q == serving[h] IN
    /\ Stores(h) /\ q.base = Nothing
    /\ IF Logs(q.session) /\ (startedBy[q.session] = Nothing \/ q.session \in over)
       THEN AnswerError(h)
       ELSE \/ AnswerOk(h, {})
            \/ CanRead(h, q.agent, q.space) /\ AnswerOk(h, {"read"})
    /\ UNCHANGED faulted

(* The new version is read again for its hash: by then it may be gone. *)
Updated(h) ==
    /\ Stores(h) /\ serving[h].base # Nothing
    /\ IF serving[h].item \in Gone THEN AnswerError(h) ELSE AnswerOk(h, {})
    /\ UNCHANGED faulted

(* A fault in either: the session has a new version to write, which takes   *)
(* space too, and the memory is read from disk.                             *)
AnswerFails(h) ==
    /\ Stores(h)
    /\ serving[h].base = Nothing => Logs(serving[h].session)
    /\ AnswerError(h)
    /\ faulted' = faulted \cup {serving[h].item}

(* A conflict, or no space for the record. *)
Refused(h) ==
    /\ Waiting(h)
    /\ Close(h)
    /\ UNCHANGED <<accessVars, startedBy, over, memory, deprecated, blamed, faulted, trespasses, calls>>

(* Mutant: what was found is shown as it is. *)
ShownAll(h, a, items) == items

(* What others may not read is taken out of a list. *)
Shown(h, a, items) == {i \in items : CanRead(h, a, memory[i].space)}

(* ember_read, ember_get_history: a record, or the versions of one. *)
ReadOne(h, a, i) == IF CanRead(h, a, memory[i].space) THEN {i} ELSE {}

(* ember_get_graph: the neighbours of a record that may be read. *)
Neighbours(h, a, i, items) ==
    IF CanRead(h, a, memory[i].space) THEN Shown(h, a, items) ELSE {}

(* ember_query, ember_recall, and ember_search in one namespace. *)
InSpace(h, a, sp) ==
    IF CanRead(h, a, sp) THEN {i \in Stored \ Gone : memory[i].space = sp} ELSE {}

(* ember_search everywhere. *)
Everywhere(h, a) == Shown(h, a, Stored \ Gone)

(* An answer is one step: what it depends on, beside the records there are, *)
(* does not change during the call.                                         *)
Show(h, a) ==
    /\ serving[h] = Nothing
    /\ \E items \in {ReadOne(h, a, i) : i \in Stored}
                      \cup {Neighbours(h, a, i, Stored \ Gone) : i \in Stored}
                      \cup {InSpace(h, a, sp) : sp \in Spaces} \cup {Everywhere(h, a)} :
          /\ \E i \in items : memory[i].space = "kept"
          /\ Exercise(Under(h), a, "kept", {"read"})
    /\ UNCHANGED <<accessVars, startedBy, over, memory, deprecated, serving, blamed, faulted, calls>>

(* A process dies, and its call with it; the process that takes over loads  *)
(* the registry.                                                            *)
Reconnect(h) ==
    /\ Close(h)
    /\ LoadRegistry(h)
    /\ UNCHANGED <<startedBy, over, memory, deprecated, blamed, faulted, trespasses, calls>>

GatewayNext ==
    \/ \E s \in Session : EndSession(s) \/ \E a \in Agent : BeginSession(a, s)
    \/ \E i \in Item : Deprecate(i)
    \/ \E h \in Process :
          \/ Grant(h) \/ Logged(h) \/ Updated(h) \/ AnswerFails(h) \/ Refused(h) \/ Reconnect(h)
          \/ \E a \in Agent : Show(h, a)
          \/ \E i \in Item : Remember(h, i) \/ Revise(h, i) \/ StoreFails(h, i)
          \/ \E a \in Agent, s \in Session \cup {Nothing} :
                \/ \E sp \in Spaces : AskWrite(h, a, s, sp)
                \/ \E i \in Item : AskUpdate(h, a, s, i)

GatewaySpec == GatewayInit /\ Loaded /\ [][GatewayNext]_gatewayVars

-----------------------------------------------------------------------------

(* What a call shows or changes in a namespace was its agent's to read or   *)
(* to write when it was asked, whatever is granted and revoked through      *)
(* other handles meanwhile, as long as the copy its handle decides by was   *)
(* up to date then (require_namespace_access and check_namespace_access in  *)
(* mcp/server.py and api/v1.py).                                            *)
AccessHeld == trespasses = {}

(* An error means that nothing was stored, so that the agent may try again, *)
(* but for three cases: a write for a session that has ended, an update     *)
(* whose new version was superseded or deprecated before the answer, and a  *)
(* fault that came when the record was there (ember_write, ember_update).   *)
(* All are stored and reported as failed; no race with another call adds a  *)
(* fourth.  A call that dies with its process is not answered.              *)
ErrorsExplained ==
    \A i \in blamed \ faulted :
        IF memory[i].base = Nothing THEN memory[i].session \in over ELSE i \in Gone

=============================================================================
