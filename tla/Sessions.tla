------------------------------ MODULE Sessions ------------------------------
(***************************************************************************)
(* Sessions and the records they account for (embers/db.py start_session   *)
(* to report_failure).                                                     *)
(*                                                                         *)
(* Every call is a list of tasks done in order, each in transactions of    *)
(* its own: a task that raises drops the rest.  Logging to a session and   *)
(* ending it take three: read the session, read its head again, supersede  *)
(* that head, without expected_hash, by what was read and changed.         *)
(***************************************************************************)
EXTENDS Shared, Lineage

CONSTANTS
    Caller,
    MaxItems,        \* bound: ids given out
    MaxCalls,        \* bound: calls that change sessions
    MaxFaults        \* bound: calls that fail, process restarts

ASSUME SessionAssumption ==
    {MaxItems, MaxCalls, MaxFaults} \subseteq Nat /\ Item = 1..MaxItems

(* What a version of a session says. *)
Account == [active : BOOLEAN, log : SUBSET Item]

(* write record item, naming session, for post; report it: write it and log  *)
(* it; log item to session; end session; mark post promoted as item.        *)
Task == [do : {"write", "report", "log", "end", "mark"}, item : Item \cup {None},
         session : Session \cup {None}, post : Post \cup {None}]

ASSUME AccountAssumption == None \notin Account

VARIABLES
    account,     \* account[s][n]: version n of session s
    chain,       \* chain[s]: the versions on the chain from s (Lineage)
    stored,      \* stored[i]: the session record i names, None if there is no i
    issued,      \* ids given out so far: 1..issued
    todo,        \* todo[c]: the tasks caller c has still to do
    read,        \* read[c]: the account it has read and changed
    base,        \* base[c]: the head it has read, 0 if it has not
    logged,      \* history: <<s, i>> whose logging returned
    ended,       \* history: sessions whose ending returned
    raced,       \* history: sessions with overlapping or failing tasks
    calls, faults

ledger      == <<account, chain, stored>>
progress    == <<todo, read, base>>
sessionVars == <<ledger, progress, issued, logged, ended, raced, calls, faults>>

Started(s) == chain[s] # <<>>

(* Mutant: a session is read as it was started, not as it is. *)
CurrentStart(s) == account[s][1]

(* get_session: the end of the chain of its versions. *)
Current(s) == account[s][Tip(chain[s])]

SessionInit ==
    /\ account = [s \in Session |-> <<>>]
    /\ chain = [s \in Session |-> <<>>]
    /\ stored = [i \in Item |-> None] /\ issued = 0
    /\ todo = [c \in Caller |-> <<>>]
    /\ read = [c \in Caller |-> None]
    /\ base = [c \in Caller |-> 0]
    /\ logged = {} /\ ended = {} /\ raced = {}
    /\ calls = 0 /\ faults = 0

(* start_session. *)
Start(s) ==
    /\ ~Started(s)
    /\ account' = [account EXCEPT ![s] = <<[active |-> TRUE, log |-> {}]>>]
    /\ chain' = [chain EXCEPT ![s] = <<1>>]
    /\ UNCHANGED <<stored, progress, issued, logged, ended, raced, calls, faults>>

WriteTask(i, s, p) == [do |-> "write", item |-> i, session |-> s, post |-> p]
LogTask(i, s)      == [do |-> "log", item |-> i, session |-> s, post |-> None]
EndTask(s)         == [do |-> "end", item |-> None, session |-> s, post |-> None]
MarkTask(p, i)     == [do |-> "mark", item |-> i, session |-> None, post |-> p]

(* report_failure: the record, then the account of its session. *)
ReportTask(i, s, p) == [do |-> "report", item |-> i, session |-> s, post |-> p]

Idle(c) == todo[c] = <<>>
Now(c)  == Head(todo[c])

(* A call that is to store n records: each has an id of its own. *)
Assign(c, tasks, n) ==
    /\ Idle(c)
    /\ calls < MaxCalls /\ issued + n <= MaxItems
    /\ calls' = calls + 1 /\ issued' = issued + n
    /\ todo' = [todo EXCEPT ![c] = tasks]
    /\ UNCHANGED <<ledger, read, base, logged, ended, raced, faults>>

(* A failure, a memory or a proposal of a session. *)
Report(c, s) == Assign(c, <<ReportTask(issued + 1, s, None)>>, 1)

End(c, s) == Started(s) /\ Assign(c, <<EndTask(s)>>, 0)

Next1(c) == todo' = [todo EXCEPT ![c] = Tail(@)]
Drop(c)  == todo' = [todo EXCEPT ![c] = <<>>]

(* A task is a caller's own from its first read to its last write. *)
Updating(s) == {c \in Caller : read[c] # None /\ Now(c).session = s}

Write(c) ==
    LET t == Now(c) IN
    /\ ~Idle(c) /\ t.do \in {"write", "report"}
    /\ stored' = [stored EXCEPT ![t.item] = t.session]
    /\ IF t.do = "report"
       THEN todo' = [todo EXCEPT ![c] = <<LogTask(t.item, t.session)>> \o Tail(@)]
       ELSE Next1(c)
    /\ UNCHANGED <<account, chain, read, base, issued, logged, ended, raced, calls, faults>>

(* validate_session_activity and validate_session_transition. *)
Changeable(s) == Current(s).active

Changed(a, t) == IF t.do = "end" THEN [a EXCEPT !.active = FALSE]
                                 ELSE [a EXCEPT !.log = @ \cup {t.item}]

(* What names no session is logged nowhere; _require_session and the check  *)
(* raise when the session is closed.                                        *)
Read(c) ==
    LET s == Now(c).session IN
    /\ ~Idle(c) /\ Now(c).do \in {"log", "end"} /\ read[c] = None
    /\ \/ ~Started(s) /\ Next1(c) /\ UNCHANGED <<read, raced>>
       \/ /\ Started(s) /\ Changeable(s)
          /\ read' = [read EXCEPT ![c] = Changed(Current(s), Now(c))]
          /\ raced' = IF Updating(s) # {} THEN raced \cup {s} ELSE raced
          /\ UNCHANGED todo
       \/ Started(s) /\ ~Changeable(s) /\ Drop(c) /\ UNCHANGED <<read, raced>>
    /\ UNCHANGED <<ledger, base, issued, logged, ended, calls, faults>>

(* _update_session reads the head again ... *)
ReadHead(c) ==
    /\ ~Idle(c) /\ read[c] # None /\ base[c] = 0
    /\ base' = [base EXCEPT ![c] = Tip(chain[Now(c).session])]
    /\ UNCHANGED <<ledger, todo, read, issued, logged, ended, raced, calls, faults>>

AddVersion(s, a, b) ==
    /\ account' = [account EXCEPT ![s] = Append(@, a)]
    /\ chain' = [chain EXCEPT ![s] = Superseding(@, b, Len(account[s]) + 1)]

(* ... and supersedes it. *)
Update(c) ==
    LET t == Now(c) IN
    /\ ~Idle(c) /\ base[c] # 0
    /\ AddVersion(t.session, read[c], base[c])
    /\ read' = [read EXCEPT ![c] = None] /\ base' = [base EXCEPT ![c] = 0]
    /\ Next1(c)
    /\ IF t.do = "end" THEN ended' = ended \cup {t.session} /\ UNCHANGED logged
                       ELSE logged' = logged \cup {<<t.session, t.item>>} /\ UNCHANGED ended
    /\ UNCHANGED <<stored, issued, raced, calls, faults>>

(* A call fails: what it has done so far stays, and so may the version it   *)
(* was writing, with or without the sidecar of its base.                    *)
Fail(c) ==
    LET s == Now(c).session IN
    /\ ~Idle(c)
    /\ faults < MaxFaults
    /\ faults' = faults + 1
    /\ Drop(c)
    /\ read' = [read EXCEPT ![c] = None] /\ base' = [base EXCEPT ![c] = 0]
    /\ \/ UNCHANGED <<account, chain>>
       \/ /\ base[c] # 0
          /\ account' = [account EXCEPT ![s] = Append(@, read[c])]
          /\ chain' \in {chain, [chain EXCEPT ![s] =
                                   Superseding(@, base[c], Len(account[s]) + 1)]}
    /\ UNCHANGED <<stored, issued, logged, ended, raced, calls>>

SessionCalls ==
    \/ \E s \in Session : Start(s) \/ \E c \in Caller : Report(c, s) \/ End(c, s)
    \/ \E c \in Caller : Read(c) \/ ReadHead(c) \/ Update(c)

-----------------------------------------------------------------------------

(* What a session was told stays true of it: an item whose logging returned *)
(* is on its account and one that was ended is not active again, unless two *)
(* changes of that session overlapped (_update_session supersedes the       *)
(* newest version with what it read of an older one).                       *)
AccountKept ==
    \A s \in Session \ raced :
        /\ \A i \in Item : <<s, i>> \in logged => i \in Current(s).log
        /\ s \in ended => ~Current(s).active

=============================================================================
