----------------------------- MODULE Namespaces -----------------------------
(***************************************************************************)
(* The access rules of one namespace (embers/namespace/manager.py).  The   *)
(* handle of every process loads the registry file once, when it connects, *)
(* decides from its own copy and rewrites the whole file from it, without  *)
(* a lock, on every change and every checkpoint.                           *)
(***************************************************************************)
EXTENDS Naturals

CONSTANTS
    Process, Agent,
    NoSpace,        \* the namespace is not registered
    MaxChanges,     \* bound: changes to the registry
    MaxTears        \* bound: registry files a crash leaves unreadable

Level == {"public", "internal", "private"}
Space == [level : Level, owner : Agent, readers : SUBSET Agent, writers : SUBSET Agent]

ASSUME NamespaceAssumption ==
    NoSpace \notin Space /\ MaxChanges \in Nat /\ MaxTears \in Nat

VARIABLES
    registry,       \* registry[h]: the namespace in the memory of handle h
    registryFile,   \* registry.json; an unreadable file loads as an empty one
    intended,       \* history: the namespace after the changes asked for, in order
    clobbered,      \* history: a handle wrote the file from a copy that was not up to date
    changes, tears

accessVars == <<registry, registryFile, intended, clobbered, changes, tears>>

AccessTypeOK ==
    /\ registry \in [Process -> Space \cup {NoSpace}]
    /\ registryFile \in Space \cup {NoSpace}
    /\ intended \in Space \cup {NoSpace}
    /\ clobbered \in BOOLEAN
    /\ changes \in 0..MaxChanges /\ tears \in 0..MaxTears

AccessInit ==
    /\ registry = [h \in Process |-> NoSpace]
    /\ registryFile = NoSpace /\ intended = NoSpace
    /\ clobbered = FALSE /\ changes = 0 /\ tears = 0

(* check_read and check_write: a namespace that is not registered is open. *)
Readers(s) ==
    IF s.level \in {"public", "internal"} THEN Agent ELSE {s.owner} \cup s.readers

Writers(s) == IF s.level = "public" THEN Agent ELSE {s.owner} \cup s.writers

MayRead(s, a)  == s # NoSpace => a \in Readers(s)
MayWrite(s, a) == s # NoSpace => a \in Writers(s)

(* create, delete and the four grants and revocations, on a copy of the     *)
(* registry.  Each is a no-op (or an error) where it does not apply.        *)
Created(s, l, a) ==
    IF s = NoSpace THEN [level |-> l, owner |-> a, readers |-> {}, writers |-> {}] ELSE s

Deleted(s) == NoSpace

GrantedRead(s, a)  == IF s = NoSpace THEN s ELSE [s EXCEPT !.readers = @ \cup {a}]
GrantedWrite(s, a) == IF s = NoSpace THEN s ELSE [s EXCEPT !.writers = @ \cup {a}]
RevokedRead(s, a)  == IF s = NoSpace THEN s ELSE [s EXCEPT !.readers = @ \ {a}]
RevokedWrite(s, a) == IF s = NoSpace THEN s ELSE [s EXCEPT !.writers = @ \ {a}]

(* Mutant: the change stays in memory. *)
PersistLater(s) == UNCHANGED registryFile

(* persist: the file becomes the copy of handle h. *)
Persist(s) == registryFile' = s

(* A change asked of handle h turns its copy into here; everybody else     *)
(* would have it turn the namespace into wanted.                            *)
Change(h, here, wanted) ==
    /\ changes < MaxChanges
    /\ changes' = changes + 1
    /\ intended' = wanted
    /\ registry' = [registry EXCEPT ![h] = here]
    /\ IF here = registry[h] THEN UNCHANGED registryFile ELSE Persist(here)
    /\ clobbered' = (clobbered \/ registry[h] # intended)
    /\ UNCHANGED tears

ChangeAccess(h) ==
    \/ \E l \in Level, a \in Agent :
          Change(h, Created(registry[h], l, a), Created(intended, l, a))
    \/ Change(h, Deleted(registry[h]), Deleted(intended))
    \/ \E a \in Agent :
          \/ Change(h, GrantedRead(registry[h], a), GrantedRead(intended, a))
          \/ Change(h, GrantedWrite(registry[h], a), GrantedWrite(intended, a))
          \/ Change(h, RevokedRead(registry[h], a), RevokedRead(intended, a))
          \/ Change(h, RevokedWrite(registry[h], a), RevokedWrite(intended, a))

(* EmberDB.checkpoint persists the registry too. *)
PersistCopy(h) ==
    /\ Persist(registry[h])
    /\ clobbered' = (clobbered \/ registry[h] # intended)
    /\ UNCHANGED <<registry, intended, changes, tears>>

(* A process dies while the file is rewritten in place. *)
TearRegistry ==
    /\ tears < MaxTears
    /\ tears' = tears + 1
    /\ registryFile' = NoSpace
    /\ clobbered' = TRUE
    /\ UNCHANGED <<registry, intended, changes>>

(* __init__ and _load. *)
LoadRegistry(h) ==
    /\ registry' = [registry EXCEPT ![h] = registryFile]
    /\ UNCHANGED <<registryFile, intended, clobbered, changes, tears>>

AccessNext ==
    \/ TearRegistry
    \/ \E h \in Process : ChangeAccess(h) \/ PersistCopy(h) \/ LoadRegistry(h)

AccessSpec == AccessInit /\ [][AccessNext]_accessVars

-----------------------------------------------------------------------------

(* A handle that has just connected decides by the changes asked for, in    *)
(* the order they were asked for, as long as no change or checkpoint came   *)
(* from a handle with an older copy and no write of the file was torn       *)
(* (manager.py _load, persist; db.py checkpoint).                           *)
RegistryFollows == clobbered \/ registryFile = intended

=============================================================================
