# Ember's Diaries: a verification project

TLA+ modules of Ember's Diaries: its storage core, what agents do through it
(proposals, conflicts, sessions, lobby, memories), how it is searched, and the
servers in front of it; the TLC configurations that model-check them on small
instances; and proofs, checked by TLAPS, that the main invariants hold for every
value of the constants.

`tlasany M.tla` parses a module, `tlc -config X.cfg MCM.tla` checks a run,
`tlapm MProofs.tla` checks the proofs of a module.

## The system

Ember's Diaries is an append-only memory store for agents. A *handle* (an
`EmberDB` object, with its `PhysicalStore`) is opened by a thread or a process;
many handles may be open on one store directory. There is no server that they
go through: they meet in the files and in one *store lock*
(`PhysicalStore.transaction`, an `RLock` per store path inside a process and a
native file lock between processes).

| component | state | operations | meets others through |
|---|---|---|---|
| record store, write-ahead log, recovery (`storage/store.py`, `engine/wal.py`, `rust/ember_core/src/lib.rs`) | record files, `wal.jsonl`, `store.json` | `write`, open (replay), `checkpoint_wal`, reads | the directory, the store lock, the handle's own log lock |
| write engine (`engine/writer.py`) | supersession, deprecation, access and annotation sidecars | `write`, `update` (with and without `expected_hash`), `deprecate`, `annotate`, `record_access`, `resolve_cas_head` | the store lock; write callbacks |
| read engine (`engine/reader.py`) | none | `get` (no lock), `get_current`, `get_history` (lock), `get_namespace` | record files and sidecars |
| master index (`index/master.py`) | in-memory maps; `master.json` | `index_record`, `mark_superseded`, `mark_deprecated`, `persist`, load | the write callback of `EmberDB`, `checkpoint`, rebuild at connect |
| graph index (`index/graph.py`, `lib.rs`) | `adjacency.json` | `add_edge`, traversals | its own file lock, the callback, `link` |
| timeline, vector, full-text indexes | in memory; a file at `checkpoint` | index, query, persist, load | the callback, rebuild |
| proposals and promotion (`engine/promotion.py`, `db.py`) | PROPOSAL, NODE and EVIDENCE records | `propose`, `promote`, `reject`, `submit`, `attach_evidence`, `set_status` | `update` of the write engine, the conflict gate |
| conflicts (`core/conflict.py`, `db.py`, `lib.rs`) | CONFLICT records, `contradicts` edges | `map_conflict`, `update_conflict_status` | `update`, the graph, namespaces |
| sessions and failures (`core/session.py`, `core/failure.py`, `db.py`) | SESSION and FAILURE records | start, log, end; `report_failure`, `promote_failure` | `update` |
| lobby (`lobby/store.py`, `lobby/realtime.py`, `mcp/lobby_surface.py`) | boards and posts in memory, subscribers' bounded queues | open, post, read, promote, close; publish, subscribe | an `RLock` of the process; `EmberDB` |
| namespaces (`namespace/manager.py`) | registry in memory; one JSON file | create, grant, revoke, checks | the file, rewritten whole by each handle |
| query engine, version graph, audit (`query/engine.py`, `index/`, `db.py`) | none of their own | searches, lineage, audits | the indexes, the sidecars, the graph file |
| memory protocol, cognitive layer, maintenance (`integration/`, `cognitive/`, `maintenance.py`) | cooldowns and episodes in memory | remember, recall, update, forget; a cycle of reflection and consolidation | `EmberDB`; one loop per server |
| MCP server, REST routes (`mcp/`, `api/`), identity | one handle and one registry copy per process; tokens | the calls of agents | `EmberDB`, the lobby, the namespaces |
| CLI, configuration, logging, tool schemas | none | wiring | - |

`db.py` and `index/graph.py` import `embers._native` unconditionally, so the Rust
code is the storage back end, and what is modelled is that code.

### What is hard here

- **Every write is several file operations.** PENDING frame, record file,
  COMMITTED frame, `store.json`; then a supersession sidecar; then the graph;
  then, at some checkpoint, the indexes. A process may die between any two,
  and any of them may raise and leave the handle alive. Recovery knows only of
  the first three.
- **Handles interleave.** One handle recovers while another writes; one compacts
  the log while another appends to it; two update the same head.
- **Not everything is under the store lock**: `checkpoint_wal` is not, nor are
  index persistence, `get`, and the second half of `deprecate`.
- **Check, then act.** `promote`, `reject`, `map_conflict`,
  `update_conflict_status`, session updates and the lobby's promotion read a
  status in one transaction and act on it in later ones, without
  `expected_hash`.
- **Two kinds of durability.** The graph is durable at once, the other indexes at
  checkpoint; whether to rebuild is decided by looking at one of them.
- **Things that live in one process meet things that live in the store**: lobby
  boards, event queues, cooldowns and registry copies beside records, sessions
  and failures; a call that touches both can fail in the middle.
- **Searches over shapes nobody chose**: cycles, forks, half indexed versions,
  limits that cut before they filter.

The list with the lines where each bites, and the properties that watch it, is
`hazards` in `PROJECT.json`.

### What makes each component correct

- *record store*: a write that returned stays readable, with the content that was
  written; a record never changes; nothing is published that was not logged; a
  logged transaction is not lost; a COMMITTED frame is never about a missing
  record; writes and replays exclude one another; every transaction ends.
- *write engine*: supersession chains are sound; compare-and-set updates do not
  fork a lineage or redirect one; an update that returned is not lost.
- *indexes*: never ahead of the store; complete for the handle's own writes;
  complete after a restart; the graph holds one edge per derivation.
- *promotion*: one memory per promoted proposal, with all its evidence; a decided
  proposal stays decided; a rejected one never becomes a memory.
- *conflicts*: one live conflict per pair; a closed conflict stays closed; a
  status history follows the transition table; a conflict is where the promotion
  gate looks for it.
- *sessions*: nothing logged in a session is lost; an ended session stays ended.
- *lobby*: participants, presence and the look-up by session agree; a post is
  marked with a record that is stored; closing a board stores its failures (up to
  the first that raises: finding 4).
- *event broker*: a subscriber sees events in order and is told of every loss.
- *namespaces and the calls of agents*: a grant or a revocation that returned has
  effect; nothing is shown or changed against it; an error means nothing was
  stored.
- *searches*: exactly what is within the depth; one notion of lineage; an audit
  that tells what was written; an answer without anything replaced, forgotten or
  from another room, and with everything that a limit did not cut.
- *upkeep*: a fading memory is noted once per cooldown, and eventually; no
  summary of the same memories twice in a cycle; episodes partition the stream.

## Modules

| module | models | state, and its place in the code |
|---|---|---|
| `AppendOnlyStore` | the promise of the physical store: an append-only map | `stored`: what `PhysicalStore.read` returns; `returned`: writes that came back |
| `RecordStore` | `store.py`, `wal.py`, and their native half | `records`: `records/<id>.ember`; `pending`, `committed`, `torn`: `wal.jsonl`; `recordCount`: `meta/store.json`; `lock`: the store lock; per handle: `phase` (the next file operation), `entry`, `todo`, `countRead` (locals) |
| `VersionStore` | `writer.py`: `write`, `update`, compare-and-set, `_mark_superseded`, `deprecate`; `reader.py`: `get`, `get_current` | `status`, `parent`, `number`: the record files; `sidecar`: `supersessions/`; `deprecated`: `deprecations/`; per handle: `held` (the content hash its caller holds) and the locals of the walk and the update |
| `IndexLayer` | `master.py`, the graph's edge file, and `db.py`: callback, `checkpoint`, `_rebuild_indexes_if_needed` | `index`: `MasterIndex` in memory; `masterFile`: `master.json`; `edges`: `adjacency.json`; `phase`, `marking`, `saving`: the writing, deprecating and checkpointing threads of a handle |
| `Promotion` | `db.py`: `propose`, `get_proposal`, `promote`, `reject`, `submit`, `attach_evidence`; `promotion.py`: the gates and modes | `proposal`, `memory`, `carrier`: the PROPOSAL, NODE and EVIDENCE records; `decisions`, `head`, `hidden`: later versions of a proposal, its supersession sidecar, the deprecation sidecar of that head; `supports`, `contradicted`: the graph; per caller: `phase`, `call`, `target`, `left`, `writing` (locals of `promote` and `_write_evidence_record`) |
| `Lineage` | the version chain of one record as `get_history` walks it, and what an `update` of any version does to it | operators; a chain is a sequence of version numbers |
| `Conflicts` | `db.py`: `map_conflict` to `resolve_conflict`, `conflict_protocol.py`, the native transition table | `pair`, `log`: CONFLICT records and their versions; `chain`, `superseded`: sidecars; `edges`: `contradicts` edges; `indexed`: the index of each handle; per caller: `phase`, `call` |
| `Shared`, `Sessions` | `db.py`: `start_session` to `report_failure`, `_update_session` | `account`, `chain`: SESSION versions; `stored`: the records; `issued`: ids given out; `todo`: the transactions a call has still to do; `read`, `base`: locals of `_update_session` |
| `Lobby` | `lobby/store.py` | `board`, `post`; `boardOf`: `by_session` |
| `Collaboration` | `mcp/lobby_surface.py`, `mcp/session_collab.py`: composes `Sessions` and `Lobby` | `kept`, `cut` are histories |
| `EventBroker` | `lobby/realtime.py` | `sequence`, `subscribers`; `inFlight`, `addressees`: locals of `publish`; `scheduled`: calls waiting on an event loop; `queue`, `got` |
| `Namespaces` | `namespace/manager.py` | `registry`: the copy of each process; `registryFile` |
| `Gateway` | the calls on memories in `mcp/server.py` and `api/v1.py`, `session_gate.py`, `session_auth.py`: extends `Namespaces` | `startedBy`, `over`, `memory`, `deprecated`; `serving`: the call of each process |
| `Traversal` | the searches of `index/graph.py` in `lib.rs` | `edges`, `asked`; the locals of one search |
| `VersionGraph`, `Audit` | the lineage queries of `master.py` (index) and `reader.py` (disk), load and rebuild; `audit_write` and the queries under it | `parent`: the records; `sidecar`: `supersessions/`; `indexed`, `next`, `marked`: `_records`, `_superseded` and the keys of `_supersedes` of one handle; `sources`, `relations`, `supports`, `promotedTo` |
| `Recall` | `memory_protocol.py` over the timeline, full-text and vector indexes, the query engine, `checkpoint` and connect | `memory`, `forgotten`: records and sidecars; `index`, `saved`: indexes in memory and on disk; `width`: embedding dimension; `answer` |
| `Episodes` | `cognitive/episodic.py` | `batch`, `at`, `current`, `closed`: locals of `segment`; `episodes`, `episodeOf` |
| `Upkeep` | `maintenance.py`, `reflection.py`, `consolidation.py`, `decay.py`, `reflect`/`consolidate` | `memories`; `retired`: by the sidecars; `known`, `marked`: the master index of each server; `reflectedAt`: `_last_reflection`; `doing`, `toNote`, `toSum`: its cycle |
| `MC*` | - | instances; `MCSurfaces`, `MCServer` and `MCRetrieval` put parts that share no state side by side, each explored on its own |
| `RecordStoreProofs`, `VersionStoreProofs`, `IndexLayerProofs`, `PromotionProofs` | - | theorems about the module of that name |
| `SurfacesProofs` | - | theorems about `Conflicts`, `Namespaces`, `Gateway` |
| `CollaborationProofs` | - | theorems about `Lobby`, `Sessions`, `Collaboration` |
| `ServerProofs` | - | theorems about `EventBroker`, `Upkeep` |
| `RetrievalProofs` | - | theorems about `Traversal`, `VersionGraph`, `Audit`, `Recall`, `Episodes` |

`RecordStore` implements `AppendOnlyStore` (`ImplementsPromise`: `stored` is
`records`, `returned` is what `acked` names; TLC checks it and `Implementation`
proves it). `VersionStore` builds on that promise: of a store transaction it
keeps the log entry and the publication (`Log`, `Publish`), which is where a
crash makes a difference to it. `IndexLayer` builds on both in the same way:
`limbo` is the log as far as an index can tell. `Promotion` stands one level
higher: a caller is a thread of some handle, and a store transaction is one step,
its publication (the steps inside it are the business of the modules below; a
record that a recovery publishes late is one whose caller was slow and then
failed). The three modules below it share the
convention that an action is one file operation, that `Abandon`, `Crash` and
failing operations may come between any two, and that the lock is released by
whatever way a transaction ends.

Notable modelling decisions:

- *The log* is what `pending_wal_lines` reads out of it. A line that was half
  written joins the next append, and both are unreadable: `torn`. A `wal_id` is a
  fresh uuid, so a COMMITTED frame is written as the transaction it names.
- *Compaction* truncates and then writes the scanned frames from offset 0 through
  a handle that was opened before: frames appended in between may survive or be
  overwritten, depending on lengths, and that is a choice in `RewriteWal`.
- *A content hash* covers the creation time and the parent's hash, so a version
  stands for its hash in `VersionStore`.
- *The chain walk* (`get_supersession_chain`) is one step per sidecar, with the
  `seen` set that ends it; that it never has to end this way is a consequence of
  `LinksSound` (numbers grow along a chain).
- *Every record is derived from one other* in `IndexLayer`, so that one edge
  belongs to it and its copies can be counted.
- *Deciding a proposal* is `update(proposal_id, ...)`: always from the first
  version and without `expected_hash`, so the sidecar is overwritten, whatever it
  pointed at. `Pending` is `get_proposal`: the head, or, if that is deprecated,
  the first version, which is pending.
- *Every policy mode* may be in use at once: each handle has its own engine. The
  gates are those of `promotion.py`; confidences are natural numbers and
  thresholds are compared as in the code (`>=` at all gates, `>` for the risk).
- *Evidence* is looked up and then written: `MissEvidence` and `WriteEvidence` are
  two steps, and `EvidenceExists` is the second writer's exception.
- *A conflict or a session* is updated without `expected_hash` from a head read
  before: `Superseding` (in `Lineage`) cuts the chain after that head. A chain is
  kept instead of sidecars because nothing else of them shows.
- *A call that writes several times* (`Collaboration`) is a list of tasks, each a
  transaction; a task that raises drops the rest, as the exception does. The ids
  of its records are fresh (`uuid4`): the next numbers (`issued`).
  `report_failure` is one task, which puts the logging in its own place once the
  failure is stored. What a closing board hands over is in the order of its
  posts (`InOrder`).
- *The lobby* runs every method under one lock, so a method is an action; what a
  presence row carries beside the session is left out, and `configure`. The
  no-room branch of `publish` is kept though `SeatsAgree` makes it unreachable.
  A new process has no boards (`Forget`); subscriptions are not read in `src`.
- *A server process* serves one call at a time: its handlers are `async` without
  an `await` between their accesses to the store, or run over stdio. Between two
  accesses other processes may do anything (`Gateway`).
- *Scores* (BM25, cosine, decay) are replaced by a choice among all orders they
  could give; what is decided is which memories may be left out (`cut`).
- *The index of a server* (`Upkeep`) holds what its handle wrote or found when it
  connected and is marked with what its handle retired. `reflect` cuts the list
  of the index to its limit and only then reads the sidecars, as
  `reader.py:139-150` does; which part is cut off is a choice. A restart takes
  over any earlier state of the index (a checkpoint of any handle), or, without
  one, all records unmarked.
- *Two chains* in `VersionGraph`: `SupersessionChain` is of the index (it starts at
  the first version that is marked by no other), `History` and `At` are of the disk
  and go forward from the version asked for. A rebuild links versions by their
  records and marks none, so after it the chain of the index is the version alone.
- *Time* in `Upkeep` passes in intervals of the loop; a memory fades when it was
  not recalled for `Fade` of them, summaries half as fast.
- *Access counters* and annotations have sidecars of their own; a torn access
  file makes every later `get` of its record raise and is not modelled.
- History variables (`issued`, `logged`, `acked`, `byCas`, `mine`, `atConnect`,
  `broken`, `decided`, `disturbed`, `failed`, `raced`, `lost`, `intended`,
  `clobbered`, `blamed`, `faulted`, `trespasses`, `expected`, `missed`, `stranded`,
  `made`, and the counters) are read by no code step; they are there for the
  properties, or they bound.
- Each module also holds a few operators marked *Mutant*: a plausible bug in the
  definition that follows them. No specification uses them; put in the place of
  that definition, each makes TLC report the property it is listed with in
  `PROJECT.json`.

## Runs

| run | shows | instance | states |
|---|---|---|---|
| `RecordStore` | under crashes, I/O errors, torn lines and unlocked compaction: returned writes readable, records immutable, publication after logging, commits sound, transactions exclusive, count within bounds; refines `AppendOnlyStore` | 2 handles, 2 ids, 2 contents, 3 transactions, 2 faults | 188 564 |
| `RecordStoreCheckpoint` | *finding*: compaction can erase a frame logged since its scan | 2 transactions, 1 fault | - |
| `VersionStore` | chains sound, returned compare-and-set updates exclusive and not lost, no redirection | 2 handles, 4 versions, 1 fault, 1 deprecation | 449 734 |
| `VersionStoreFork` | *finding*: a fault between record and sidecar lets two compare-and-set updates have one parent | 3 versions, 1 fault | - |
| `IndexLayer` | indexes never ahead of the store, own writes indexed, complete after a restart if nobody checkpointed | 2 handles, 2 records, 3 connects, 2 checkpoints, 1 fault | 374 237 |
| `Promotion` | promoted versions name a memory with all its evidence, whoever races or fails; automatic admission follows the policy; decisions stand; one outcome if calls neither overlap nor fail | 2 callers, 1 proposal of 4 kinds, 2 memories, 2 pieces of evidence, 1 fault, 1 deprecation | 1 527 361 |
| `PromotionRejected` | *finding*: a memory is made from a proposal that is then rejected | no faults, no deprecation | - |
| `Surfaces` | conflicts: one live per pair, legal histories, decisions kept, edges drawn, each up to the races it names; memories: access held, errors explained | 2 handles, 2 callers, 1 pair, 2 conflicts, 3 transitions, 1 fault; 2 processes, 2 agents, 1 session, 2 memories, 1 grant | 552 334 |
| `Collaboration` | a closed board's failures are stored up to the first of an author whose session has ended, marks point at stored records, accounts keep what returned | 2 callers, 2 sessions of 2 agents, 2 boards, 2 posts, 2 items, 4 lobby moves, 1 fault | 1 133 464 |
| `CollaborationClose` | *finding*: a closed board drops the failures behind one of an author whose session has ended | 1 caller, 1 session, 1 board, 2 posts, no fault | - |
| `Server` | without compaction and torn lines: logged transactions recoverable, quota kept by returned writes, everything that begins ends; lobby seats agree; the registry follows the changes; losses flagged and the newest event arrives; upkeep never repeats and fading is noted | the store of `RecordStore` with a quota of 1 record; 3 sessions of 2 agents, 2 boards; 2 processes, 3 changes, 1 tear; 1 subscription, a queue of 2, 5 events; 1 keeper, 3 memories, 5 time steps, 1 failure | 203 920 |
| `Retrieval` | searches exact; lineage queries agree; audits tell; answers exact; episodes partition | graphs of 4 nodes and up to 4 edges, depths to 3; 5 versions; audits of 3 versions with 1 fact; any number of faults, missed callbacks, loads and rebuilds in both; 3 memories, 1 reopening, 1 hit asked for; streams of 4 records in episodes of 2 | 1 198 772 |

**Bounds, and why they are enough.** Two handles give every pairwise race, and
the store lock lets one at a time in, so a third adds a waiter and no new state
of the files. Two ids tell "this record" from "another one"; two contents tell
"what I wrote" from "what somebody else wrote"; three transactions let one be
replayed while another runs and a third follows. Two faults allow a crash
during the recovery from a crash. Four versions make a chain of two links with
a fork beside it, the least in which a redirection, a refused compare-and-set and
a retried one all occur. In `IndexLayer` two records make one supersession and
three connects allow a handle to be reopened twice, so that a checkpoint of one
life is read by another. In `Promotion` callers meet only over one proposal or
over evidence they share, so one proposal and two callers show every race, an
attached piece of evidence standing for another proposal's; two memories let a
proposal be promoted twice, or derive from one and become the other; the
proposals cover the gates (grounded and strong, bare, and weak but corroborated
by two authors), with confidences that meet a threshold exactly and that miss
it. In `Conflicts` two conflicts of one
pair are the least that can break the one-live rule, and three transitions let
two overlap and a third follow. In `Collaboration` two posts let a failing one
drop the next and two boards let a session move; four lobby moves suffice to
open, join, publish and corroborate. A queue of two that holds a flagged event can
drop that one as well when a fifth event comes. Five steps of time hold a fading, a note, a cooldown of two
and the next cycle. Graphs of four nodes have the paths one shorter, as long and
one longer than each depth. Five versions fork twice, or fork and go on along both branches. One
keeper suffices, as others only write and retire, which `Outside` does; three
memories are one more than a reflection looks at. Every bound is a constant (`MaxFaults`, `MaxSupports`, `MaxRecords`
(the code's own quota), `MaxDeprecated`, `MaxCheckpoints`, `MaxConnects`, the
finite `WalId`, `Version` and `Rec`); the theorems hold for all of them.

**Deadlock** is checked in the runs of `RecordStore` and `VersionStore`, where a
handle that is idle can always close and a closed one open, and of `Promotion`,
where a call can always be made. In `IndexLayer` connects are bounded,
so a behaviour ends when all handles have exited, and in the other passing
runs the calls are (`MaxCalls`, `MaxMoves`, `MaxEvents`, `MaxTime` ...), or
a search is over: `CHECK_DEADLOCK FALSE` says so. Nothing in them waits for a
lock.

**Symmetry** is used where only safety is checked; `Server` checks liveness and
has none.

**Fairness.** All of it is in `Server`. Of the record store it assumes
`WF_vars(Step(h))`. `Step`
holds the actions of a call that has begun: straight-line code that, once it has
the lock, waits for nothing. Nothing is assumed of `Open`, `BeginWrite` or
`ScanWal` (somebody has to call them, and to win the lock) or of faults.
`HandlesSettle` says that whatever begins ends, hence that the store lock always
comes free. Then `BrokerFairness`: a publish that drew its number
schedules its event (straight-line code), an open loop runs what is scheduled on
it, and a consumer awaits its queue in a loop (the consumer is external; without
it nothing arrives). And `UpkeepFairness`: time passes, and the loop of a server
runs its cycle (`maintenance_loop` is `while True` around a sleep and a cycle
whose exceptions it catches). Nothing is assumed of subscribers, writers,
failures or restarts.

## Findings

Each is a run that TLC finds violated, with the line of the repository it
disagrees with in `findings` of `PROJECT.json`.

1. `wal.py:180`: `checkpoint()` does not take the store lock, so a PENDING frame
   that another process appends between its scan and its truncation is lost
   (threads of one process are held out by the interpreter lock, which the native
   call keeps), and with it the
   transaction, if the writer then crashes. What does survive is proved
   (`Durability`): a write that *returned* is never harmed.
2. `writer.py:214-220`: the record of a new version and the sidecar of the old
   are two operations, and recovery completes only the first. `NoForkWithoutFaults`
   proves that nothing but such a fault forks a lineage.
3. `db.py:1453`: `promote` and `reject` check the status in one transaction and
   decide in a later one, without `expected_hash`; the later of two overlapping
   decisions wins, and a proposal that reads as rejected may have become a
   memory. (In the same way two promotions make two memories.)
   `OneOutcomePerProposal` proves that this takes an overlap, a failure or a
   deprecated decision.
4. `lobby_surface.py:196-208`: closing a board reports its unpromoted failures one
   by one, and `report_failure` raises behind the stored record when the author's
   session has ended (`db.py:1181`): the failures behind it are dropped, with the
   board closed already. It takes one caller and no fault.
   `paper/lobby_design.md:133` rules silent drop out. `FailuresAreKept` proves what
   is stored: every failure up to the first such author.

Other things that a reader of the code would not expect showed while modelling.
They are in the modules (as guards, history variables or exceptions of a
property) and have no run of their own:

- `writer.py:172`: `update` looks for a deprecation where `deprecate` does not
  put it, so a deprecated version can be updated. `db.py:170`: only an empty
  master index is rebuilt, so a restart after a checkpoint misses later records
  (`RestartWithoutCheckpoint` proves that it misses none otherwise).
  `db.py:227`: a rebuild adds edges to a graph that has them.
- `promotion.py:246` says consensus accumulates through `attach_evidence`, which
  refuses proposals (`db.py:1640`); a consensus is of the authors of the evidence
  a proposal was made with. Two memories that get the same new evidence at once
  end with one call raising (`EvidenceExists`) where `db.py:1602` says
  "Idempotent".
- A conflict whose mapping failed between record and edge is never linked:
  mapping the pair again returns the existing id (`MappedIsLinked`).
- `get_at` follows the newest branch at a fork, so for a time between two branches
  it shows the version before the fork though an older branch was there, and
  before the version it is asked for it shows nothing (`At`). After a rebuild
  `QueryEngine.history` gives each version alone (`Rebuild` marks none), while
  `get_history` reads the sidecars. A version superseded by another handle is
  audited as `current` and superseded at once; one whose sidecar a fault prevented
  is superseded by nothing in the audit, but reads as superseded once a rebuild
  has found its successor (`AuditTells`).
- Two embedding widths in one store make `connect` raise when it rebuilds, and a
  question of another width makes recall raise (`open`). An `update` through the
  memory protocol drops room and embedding. Stale hits crowd out live ones: hits
  are limited before they are resolved (`cut`). A torn index file loads empty and
  only an empty master index triggers a rebuild; a rebuild after a torn
  `master.json` doubles the timeline's entries.
- A full episode may be followed by an empty one, and a maximum of one gives a
  first episode of two (`EpisodesAssumption` excludes it).
- A reflection looks at an arbitrary `limit` of what its index lists, and that list
  keeps what other processes retired for as long as the server runs: memories that
  are gone can take all the places (`FadingNoted` promises a note only to a server
  whose list is within the limit). A note that fails is not retried before its
  cooldown, and every cycle summarises the same sources again, in groups by
  calendar hour and by the first three tags. `decay.py:40` does not hold for a
  confidence of 0.
- A write whose session has ended stores its record and answers an error
  (`server.py:142`, `v1.py:134`), so does an update that was superseded or
  deprecated before its answer (`server.py:179`, `v1.py:220`), and so does any
  call that meets a fault behind its record, such as a full store when the session
  gets its new version (`server.py:143`, `v1.py:135`): `ErrorsExplained` says there
  is no fourth case.

## Proofs

All proofs are about the specifications as they are, for any `Handle`, `Id`,
`Version`, `Rec` and any bounds; they assume only what the `ASSUME`s of the
modules say (that the "none" values are not members of the sets, that the bounds
are natural numbers, that ids are numbers where they are given out in order, that
a graph has finitely many nodes), which TLC evaluates in the runs. A theorem with a
further hypothesis has it named below. Every invariant and action property of a
passing run is a theorem. The type invariants are proved and are not in the runs:
`TypeCorrect`, `VersionTypes`, `IndexTypes`, `PromotionTypes`, `ConflictTypes`,
`AccessTypes`, `BrokerTypes`, `LobbyTypes`.

Where several modules share a module of proofs they share no state, as in the
composed runs: each theorem is about the specification of its own part
(`LobbySpec`, `AccessSpec`, `GatewaySpec`, `BrokerSpec`, `UpkeepSpec`,
`TraversalSpec`, `VersionSpec`, `AuditSpec`, `RecallSpec`, `EpisodesSpec`), whose
initial states and steps are those that the runs explore.

**`RecordStoreProofs`.** `AckedReadable` is not inductive: one has to know that
what is in the record file when a write returns is what that write logged. The
inductive invariant `Inv` adds: the store lock is held by exactly the handle that
writes or replays (`LockHeld`), so what a writer has established about its record
stays true while it needs it - no record before publication, the content of its
entry after it (`WriterKnows`); and every frame, in the log or scanned by a
replay or a compaction, is of a logged transaction (`FramesLogged`). From it:
`TypeCorrect`, `Durability`, `WriteAhead`, `CommitsAreSound`, `MutualExclusion`,
the action property `Immutability`, and `Implementation` (initial states map to
initial states, each step to a `Publish`, an `Acknowledge` or a stutter).
`Recoverability` carries `LoggedRecoverable` along, under the assumptions
`Checkpoints = FALSE` and `TornAppends = FALSE`; the first is needed because of
finding 1, the second because a torn line does swallow the frame after it.

Counts and quota are about cardinalities. A writer that has published is there but
not counted yet, and what it read of the count is still the count, since it holds
the lock (`Counting`): `CountsAreSound`. Room that a writer found when it took the
lock is there when it publishes (`Rooming`), so the count it writes is within the
quota; a replay publishes without asking and counts nothing, and whoever writes
next finds what it published: `QuotaHeld`.

**`VersionStoreProofs`.** `LinksSound` and the two properties of returned
compare-and-set updates lean on each other through the handle in the middle of
an update. The invariant ties its locals to the files: the lock is held by
whoever is in a call (`LockHeld`); a walk climbs in version numbers, so it never
meets a version it has seen and ends at one without a sidecar (`WalkSound`);
hence the base of an accepted compare-and-set has no sidecar until that very
update writes one (`BaseSound`, `NewSound`, `ReturnSound`), while the base of
every update that returned has one (`AckedLinked`). From it: `VersionTypes`,
`ChainsAreSound`, `CasExclusion`, `NoLostUpdate`, and the action property
`CasOnlyExtends`. `NoForkWithoutFaults` assumes `MaxFaults = 0`.

**`IndexLayerProofs`.** The invariant names what each phase of the callback may
rely on: `LockHeld`, `WriterAfterFiles` (the callback runs after record and
sidecar are in place), `Pending` (what is about to be marked deprecated is so on
disk), `Rebuilding` (what is indexed and what is still to do make up what was
found at connect), `NothingMine` (a closed handle claims nothing). From it:
`IndexTypes`, `NeverAheadOfStore`, `ReadYourWrites`, `RestartWithoutCheckpoint`.

**`PromotionProofs`.** Records and edges are never taken away (`Growth`, an
action lemma every other lemma uses), so what a call has established - that its
memory was made from its proposal (`CallSound`), that the evidence it is done
with is stored and supports it (`EvidenceInPlace`), that its proposal passed the
gates (`PolicyChecked`) - stays true until the decision is written, whatever
other calls do: `GroundingOfPromotions` and `AdmissionByPolicy`. Each decision
overwrites a head by a head (`DecidedHeaded`): `DecisionsStand`. A proposal whose
calls neither overlap nor fail is in one call at a time, which found it undecided
(`Alone`): `OneOutcomePerProposal`. The proofs are for any number of callers,
proposals, memories, faults, and any policy.

**`SurfacesProofs`.** *Conflicts.* A new version is put behind the version its transition
was checked against, or on no chain that is seen: a chain is a prefix it had
before and the new version (`SupersedingExtends`), and the version before the
new one was not closed when the call read it, nor ever, since versions never
change (`CallsSound`). So histories are legal whatever overlaps
(`HistoriesLegal`). While the transitions of a conflict do not overlap there is
one at a time and its base is the tip (`Alone`), so nothing falls off
(`DecisionsStay`) and no conflict comes to life but when it is published
(`LiveBefore`). While the mappings of a pair do not overlap either
(`MapsAlone`), what a mapping found closed through an index that is not behind
is closed when it stores (`Cleared`): `OneConflict`. `ConflictsLinked` follows
the call between record and edge.

*Namespaces.* A change that does not clobber starts from a copy that is the
namespace intended, so it turns both into the same value: `RegistryCurrent`.

*Gateway.* While a process serves a call it does not change its copy of the
registry, so what was granted when the call passed its gate is granted when it
writes and when it answers (`Admitted`): `AccessIsHeld`. A call that answers with
an error after it stored something, and met no fault, can only have found its
session over, or its version replaced or deprecated, in between, and neither is
ever undone (`StoredAsAsked`): `ErrorsAreExplained`.

**`CollaborationProofs`.** *Lobby.* `SeatsAgree` is inductive with the types and
the finiteness of the members, which the capacity needs: every method changes the
three maps for one session or empties one board: `SeatsAlwaysAgree`. That the
capacity check of `publish` never fails is part of it (`SeatedIsMember`). For
`LobbyTypes` one has to know that what is on an open board was published
(`PostsOK`).

*Accounts.* While no two changes of a session overlap, one caller changes it, and
what it has read is what the tip of the chain says, on the tip itself (`Alone`).
The version it adds says all that was said before: `AccountsAreKept`.

*Marks.* An id that was not given out is in no list (`NotYet`), and an id is
written by one task of one caller, once (`OneWriter`). So the record of a post
keeps the session it was stored with (`KeptRight`), and a post that is to be marked
has its record, or the same list stores it earlier (`MarkReady`):
`MarksAreAlwaysStored`.

*Failures.* A post is on one board (`PostsOnce`). A close hands every failure
without a record to its caller (that `InOrder` leaves none out is a fact about
cardinalities, `InOrderOnto`); until one of them is stored, that caller logs only
to sessions of authors of failures posted before it (`LogsLocal`), so if it is
turned away one of these has ended. On a closed board nothing changes (`ClosedBoards`):
`FailuresAreKept`.

**`ServerProofs`.** *Events.* Numbers are drawn, scheduled, queued and taken in
order (`Ordered`), so the event that makes room, and asks for a resync, is newer
than the one dropped and takes over from any request it drops: `LossesFlagged`.

*Upkeep.* Whatever part of its index a reflection looks at: what a server remembers of a memory is no older than any note of it
(`Remembers`), so a memory that is due has no note within the cooldown (`Apart`).
The groups that a cycle is to summarise and those it has are all different
(`Different`): groups of one hour and of one tag are each a partition, and a group
that is both is found once. `UpkeepIsSparing`.

**`RetrievalProofs`.** What these modules compute is recursive over data, and the
theorems of the library about induction take an operator as a parameter, which the
provers cannot instantiate. The module proves what it needs in a form they can
use: the least number principle (from the well-foundedness of `<`), induction
for a *set* of numbers, that a function can be iterated (`Iterates`), and that a
recursive function exists if its value at each number depends only on its values
at smaller ones (`Recursive`). Recursion in the models is by recursive functions,
and a lemma says of each that it satisfies its defining equation (`ReachIs`,
`AncestorsAre`, `DescendantsAre`, `BackIs`, `WalkIs`, `RebuiltIs`, `FlattenIs`).

*Traversal.* For `path`: the queue holds paths from the root, in order of length
and not two lengths apart; a visited node has its neighbours visited or is at the
end of a path in the queue; nothing nearer is missed (`Searched`, `Shortest`). For
`neighbors` and `subgraph`: after each round, visited and frontier are what is
within as many edges (`Rounds`). `SearchesAreExact`.

*Version graph.* A parent is older than its child; a sidecar names the newest child
that was written with one, an index mark the newest that was marked, and a marked
version is indexed and has its sidecar (`Names`, `VersionSound`). The first
holds through faults, the second through loads and rebuilds, which only ever take
marks away. The first children of their parents are as many as the nodes that are
no heads, which counts the heads (`HeadsCounted`, `HeadsAre`). A walk along
links that go forward ends, at a version without one, and is the only such walk
(`WalkIs`, `WalkIsUnique`); so what holds of the links holds along the chain
of the index and the history on disk, and where marks and sidecars agree the two
are one (`ChainIsHistory`); reads at a time are read off the history (`ReadsAre`):
`LineagesAreConsistent`.

*Audit.* `AuditInv`: `VersionSound`, facts are about versions that are there,
derivations are of older ones and drawn on the graph but for those a callback
missed (`Derivations`), evidence is of stored versions (`Supported`), and only
first versions were promoted (`PromotedFirst`): `AuditsTellWhatWasWritten`.

*Recall.* `RecallInv`: an open store has all that is expected of it in the
full-text index and the timeline, and so have the files (`Found`), because a rebuild
reads every record (`RebuiltIs`) and an index never drops one. `RecallIsExact`. The
proof found an error in an earlier form of the model, which TLC's instance did not
show: a recall that needs no embedding was possible on a store that was not open.

*Episodes.* What has been read is what has been cut, in order (`Cut`), and no piece
has a boundary inside (`AllWhole`); what earlier runs said stays (`Remembered`).
`StreamsArePartitioned`.

**Model-checked only:** the liveness properties `HandlesSettle`, `NewestArrives` and
`FadingNoted` (liveness under fairness and `ENABLED` are beyond the prover), and the
four findings, which are counterexamples.

## What is not modelled, and why

- Byte formats (MessagePack, canonical JSON, hashing), the floating-point formulas
  of ranking, decay and importance, wording, CLI, configuration, logging and tool
  schemas: no protocol state, or state the properties are not about. The
  summariser, the context builder and the lifecycle hooks assemble text.
- `RuntimeError`s of a reader that iterates over an index while its handle's
  writer adds to it end a read and change nothing. A torn access or annotation
  file makes reads of one record raise; no other state depends on it.
- Exceptions of a write callback are caught by `writer._notify`: what a callback
  that fails half way leaves is modelled (`IndexLayer`, `VersionGraph`), the
  message is not.
- `set_status`, `promote_failure`, listings, the fluent filters of the query
  engine and the timeline's range queries: loops over what is modelled.
- Routes for proposals, evidence and consolidation take no namespace gate and are
  outside `AccessHeld`. Registration of agents happens before `Gateway` begins;
  tokens are whether an agent is authenticated.
- `LobbyStore.configure`, and the resets of lobby and broker, which only tests
  call (a new process is `Forget`).

## Plan

Done: `RecordStore`, `VersionStore`, `IndexLayer`, `Promotion`, `Conflicts`,
`Sessions`, `Lobby`, `Collaboration`, `EventBroker`, `Namespaces`, `Gateway`,
`Traversal`, `VersionGraph`, `Audit`, `Recall`, `Episodes`, `Upkeep`.

All invariants and action properties that the runs check are proved. Next, in this
order:

1. An abstract specification of a lineage with compare-and-set that
   `VersionStore` implements without faults, and of a board's events (a prefix,
   or a gap that is announced) that `EventBroker` implements.
2. The annotation and access sidecars beside lock-free readers.
3. `Conflicts` composed with `Promotion` through the conflict gate, instead of
   the mapped conflicts `Promotion` assumes.
