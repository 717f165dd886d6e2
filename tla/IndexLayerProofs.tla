-------------------------- MODULE IndexLayerProofs --------------------------
(***************************************************************************)
(* Proofs about IndexLayer for any number of handles, records, restarts,   *)
(* checkpoints and faults.                                                 *)
(*                                                                         *)
(* The argument: files only gain records and sidecars, an index gets its   *)
(* entries from files that are there already (WriterAfterFiles, Pending),  *)
(* and so does master.json from an index.  Until somebody checkpoints,     *)
(* master.json is empty, so that every handle that connects rebuilds its   *)
(* index from the record files (Rebuilding).                               *)
(***************************************************************************)
EXTENDS IndexLayer, TLAPS

LockHeld == \A h \in Handle : phase[h] \in WritePhase <=> lock = h

(* The callback runs after the files of its write are there. *)
WriterAfterFiles ==
    \A h \in Handle :
        /\ phase[h] \in WritePhase => current[h] \in Rec
        /\ phase[h] \in WritePhase \ {"publish"} => current[h] \in records
        /\ phase[h] = "publish" => current[h] \notin records
        /\ phase[h] \in {"master", "edge", "mark"} /\ supersedes[current[h]] # NoRec =>
              sidecar[supersedes[current[h]]] # NoRec
        /\ phase[h] \in {"edge", "mark"} => current[h] \in index[h].ids

(* What a thread has still to do is about files that are there, too. *)
Pending ==
    \A h \in Handle :
        /\ marking[h] # NoRec => marking[h] \in deprecatedAt
        /\ todo[h] \subseteq records
        /\ mine[h] \subseteq records

(* Without a checkpoint a connecting handle starts from an empty index. *)
Rebuilding ==
    /\ \A h \in Handle : phase[h] \in {"closed", "load"} => index[h].ids = {}
    /\ \A h \in Handle : saving[h] # "idle" => checkpoints # 0
    /\ checkpoints = 0 =>
          /\ masterFile.ids = {}
          /\ \A h \in Handle :
                /\ phase[h] = "decide" => index[h].ids = {}
                /\ phase[h] = "rebuild" => atConnect[h] \subseteq index[h].ids \cup todo[h]

NothingMine ==
    \A h \in Handle : phase[h] \in {"closed"} \cup ConnectPhase => mine[h] = {}

Inv ==
    /\ TypeOK
    /\ LockHeld /\ WriterAfterFiles /\ Pending
    /\ Rebuilding /\ RebuildIsComplete
    /\ NothingMine /\ OwnWritesIndexed
    /\ IndexNeverAhead

-----------------------------------------------------------------------------

(* The initial state satisfies the invariant. *)
LEMMA InitInv == Init => Inv
<1> SUFFICES ASSUME Init PROVE Inv
  OBVIOUS
<1> USE IndexAssumption DEF Init, EmptyIndex
<1>1. TypeOK
  BY DEF TypeOK, Index, Phase
<1>2. LockHeld /\ WriterAfterFiles /\ Pending
  BY DEF LockHeld, WriterAfterFiles, Pending, WritePhase
<1>3. Rebuilding /\ RebuildIsComplete
  BY DEF Rebuilding, RebuildIsComplete, ConnectFindsAll
<1>4. NothingMine /\ OwnWritesIndexed /\ IndexNeverAhead
  BY DEF NothingMine, OwnWritesIndexed, IndexNeverAhead, NeverAhead
<1> QED
  BY <1>1, <1>2, <1>3, <1>4 DEF Inv

(* Adding an entry to an index gives an index. *)
LEMMA IndexUpdates ==
    ASSUME NEW i \in Index, NEW r \in Rec, NEW s \in Rec
    PROVE  /\ [i EXCEPT !.ids = @ \cup {r}] \in Index
           /\ [i EXCEPT !.deprecated = @ \cup {r}] \in Index
           /\ [i EXCEPT !.superseded[s] = r] \in Index
  BY DEF Index

(* An absent or torn master.json stands for an index, too. *)
LEMMA EmptyIndexTyped == EmptyIndex \in Index
  BY DEF Index, EmptyIndex

(* The types of all variables are preserved by every step. *)
LEMMA TypeStep == ASSUME Inv, [Next]_vars PROVE TypeOK'
<1> USE IndexAssumption DEF Inv, TypeOK, Phase, WritePhase, ConnectPhase,
          WriterAfterFiles
<1>1. CASE UNCHANGED vars
  BY <1>1 DEF vars, files, threads, history
<1>2. ASSUME NEW h \in Handle, Connect(h) PROVE TypeOK'
  BY <1>2 DEF Connect, Goto, files, threads, history
<1>3. ASSUME NEW h \in Handle, Load(h) PROVE TypeOK'
  BY <1>3 DEF Load, Goto, files, threads, history
<1>4. ASSUME NEW h \in Handle, DecideRebuild(h) PROVE TypeOK'
  BY <1>4 DEF DecideRebuild, Goto, files, threads, history
<1>5. ASSUME NEW h \in Handle, RebuildRecord(h) PROVE TypeOK'
  <2> PICK r \in todo[h] :
          /\ IndexRecord(h, r) /\ AddEdge(r)
          /\ todo' = [todo EXCEPT ![h] = @ \ {r}]
    BY <1>5 DEF RebuildRecord
  <2>1. index' \in [Handle -> Index]
    BY IndexUpdates DEF IndexRecord
  <2>2. edges' \in [Rec -> Nat] /\ todo' \in [Handle -> SUBSET Rec]
    BY DEF AddEdge
  <2> QED
    BY <1>5, <2>1, <2>2 DEF RebuildRecord, Goto, files, threads, history
<1>6. ASSUME NEW h \in Handle, Connected(h) PROVE TypeOK'
  BY <1>6 DEF Connected, Goto, files, threads, history
<1>7. ASSUME NEW h \in Handle, BeginWrite(h) PROVE TypeOK'
  BY <1>7 DEF BeginWrite, Goto, files, threads, history
<1>8. ASSUME NEW h \in Handle, Publish(h) PROVE TypeOK'
  BY <1>8 DEF Publish, Goto, files, threads, history
<1>9. ASSUME NEW h \in Handle, Supersede(h) PROVE TypeOK'
  BY <1>9 DEF Supersede, Goto, files, threads, history
<1>10. ASSUME NEW h \in Handle, NotifyMaster(h) PROVE TypeOK'
  <2>1. index' \in [Handle -> Index]
    BY <1>10, IndexUpdates DEF NotifyMaster, IndexRecord
  <2> QED
    BY <1>10, <2>1 DEF NotifyMaster, Goto, files, threads, history
<1>11. ASSUME NEW h \in Handle, NotifyGraph(h) PROVE TypeOK'
  BY <1>11 DEF NotifyGraph, AddEdge, Goto, files, threads, history
<1>12. ASSUME NEW h \in Handle, MarkSuperseded(h) PROVE TypeOK'
  <2>1. index' \in [Handle -> Index]
    <3>1. CASE supersedes[current[h]] = NoRec
      BY <1>12, <3>1 DEF MarkSuperseded
    <3>2. CASE supersedes[current[h]] # NoRec
      <4>1. /\ index[h] \in Index /\ index \in [Handle -> Index]
            /\ current[h] \in Rec /\ supersedes[current[h]] \in Rec
        BY <1>12, <3>2 DEF MarkSuperseded
      <4>2. [index[h] EXCEPT !.superseded[supersedes[current[h]]] = current[h]] \in Index
        BY <4>1, IndexUpdates
      <4> QED
        BY <1>12, <3>2, <4>1, <4>2 DEF MarkSuperseded
    <3> QED
      BY <3>1, <3>2
  <2> QED
    BY <1>12, <2>1 DEF MarkSuperseded, FinishWrite, Goto, files, threads, history
<1>13. ASSUME NEW h \in Handle, NotifyFails(h) PROVE TypeOK'
  BY <1>13 DEF NotifyFails, FinishWrite, Goto, files, threads, history
<1>14. ASSUME NEW h \in Handle, Deprecate(h) PROVE TypeOK'
  BY <1>14 DEF Deprecate, Goto, files, threads, history
<1>15. ASSUME NEW h \in Handle, MarkDeprecated(h) PROVE TypeOK'
  <2>1. index' \in [Handle -> Index]
    BY <1>15, IndexUpdates DEF MarkDeprecated
  <2> QED
    BY <1>15, <2>1 DEF MarkDeprecated, Goto, files, threads, history
<1>16. ASSUME NEW h \in Handle, BeginCheckpoint(h) PROVE TypeOK'
  BY <1>16, EmptyIndexTyped DEF BeginCheckpoint, Goto, files, threads, history
<1>17. ASSUME NEW h \in Handle, WriteMaster(h) PROVE TypeOK'
  BY <1>17, EmptyIndexTyped DEF WriteMaster, Goto, files, threads, history
<1>18. ASSUME NEW h \in Handle, Exit(h) PROVE TypeOK'
  BY <1>18, EmptyIndexTyped DEF Exit, Forget, Goto, files, threads, history
<1>19. ASSUME NEW h \in Handle, Crash(h) PROVE TypeOK'
  BY <1>19, EmptyIndexTyped DEF Crash, Forget, Goto, files, threads, history
<1>20. ASSUME NEW h \in Handle, WriteFails(h) PROVE TypeOK'
  BY <1>20 DEF WriteFails, Goto, files, threads, history
<1> QED
  BY <1>1, <1>2, <1>3, <1>4, <1>5, <1>6, <1>7, <1>8, <1>9, <1>10, <1>11,
     <1>12, <1>13, <1>14, <1>15, <1>16, <1>17, <1>18, <1>19, <1>20 DEF Next

(* Whoever is in a write transaction holds the store lock. *)
LEMMA LockStep == ASSUME Inv, [Next]_vars PROVE LockHeld'
<1> USE IndexAssumption DEF Inv, TypeOK, LockHeld, WritePhase, ConnectPhase,
          Phase
<1>1. CASE UNCHANGED vars
  BY <1>1 DEF vars, files, threads, history
<1>2. ASSUME NEW h \in Handle, Connect(h) PROVE LockHeld'
  BY <1>2 DEF Connect, Goto, files, threads, history
<1>3. ASSUME NEW h \in Handle, Load(h) PROVE LockHeld'
  BY <1>3 DEF Load, Goto, files, threads, history
<1>4. ASSUME NEW h \in Handle, DecideRebuild(h) PROVE LockHeld'
  BY <1>4 DEF DecideRebuild, Goto, files, threads, history
<1>5. ASSUME NEW h \in Handle, RebuildRecord(h) PROVE LockHeld'
  BY <1>5 DEF RebuildRecord, IndexRecord, AddEdge, Goto, files, threads, history
<1>6. ASSUME NEW h \in Handle, Connected(h) PROVE LockHeld'
  BY <1>6 DEF Connected, Goto, files, threads, history
<1>7. ASSUME NEW h \in Handle, BeginWrite(h) PROVE LockHeld'
  BY <1>7 DEF BeginWrite, Goto, files, threads, history
<1>8. ASSUME NEW h \in Handle, Publish(h) PROVE LockHeld'
  BY <1>8 DEF Publish, Goto, files, threads, history
<1>9. ASSUME NEW h \in Handle, Supersede(h) PROVE LockHeld'
  BY <1>9 DEF Supersede, Goto, files, threads, history
<1>10. ASSUME NEW h \in Handle, NotifyMaster(h) PROVE LockHeld'
  BY <1>10 DEF NotifyMaster, IndexRecord, Goto, files, threads, history
<1>11. ASSUME NEW h \in Handle, NotifyGraph(h) PROVE LockHeld'
  BY <1>11 DEF NotifyGraph, AddEdge, Goto, files, threads, history
<1>12. ASSUME NEW h \in Handle, MarkSuperseded(h) PROVE LockHeld'
  BY <1>12 DEF MarkSuperseded, FinishWrite, Goto, files, threads, history
<1>13. ASSUME NEW h \in Handle, NotifyFails(h) PROVE LockHeld'
  BY <1>13 DEF NotifyFails, FinishWrite, Goto, files, threads, history
<1>14. ASSUME NEW h \in Handle, Deprecate(h) PROVE LockHeld'
  BY <1>14 DEF Deprecate, Goto, files, threads, history
<1>15. ASSUME NEW h \in Handle, MarkDeprecated(h) PROVE LockHeld'
  BY <1>15 DEF MarkDeprecated, Goto, files, threads, history
<1>16. ASSUME NEW h \in Handle, BeginCheckpoint(h) PROVE LockHeld'
  BY <1>16 DEF BeginCheckpoint, Goto, files, threads, history
<1>17. ASSUME NEW h \in Handle, WriteMaster(h) PROVE LockHeld'
  BY <1>17 DEF WriteMaster, Goto, files, threads, history
<1>18. ASSUME NEW h \in Handle, Exit(h) PROVE LockHeld'
  BY <1>18 DEF Exit, Forget, Goto, files, threads, history
<1>19. ASSUME NEW h \in Handle, Crash(h) PROVE LockHeld'
  BY <1>19 DEF Crash, Forget, Goto, files, threads, history
<1>20. ASSUME NEW h \in Handle, WriteFails(h) PROVE LockHeld'
  BY <1>20 DEF WriteFails, Goto, files, threads, history
<1> QED
  BY <1>1, <1>2, <1>3, <1>4, <1>5, <1>6, <1>7, <1>8, <1>9, <1>10, <1>11,
     <1>12, <1>13, <1>14, <1>15, <1>16, <1>17, <1>18, <1>19, <1>20 DEF Next

(* The callback goes on running after its files. *)
LEMMA WriterStep == ASSUME Inv, [Next]_vars PROVE WriterAfterFiles'
<1> USE IndexAssumption DEF Inv, TypeOK, Index, LockHeld, WriterAfterFiles,
          WritePhase, ConnectPhase
<1>1. CASE UNCHANGED vars
  BY <1>1 DEF vars, files, threads, history
<1>2. ASSUME NEW h \in Handle, Connect(h) PROVE WriterAfterFiles'
  BY <1>2 DEF Connect, Goto, files, threads, history
<1>3. ASSUME NEW h \in Handle, Load(h) PROVE WriterAfterFiles'
  BY <1>3 DEF Load, Goto, files, threads, history
<1>4. ASSUME NEW h \in Handle, DecideRebuild(h) PROVE WriterAfterFiles'
  BY <1>4 DEF DecideRebuild, Goto, files, threads, history
<1>5. ASSUME NEW h \in Handle, RebuildRecord(h) PROVE WriterAfterFiles'
  BY <1>5 DEF RebuildRecord, IndexRecord, AddEdge, Goto, files, threads, history
<1>6. ASSUME NEW h \in Handle, Connected(h) PROVE WriterAfterFiles'
  BY <1>6 DEF Connected, Goto, files, threads, history
<1>7. ASSUME NEW h \in Handle, BeginWrite(h) PROVE WriterAfterFiles'
  BY <1>7 DEF BeginWrite, Goto, files, threads, history
<1>8. ASSUME NEW h \in Handle, Publish(h) PROVE WriterAfterFiles'
  BY <1>8 DEF Publish, Goto, files, threads, history
<1>9. ASSUME NEW h \in Handle, Supersede(h) PROVE WriterAfterFiles'
  BY <1>9 DEF Supersede, Goto, files, threads, history
<1>10. ASSUME NEW h \in Handle, NotifyMaster(h) PROVE WriterAfterFiles'
  BY <1>10 DEF NotifyMaster, IndexRecord, Goto, files, threads, history
<1>11. ASSUME NEW h \in Handle, NotifyGraph(h) PROVE WriterAfterFiles'
  BY <1>11 DEF NotifyGraph, AddEdge, Goto, files, threads, history
<1>12. ASSUME NEW h \in Handle, MarkSuperseded(h) PROVE WriterAfterFiles'
  BY <1>12 DEF MarkSuperseded, FinishWrite, Goto, files, threads, history
<1>13. ASSUME NEW h \in Handle, NotifyFails(h) PROVE WriterAfterFiles'
  BY <1>13 DEF NotifyFails, FinishWrite, Goto, files, threads, history
<1>14. ASSUME NEW h \in Handle, Deprecate(h) PROVE WriterAfterFiles'
  BY <1>14 DEF Deprecate, Goto, files, threads, history
<1>15. ASSUME NEW h \in Handle, MarkDeprecated(h) PROVE WriterAfterFiles'
  BY <1>15 DEF MarkDeprecated, Goto, files, threads, history
<1>16. ASSUME NEW h \in Handle, BeginCheckpoint(h) PROVE WriterAfterFiles'
  BY <1>16 DEF BeginCheckpoint, Goto, files, threads, history
<1>17. ASSUME NEW h \in Handle, WriteMaster(h) PROVE WriterAfterFiles'
  BY <1>17 DEF WriteMaster, Goto, files, threads, history
<1>18. ASSUME NEW h \in Handle, Exit(h) PROVE WriterAfterFiles'
  BY <1>18 DEF Exit, Forget, Goto, files, threads, history
<1>19. ASSUME NEW h \in Handle, Crash(h) PROVE WriterAfterFiles'
  BY <1>19 DEF Crash, Forget, Goto, files, threads, history
<1>20. ASSUME NEW h \in Handle, WriteFails(h) PROVE WriterAfterFiles'
  BY <1>20 DEF WriteFails, Goto, files, threads, history
<1> QED
  BY <1>1, <1>2, <1>3, <1>4, <1>5, <1>6, <1>7, <1>8, <1>9, <1>10, <1>11,
     <1>12, <1>13, <1>14, <1>15, <1>16, <1>17, <1>18, <1>19, <1>20 DEF Next

(* What is pending stays about files that are there. *)
LEMMA PendingStep == ASSUME Inv, [Next]_vars PROVE Pending'
<1> USE IndexAssumption DEF Inv, TypeOK, Pending, WriterAfterFiles, WritePhase
<1>1. CASE UNCHANGED vars
  BY <1>1 DEF vars, files, threads, history
<1>2. ASSUME NEW h \in Handle, Connect(h) PROVE Pending'
  BY <1>2 DEF Connect, Goto, files, threads, history
<1>3. ASSUME NEW h \in Handle, Load(h) PROVE Pending'
  BY <1>3 DEF Load, Goto, files, threads, history
<1>4. ASSUME NEW h \in Handle, DecideRebuild(h) PROVE Pending'
  BY <1>4 DEF DecideRebuild, Goto, files, threads, history
<1>5. ASSUME NEW h \in Handle, RebuildRecord(h) PROVE Pending'
  BY <1>5 DEF RebuildRecord, IndexRecord, AddEdge, Goto, files, threads, history
<1>6. ASSUME NEW h \in Handle, Connected(h) PROVE Pending'
  BY <1>6 DEF Connected, Goto, files, threads, history
<1>7. ASSUME NEW h \in Handle, BeginWrite(h) PROVE Pending'
  BY <1>7 DEF BeginWrite, Goto, files, threads, history
<1>8. ASSUME NEW h \in Handle, Publish(h) PROVE Pending'
  BY <1>8 DEF Publish, Goto, files, threads, history
<1>9. ASSUME NEW h \in Handle, Supersede(h) PROVE Pending'
  BY <1>9 DEF Supersede, Goto, files, threads, history
<1>10. ASSUME NEW h \in Handle, NotifyMaster(h) PROVE Pending'
  BY <1>10 DEF NotifyMaster, IndexRecord, Goto, files, threads, history
<1>11. ASSUME NEW h \in Handle, NotifyGraph(h) PROVE Pending'
  BY <1>11 DEF NotifyGraph, AddEdge, Goto, files, threads, history
<1>12. ASSUME NEW h \in Handle, MarkSuperseded(h) PROVE Pending'
  BY <1>12 DEF MarkSuperseded, FinishWrite, Goto, files, threads, history
<1>13. ASSUME NEW h \in Handle, NotifyFails(h) PROVE Pending'
  BY <1>13 DEF NotifyFails, FinishWrite, Goto, files, threads, history
<1>14. ASSUME NEW h \in Handle, Deprecate(h) PROVE Pending'
  BY <1>14 DEF Deprecate, Goto, files, threads, history
<1>15. ASSUME NEW h \in Handle, MarkDeprecated(h) PROVE Pending'
  BY <1>15 DEF MarkDeprecated, Goto, files, threads, history
<1>16. ASSUME NEW h \in Handle, BeginCheckpoint(h) PROVE Pending'
  BY <1>16 DEF BeginCheckpoint, Goto, files, threads, history
<1>17. ASSUME NEW h \in Handle, WriteMaster(h) PROVE Pending'
  BY <1>17 DEF WriteMaster, Goto, files, threads, history
<1>18. ASSUME NEW h \in Handle, Exit(h) PROVE Pending'
  BY <1>18 DEF Exit, Forget, Goto, files, threads, history
<1>19. ASSUME NEW h \in Handle, Crash(h) PROVE Pending'
  BY <1>19 DEF Crash, Forget, Goto, files, threads, history
<1>20. ASSUME NEW h \in Handle, WriteFails(h) PROVE Pending'
  BY <1>20 DEF WriteFails, Goto, files, threads, history
<1> QED
  BY <1>1, <1>2, <1>3, <1>4, <1>5, <1>6, <1>7, <1>8, <1>9, <1>10, <1>11,
     <1>12, <1>13, <1>14, <1>15, <1>16, <1>17, <1>18, <1>19, <1>20 DEF Next

(* Until a checkpoint, whoever connects rebuilds. *)
LEMMA RebuildStep == ASSUME Inv, [Next]_vars PROVE (Rebuilding /\ RebuildIsComplete)'
<1> USE IndexAssumption DEF Inv, TypeOK, Index, EmptyIndex, Rebuilding,
          RebuildIsComplete, ConnectFindsAll, WritePhase, ConnectPhase
<1>1. CASE UNCHANGED vars
  BY <1>1 DEF vars, files, threads, history
<1>2. ASSUME NEW h \in Handle, Connect(h) PROVE (Rebuilding /\ RebuildIsComplete)'
  BY <1>2 DEF Connect, Goto, files, threads, history
<1>3. ASSUME NEW h \in Handle, Load(h) PROVE (Rebuilding /\ RebuildIsComplete)'
  BY <1>3 DEF Load, Goto, files, threads, history
<1>4. ASSUME NEW h \in Handle, DecideRebuild(h) PROVE (Rebuilding /\ RebuildIsComplete)'
  BY <1>4 DEF DecideRebuild, Goto, files, threads, history
<1>5. ASSUME NEW h \in Handle, RebuildRecord(h) PROVE (Rebuilding /\ RebuildIsComplete)'
  BY <1>5 DEF RebuildRecord, IndexRecord, AddEdge, Goto, files, threads, history
<1>6. ASSUME NEW h \in Handle, Connected(h) PROVE (Rebuilding /\ RebuildIsComplete)'
  BY <1>6 DEF Connected, Goto, files, threads, history
<1>7. ASSUME NEW h \in Handle, BeginWrite(h) PROVE (Rebuilding /\ RebuildIsComplete)'
  BY <1>7 DEF BeginWrite, Goto, files, threads, history
<1>8. ASSUME NEW h \in Handle, Publish(h) PROVE (Rebuilding /\ RebuildIsComplete)'
  BY <1>8 DEF Publish, Goto, files, threads, history
<1>9. ASSUME NEW h \in Handle, Supersede(h) PROVE (Rebuilding /\ RebuildIsComplete)'
  BY <1>9 DEF Supersede, Goto, files, threads, history
<1>10. ASSUME NEW h \in Handle, NotifyMaster(h) PROVE (Rebuilding /\ RebuildIsComplete)'
  BY <1>10 DEF NotifyMaster, IndexRecord, Goto, files, threads, history
<1>11. ASSUME NEW h \in Handle, NotifyGraph(h) PROVE (Rebuilding /\ RebuildIsComplete)'
  BY <1>11 DEF NotifyGraph, AddEdge, Goto, files, threads, history
<1>12. ASSUME NEW h \in Handle, MarkSuperseded(h) PROVE (Rebuilding /\ RebuildIsComplete)'
  BY <1>12 DEF MarkSuperseded, FinishWrite, Goto, files, threads, history
<1>13. ASSUME NEW h \in Handle, NotifyFails(h) PROVE (Rebuilding /\ RebuildIsComplete)'
  BY <1>13 DEF NotifyFails, FinishWrite, Goto, files, threads, history
<1>14. ASSUME NEW h \in Handle, Deprecate(h) PROVE (Rebuilding /\ RebuildIsComplete)'
  BY <1>14 DEF Deprecate, Goto, files, threads, history
<1>15. ASSUME NEW h \in Handle, MarkDeprecated(h) PROVE (Rebuilding /\ RebuildIsComplete)'
  BY <1>15 DEF MarkDeprecated, Goto, files, threads, history
<1>16. ASSUME NEW h \in Handle, BeginCheckpoint(h) PROVE (Rebuilding /\ RebuildIsComplete)'
  BY <1>16 DEF BeginCheckpoint, Goto, files, threads, history
<1>17. ASSUME NEW h \in Handle, WriteMaster(h) PROVE (Rebuilding /\ RebuildIsComplete)'
  BY <1>17 DEF WriteMaster, Goto, files, threads, history
<1>18. ASSUME NEW h \in Handle, Exit(h) PROVE (Rebuilding /\ RebuildIsComplete)'
  BY <1>18 DEF Exit, Forget, Goto, files, threads, history
<1>19. ASSUME NEW h \in Handle, Crash(h) PROVE (Rebuilding /\ RebuildIsComplete)'
  BY <1>19 DEF Crash, Forget, Goto, files, threads, history
<1>20. ASSUME NEW h \in Handle, WriteFails(h) PROVE (Rebuilding /\ RebuildIsComplete)'
  BY <1>20 DEF WriteFails, Goto, files, threads, history
<1> QED
  BY <1>1, <1>2, <1>3, <1>4, <1>5, <1>6, <1>7, <1>8, <1>9, <1>10, <1>11,
     <1>12, <1>13, <1>14, <1>15, <1>16, <1>17, <1>18, <1>19, <1>20 DEF Next

(* What a handle wrote stays in its index. *)
LEMMA MineStep == ASSUME Inv, [Next]_vars PROVE (NothingMine /\ OwnWritesIndexed)'
<1> USE IndexAssumption DEF Inv, TypeOK, Index, LockHeld, Pending,
          WriterAfterFiles, NothingMine, OwnWritesIndexed, WritePhase,
          ConnectPhase
<1>1. CASE UNCHANGED vars
  BY <1>1 DEF vars, files, threads, history
<1>2. ASSUME NEW h \in Handle, Connect(h) PROVE (NothingMine /\ OwnWritesIndexed)'
  BY <1>2 DEF Connect, Goto, files, threads, history
<1>3. ASSUME NEW h \in Handle, Load(h) PROVE (NothingMine /\ OwnWritesIndexed)'
  BY <1>3 DEF Load, Goto, files, threads, history
<1>4. ASSUME NEW h \in Handle, DecideRebuild(h) PROVE (NothingMine /\ OwnWritesIndexed)'
  BY <1>4 DEF DecideRebuild, Goto, files, threads, history
<1>5. ASSUME NEW h \in Handle, RebuildRecord(h) PROVE (NothingMine /\ OwnWritesIndexed)'
  BY <1>5 DEF RebuildRecord, IndexRecord, AddEdge, Goto, files, threads, history
<1>6. ASSUME NEW h \in Handle, Connected(h) PROVE (NothingMine /\ OwnWritesIndexed)'
  BY <1>6 DEF Connected, Goto, files, threads, history
<1>7. ASSUME NEW h \in Handle, BeginWrite(h) PROVE (NothingMine /\ OwnWritesIndexed)'
  BY <1>7 DEF BeginWrite, Goto, files, threads, history
<1>8. ASSUME NEW h \in Handle, Publish(h) PROVE (NothingMine /\ OwnWritesIndexed)'
  BY <1>8 DEF Publish, Goto, files, threads, history
<1>9. ASSUME NEW h \in Handle, Supersede(h) PROVE (NothingMine /\ OwnWritesIndexed)'
  BY <1>9 DEF Supersede, Goto, files, threads, history
<1>10. ASSUME NEW h \in Handle, NotifyMaster(h) PROVE (NothingMine /\ OwnWritesIndexed)'
  BY <1>10 DEF NotifyMaster, IndexRecord, Goto, files, threads, history
<1>11. ASSUME NEW h \in Handle, NotifyGraph(h) PROVE (NothingMine /\ OwnWritesIndexed)'
  BY <1>11 DEF NotifyGraph, AddEdge, Goto, files, threads, history
<1>12. ASSUME NEW h \in Handle, MarkSuperseded(h) PROVE (NothingMine /\ OwnWritesIndexed)'
  BY <1>12 DEF MarkSuperseded, FinishWrite, Goto, files, threads, history
<1>13. ASSUME NEW h \in Handle, NotifyFails(h) PROVE (NothingMine /\ OwnWritesIndexed)'
  BY <1>13 DEF NotifyFails, FinishWrite, Goto, files, threads, history
<1>14. ASSUME NEW h \in Handle, Deprecate(h) PROVE (NothingMine /\ OwnWritesIndexed)'
  BY <1>14 DEF Deprecate, Goto, files, threads, history
<1>15. ASSUME NEW h \in Handle, MarkDeprecated(h) PROVE (NothingMine /\ OwnWritesIndexed)'
  BY <1>15 DEF MarkDeprecated, Goto, files, threads, history
<1>16. ASSUME NEW h \in Handle, BeginCheckpoint(h) PROVE (NothingMine /\ OwnWritesIndexed)'
  BY <1>16 DEF BeginCheckpoint, Goto, files, threads, history
<1>17. ASSUME NEW h \in Handle, WriteMaster(h) PROVE (NothingMine /\ OwnWritesIndexed)'
  BY <1>17 DEF WriteMaster, Goto, files, threads, history
<1>18. ASSUME NEW h \in Handle, Exit(h) PROVE (NothingMine /\ OwnWritesIndexed)'
  BY <1>18 DEF Exit, Forget, Goto, files, threads, history
<1>19. ASSUME NEW h \in Handle, Crash(h) PROVE (NothingMine /\ OwnWritesIndexed)'
  BY <1>19 DEF Crash, Forget, Goto, files, threads, history
<1>20. ASSUME NEW h \in Handle, WriteFails(h) PROVE (NothingMine /\ OwnWritesIndexed)'
  BY <1>20 DEF WriteFails, Goto, files, threads, history
<1> QED
  BY <1>1, <1>2, <1>3, <1>4, <1>5, <1>6, <1>7, <1>8, <1>9, <1>10, <1>11,
     <1>12, <1>13, <1>14, <1>15, <1>16, <1>17, <1>18, <1>19, <1>20 DEF Next

(* No index gets ahead of the store. *)
LEMMA AheadStep == ASSUME Inv, [Next]_vars PROVE IndexNeverAhead'
<1> USE IndexAssumption DEF Inv, TypeOK, Index, EmptyIndex, Pending,
          WriterAfterFiles, IndexNeverAhead, NeverAhead, WritePhase,
          ConnectPhase
<1>1. CASE UNCHANGED vars
  BY <1>1 DEF vars, files, threads, history
<1>2. ASSUME NEW h \in Handle, Connect(h) PROVE IndexNeverAhead'
  BY <1>2 DEF Connect, Goto, files, threads, history
<1>3. ASSUME NEW h \in Handle, Load(h) PROVE IndexNeverAhead'
  BY <1>3 DEF Load, Goto, files, threads, history
<1>4. ASSUME NEW h \in Handle, DecideRebuild(h) PROVE IndexNeverAhead'
  BY <1>4 DEF DecideRebuild, Goto, files, threads, history
<1>5. ASSUME NEW h \in Handle, RebuildRecord(h) PROVE IndexNeverAhead'
  BY <1>5 DEF RebuildRecord, IndexRecord, AddEdge, Goto, files, threads, history
<1>6. ASSUME NEW h \in Handle, Connected(h) PROVE IndexNeverAhead'
  BY <1>6 DEF Connected, Goto, files, threads, history
<1>7. ASSUME NEW h \in Handle, BeginWrite(h) PROVE IndexNeverAhead'
  BY <1>7 DEF BeginWrite, Goto, files, threads, history
<1>8. ASSUME NEW h \in Handle, Publish(h) PROVE IndexNeverAhead'
  BY <1>8 DEF Publish, Goto, files, threads, history
<1>9. ASSUME NEW h \in Handle, Supersede(h) PROVE IndexNeverAhead'
  BY <1>9 DEF Supersede, Goto, files, threads, history
<1>10. ASSUME NEW h \in Handle, NotifyMaster(h) PROVE IndexNeverAhead'
  BY <1>10 DEF NotifyMaster, IndexRecord, Goto, files, threads, history
<1>11. ASSUME NEW h \in Handle, NotifyGraph(h) PROVE IndexNeverAhead'
  BY <1>11 DEF NotifyGraph, AddEdge, Goto, files, threads, history
<1>12. ASSUME NEW h \in Handle, MarkSuperseded(h) PROVE IndexNeverAhead'
  BY <1>12 DEF MarkSuperseded, FinishWrite, Goto, files, threads, history
<1>13. ASSUME NEW h \in Handle, NotifyFails(h) PROVE IndexNeverAhead'
  BY <1>13 DEF NotifyFails, FinishWrite, Goto, files, threads, history
<1>14. ASSUME NEW h \in Handle, Deprecate(h) PROVE IndexNeverAhead'
  BY <1>14 DEF Deprecate, Goto, files, threads, history
<1>15. ASSUME NEW h \in Handle, MarkDeprecated(h) PROVE IndexNeverAhead'
  BY <1>15 DEF MarkDeprecated, Goto, files, threads, history
<1>16. ASSUME NEW h \in Handle, BeginCheckpoint(h) PROVE IndexNeverAhead'
  BY <1>16 DEF BeginCheckpoint, Goto, files, threads, history
<1>17. ASSUME NEW h \in Handle, WriteMaster(h) PROVE IndexNeverAhead'
  BY <1>17 DEF WriteMaster, Goto, files, threads, history
<1>18. ASSUME NEW h \in Handle, Exit(h) PROVE IndexNeverAhead'
  BY <1>18 DEF Exit, Forget, Goto, files, threads, history
<1>19. ASSUME NEW h \in Handle, Crash(h) PROVE IndexNeverAhead'
  BY <1>19 DEF Crash, Forget, Goto, files, threads, history
<1>20. ASSUME NEW h \in Handle, WriteFails(h) PROVE IndexNeverAhead'
  BY <1>20 DEF WriteFails, Goto, files, threads, history
<1> QED
  BY <1>1, <1>2, <1>3, <1>4, <1>5, <1>6, <1>7, <1>8, <1>9, <1>10, <1>11,
     <1>12, <1>13, <1>14, <1>15, <1>16, <1>17, <1>18, <1>19, <1>20 DEF Next

-----------------------------------------------------------------------------

(* The invariant holds in every reachable state. *)
THEOREM IndexInvariance == Spec => []Inv
<1>1. Inv /\ [Next]_vars => Inv'
  BY TypeStep, LockStep, WriterStep, PendingStep, RebuildStep, MineStep, AheadStep DEF Inv
<1> QED
  BY InitInv, <1>1, PTL DEF Spec

(* The type invariant holds in every reachable state. *)
THEOREM IndexTypes == Spec => []TypeOK
  BY IndexInvariance, PTL DEF Inv

(* No index, in memory or saved, names what the store does not hold. *)
THEOREM NeverAheadOfStore == Spec => []IndexNeverAhead
  BY IndexInvariance, PTL DEF Inv

(* A handle's index holds what the handle wrote, with the supersessions. *)
THEOREM ReadYourWrites == Spec => []OwnWritesIndexed
  BY IndexInvariance, PTL DEF Inv

(* As long as nobody checkpoints, a restart loses nothing of the index. *)
THEOREM RestartWithoutCheckpoint == Spec => []RebuildIsComplete
  BY IndexInvariance, PTL DEF Inv

=============================================================================
