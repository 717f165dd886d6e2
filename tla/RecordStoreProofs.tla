-------------------------- MODULE RecordStoreProofs --------------------------
(***************************************************************************)
(* Proofs about RecordStore for any number of handles, identifiers,        *)
(* contents, writes and faults, with compaction and torn appends allowed.  *)
(*                                                                         *)
(* The argument: whoever writes or replays holds the store lock            *)
(* (LockHeld), so what a writer has established about the record of its    *)
(* transaction (WriterKnows) stays true until it is done with it; every    *)
(* frame, wherever it is kept, is of a logged transaction (FramesLogged);  *)
(* and a record file is created only from such a frame.                    *)
(***************************************************************************)
EXTENDS RecordStore, FiniteSetTheorems, TLAPS

Busy == WritePhase \cup RecoverPhase

LockHeld == \A h \in Handle : phase[h] \in Busy <=> lock = h

InTransaction ==
    \A h \in Handle : phase[h] \in WritePhase \cup {"recommit"} => entry[h] \in Entry

WriterKnows ==
    \A h \in Handle :
        /\ phase[h] \in {"log", "publish"} => records[entry[h].id] = NoContent
        /\ phase[h] \in {"commit", "readCount", "writeCount"}
              => records[entry[h].id] = entry[h].content
        /\ phase[h] = "recommit" => records[entry[h].id] # NoContent
        /\ phase[h] \in Busy \ {"log", "recover"} => entry[h] \in logged

FramesLogged ==
    /\ pending \subseteq logged
    /\ \A h \in Handle : todo[h] \subseteq logged

Inv ==
    /\ TypeOK
    /\ LockHeld
    /\ InTransaction
    /\ WriterKnows
    /\ FramesLogged
    /\ LoggedFirst
    /\ CommittedPublished
    /\ AckedReadable

-----------------------------------------------------------------------------

(* Creating a record leaves every record that is there as it is: the       *)
(* native atomic_write_new_file never overwrites.                          *)
LEMMA CreateNewKeeps ==
    ASSUME TypeOK, NEW e \in Entry, CreateNew(e)
    PROVE  /\ records' \in [Id -> Content \cup {NoContent}]
           /\ records'[e.id] # NoContent
           /\ records[e.id] = NoContent => records'[e.id] = e.content
           /\ \A i \in Id : records[i] # NoContent => records'[i] = records[i]
           /\ \A i \in Id : records'[i] # records[i] => i = e.id
  BY ConstantAssumption DEF TypeOK, CreateNew, Entry

(* The initial state satisfies the invariant. *)
LEMMA InitInv == Init => Inv
<1> SUFFICES ASSUME Init PROVE Inv
  OBVIOUS
<1>1. TypeOK
  BY DEF Init, TypeOK, Phase
<1>2. LockHeld /\ InTransaction /\ WriterKnows
  BY ConstantAssumption
  DEF Init, LockHeld, InTransaction, WriterKnows, Busy, WritePhase, RecoverPhase
<1>3. FramesLogged /\ LoggedFirst /\ CommittedPublished /\ AckedReadable
  BY DEF Init, FramesLogged, LoggedFirst, CommittedPublished, AckedReadable, Present
<1> QED
  BY <1>1, <1>2, <1>3 DEF Inv

(* The types of all variables are preserved by every step. *)
LEMMA TypeStep ==
    ASSUME Inv, [Next]_vars
    PROVE  TypeOK'
<1> USE DEF Inv, TypeOK
<1>1. CASE UNCHANGED vars
  BY <1>1 DEF vars, wal, local, history
<1>2. ASSUME NEW h \in Handle, NEW i \in Id, NEW c \in Content, BeginWrite(h, i, c)
      PROVE  TypeOK'
  BY <1>2 DEF BeginWrite, Goto, Phase, WritePhase, Entry, wal
<1>3. ASSUME NEW h \in Handle, LogPending(h)
      PROVE  TypeOK'
  BY <1>3 DEF LogPending, AppendPending, Goto, Phase, WritePhase, InTransaction
<1>4. ASSUME NEW h \in Handle, PublishRecord(h)
      PROVE  TypeOK'
  <2>1. entry[h] \in Entry
    BY <1>4 DEF PublishRecord, InTransaction, WritePhase
  <2>2. records' \in [Id -> Content \cup {NoContent}]
    BY <1>4, <2>1, CreateNewKeeps DEF PublishRecord
  <2> QED
    BY <1>4, <2>2 DEF PublishRecord, Goto, Phase, WritePhase, wal, history
<1>5. ASSUME NEW h \in Handle, LogCommit(h)
      PROVE  TypeOK'
  BY <1>5 DEF LogCommit, AppendCommitted, Goto, Phase, WritePhase, InTransaction, history
<1>6. ASSUME NEW h \in Handle, ReadCount(h)
      PROVE  TypeOK'
  BY <1>6 DEF ReadCount, Goto, Phase, WritePhase, wal, history
<1>7. ASSUME NEW h \in Handle, WriteCount(h)
      PROVE  TypeOK'
  BY <1>7 DEF WriteCount, Goto, Phase, WritePhase, InTransaction, wal
<1>8. ASSUME NEW h \in Handle, ReplayRecord(h)
      PROVE  TypeOK'
  <2> PICK e \in todo[h] : CreateNew(e) /\ entry' = [entry EXCEPT ![h] = e]
    BY <1>8 DEF ReplayRecord
  <2>1. e \in Entry
    OBVIOUS
  <2>2. records' \in [Id -> Content \cup {NoContent}]
    BY <2>1, CreateNewKeeps
  <2> QED
    BY <1>8, <2>1, <2>2 DEF ReplayRecord, Goto, Phase, RecoverPhase, wal, history
<1>9. ASSUME NEW h \in Handle, ReplayCommit(h)
      PROVE  TypeOK'
  BY <1>9 DEF ReplayCommit, AppendCommitted, Goto, Phase, RecoverPhase, InTransaction, history
<1>10. ASSUME NEW h \in Handle, Open(h) \/ EndRecovery(h) \/ Close(h) \/ ScanWal(h)
       PROVE  TypeOK'
  BY <1>10 DEF Open, EndRecovery, Close, ScanWal, Uncommitted, Goto, Phase, RecoverPhase,
               CompactPhase, wal, history
<1>11. ASSUME NEW h \in Handle, TruncateWal(h) \/ RewriteWal(h)
       PROVE  TypeOK'
  BY <1>11 DEF TruncateWal, RewriteWal, Goto, Phase, CompactPhase, wal, history
<1>12. ASSUME NEW h \in Handle, Crash(h) \/ RaiseError(h)
       PROVE  TypeOK'
  <2>1. PICK p \in {"closed", "idle"} : Abandon(h, p)
    BY <1>12 DEF Crash, RaiseError
  <2>2. phase' \in [Handle -> Phase] /\ faults' \in Nat
    BY <2>1 DEF Abandon, Goto, Phase
  <2>4. torn' \in BOOLEAN
    BY <2>1, Zenon DEF Abandon, MayTear
  <2>3. /\ entry' \in [Handle -> Entry \cup {NoEntry}]
        /\ todo' \in [Handle -> SUBSET Entry]
        /\ countRead' \in [Handle -> Nat]
    BY <2>1 DEF Abandon
  <2> QED
    BY <2>1, <2>2, <2>3, <2>4 DEF Abandon, MayTear
<1>13. ASSUME NEW h \in Handle, SkipEntry(h)
       PROVE  TypeOK'
  <2>1. phase' \in [Handle -> Phase] /\ faults' \in Nat
    BY <1>13 DEF SkipEntry, Goto, Phase, RecoverPhase
  <2>3. torn' \in BOOLEAN
    BY <1>13, Zenon DEF SkipEntry, MayTear
  <2>2. /\ entry' \in [Handle -> Entry \cup {NoEntry}]
        /\ todo' \in [Handle -> SUBSET Entry]
    BY <1>13 DEF SkipEntry
  <2> QED
    BY <1>13, <2>1, <2>2, <2>3 DEF SkipEntry, MayTear
<1> QED
  BY <1>1, <1>2, <1>3, <1>4, <1>5, <1>6, <1>7, <1>8, <1>9, <1>10, <1>11, <1>12, <1>13
  DEF Next, Step

(* The store lock is with the handle that writes or replays. *)
LEMMA LockStep ==
    ASSUME Inv, [Next]_vars
    PROVE  LockHeld'
<1> USE ConstantAssumption
    DEF LockHeld, Busy, WritePhase, RecoverPhase, CompactPhase, Goto
<1>1. TypeOK /\ LockHeld
  BY DEF Inv
<1>2. CASE UNCHANGED vars
  BY <1>1, <1>2 DEF vars, local
<1>3. ASSUME NEW h \in Handle, Step(h) \/ Open(h) \/ Close(h) \/ ScanWal(h)
      PROVE  LockHeld'
  <2>1. CASE LogPending(h) \/ PublishRecord(h) \/ LogCommit(h) \/ ReadCount(h) \/ WriteCount(h)
    BY <1>1, <2>1 DEF TypeOK, LogPending, PublishRecord, LogCommit, ReadCount, WriteCount
  <2>2. CASE ReplayRecord(h) \/ ReplayCommit(h) \/ EndRecovery(h) \/ Open(h)
    BY <1>1, <2>2 DEF TypeOK, ReplayRecord, ReplayCommit, EndRecovery, Open
  <2>3. CASE TruncateWal(h) \/ RewriteWal(h)
    BY <1>1, <2>3 DEF TypeOK, TruncateWal, RewriteWal
  <2>4. CASE ScanWal(h) \/ Close(h)
    BY <1>1, <2>4 DEF TypeOK, ScanWal, Close
  <2> QED
    BY <1>3, <2>1, <2>2, <2>3, <2>4 DEF Step
<1>4. ASSUME NEW h \in Handle, Crash(h) \/ RaiseError(h)
      PROVE  LockHeld'
  BY <1>1, <1>4 DEF TypeOK, Crash, RaiseError, Abandon
<1>5. ASSUME NEW h \in Handle, SkipEntry(h)
      PROVE  LockHeld'
  BY <1>1, <1>5 DEF TypeOK, SkipEntry
<1>6. ASSUME NEW h \in Handle, NEW i \in Id, NEW c \in Content, BeginWrite(h, i, c)
      PROVE  LockHeld'
  BY <1>1, <1>6 DEF TypeOK, BeginWrite
<1> QED
  BY <1>2, <1>3, <1>4, <1>5, <1>6 DEF Next

(* A handle in a write or a replay knows its transaction. *)
LEMMA EntryStep ==
    ASSUME Inv, [Next]_vars
    PROVE  InTransaction'
<1> USE DEF InTransaction, WritePhase, RecoverPhase, CompactPhase, Goto
<1>1. TypeOK /\ InTransaction
  BY DEF Inv
<1>2. CASE UNCHANGED vars
  BY <1>1, <1>2 DEF vars, local
<1>3. ASSUME NEW h \in Handle, Step(h) \/ Open(h) \/ Close(h) \/ ScanWal(h)
      PROVE  InTransaction'
  <2>1. CASE LogPending(h) \/ PublishRecord(h) \/ LogCommit(h) \/ ReadCount(h) \/ WriteCount(h)
    BY <1>1, <2>1 DEF TypeOK, LogPending, PublishRecord, LogCommit, ReadCount, WriteCount
  <2>2. CASE ReplayRecord(h)
    BY <1>1, <2>2 DEF TypeOK, ReplayRecord
  <2>3. CASE ReplayCommit(h) \/ EndRecovery(h) \/ Open(h)
    BY <1>1, <2>3 DEF TypeOK, ReplayCommit, EndRecovery, Open
  <2>4. CASE TruncateWal(h) \/ RewriteWal(h)
    BY <1>1, <2>4 DEF TypeOK, TruncateWal, RewriteWal
  <2>5. CASE ScanWal(h) \/ Close(h)
    BY <1>1, <2>5 DEF TypeOK, ScanWal, Close
  <2> QED
    BY <1>3, <2>1, <2>2, <2>3, <2>4, <2>5 DEF Step
<1>4. ASSUME NEW h \in Handle, Crash(h) \/ RaiseError(h) \/ SkipEntry(h)
      PROVE  InTransaction'
  BY <1>1, <1>4 DEF TypeOK, Crash, RaiseError, Abandon, SkipEntry
<1>5. ASSUME NEW h \in Handle, NEW i \in Id, NEW c \in Content, BeginWrite(h, i, c)
      PROVE  InTransaction'
  BY <1>1, <1>5 DEF TypeOK, BeginWrite, Entry
<1> QED
  BY <1>2, <1>3, <1>4, <1>5 DEF Next

(* Only a publishing or a replaying handle touches a record file, and only *)
(* to create it: the one way the other invariants may be disturbed.        *)
LEMMA RecordsStep ==
    ASSUME Inv, [Next]_vars
    PROVE  /\ \A i \in Id : records[i] # NoContent => records'[i] = records[i]
           /\ records' # records =>
                 \E h \in Handle, e \in logged :
                     /\ \/ PublishRecord(h) /\ e = entry[h]
                        \/ ReplayRecord(h) /\ e \in todo[h]
                     /\ records[e.id] = NoContent
                     /\ CreateNew(e)
<1>1. TypeOK /\ InTransaction /\ FramesLogged /\ WriterKnows
  BY DEF Inv
<1>2. CASE records' = records
  BY <1>2
<1>3. ASSUME NEW h \in Handle, PublishRecord(h), records' # records
      PROVE  /\ entry[h] \in logged
             /\ CreateNew(entry[h])
             /\ records[entry[h].id] = NoContent
  BY <1>1, <1>3 DEF PublishRecord, CreateNew, WriterKnows, Busy, WritePhase
<1>4. ASSUME NEW h \in Handle, ReplayRecord(h), records' # records
      PROVE  \E e \in logged : e \in todo[h] /\ CreateNew(e) /\ records[e.id] = NoContent
  BY <1>1, <1>4 DEF ReplayRecord, CreateNew, FramesLogged
<1>5. CASE \E h \in Handle : PublishRecord(h) \/ ReplayRecord(h)
  <2>1. \A e \in logged : CreateNew(e) =>
            \A i \in Id : records[i] # NoContent => records'[i] = records[i]
    BY <1>1, CreateNewKeeps DEF TypeOK
  <2> QED
    BY <1>2, <1>3, <1>4, <1>5, <2>1
<1>6. CASE /\ [Next]_vars
           /\ ~ \E h \in Handle : PublishRecord(h) \/ ReplayRecord(h)
  <2>1. records' = records
    BY <1>6 DEF Next, Step, vars, LogPending, LogCommit, ReadCount, WriteCount, ReplayCommit,
       EndRecovery, TruncateWal, RewriteWal, Open, Close, ScanWal, Crash, RaiseError, Abandon,
       SkipEntry, BeginWrite
  <2> QED
    BY <2>1
<1> QED
  BY <1>5, <1>6

(* Every frame in the log and in a handle's hands is of a logged           *)
(* transaction, and logged transactions are never forgotten.               *)
LEMMA FramesStep ==
    ASSUME Inv, [Next]_vars
    PROVE  FramesLogged' /\ logged \subseteq logged'
<1> USE DEF FramesLogged
<1>1. TypeOK /\ FramesLogged
  BY DEF Inv
<1>2. CASE UNCHANGED vars
  BY <1>1, <1>2 DEF vars, wal, local, history
<1>3. ASSUME NEW h \in Handle, Step(h) \/ Open(h) \/ Close(h) \/ ScanWal(h)
      PROVE  FramesLogged' /\ logged \subseteq logged'
  <2>1. CASE LogPending(h)
    BY <1>1, <2>1 DEF TypeOK, LogPending, AppendPending
  <2>2. CASE PublishRecord(h) \/ ReadCount(h) \/ ReplayRecord(h) \/ EndRecovery(h) \/ Close(h)
    BY <1>1, <2>2 DEF PublishRecord, ReadCount, ReplayRecord, EndRecovery, Close, wal, history
  <2>3. CASE LogCommit(h) \/ WriteCount(h)
    BY <1>1, <2>3 DEF LogCommit, WriteCount, AppendCommitted, wal, history
  <2>4. CASE ReplayCommit(h)
    BY <1>1, <2>4 DEF TypeOK, ReplayCommit, AppendCommitted, history
  <2>5. CASE Open(h) \/ ScanWal(h)
    BY <1>1, <2>5 DEF TypeOK, Open, ScanWal, Uncommitted, wal, history
  <2>6. CASE TruncateWal(h)
    BY <1>1, <2>6 DEF TypeOK, TruncateWal, history
  <2>7. CASE RewriteWal(h)
    BY <1>1, <2>7 DEF TypeOK, RewriteWal, wal, history
  <2> QED
    BY <1>3, <2>1, <2>2, <2>3, <2>4, <2>5, <2>6, <2>7 DEF Step
<1>4. ASSUME NEW h \in Handle, Crash(h) \/ RaiseError(h)
      PROVE  FramesLogged' /\ logged \subseteq logged'
  BY <1>1, <1>4 DEF TypeOK, Crash, RaiseError, Abandon, MayTear
<1>5. ASSUME NEW h \in Handle, SkipEntry(h)
      PROVE  FramesLogged' /\ logged \subseteq logged'
  BY <1>1, <1>5 DEF TypeOK, SkipEntry, MayTear
<1>6. ASSUME NEW h \in Handle, NEW i \in Id, NEW c \in Content, BeginWrite(h, i, c)
      PROVE  FramesLogged' /\ logged \subseteq logged'
  BY <1>1, <1>6 DEF TypeOK, BeginWrite, wal
<1> QED
  BY <1>2, <1>3, <1>4, <1>5, <1>6 DEF Next

(* A record file is created from a logged transaction and never changes.   *)
LEMMA LoggedFirstStep ==
    ASSUME Inv, [Next]_vars
    PROVE  LoggedFirst'
<1>1. TypeOK /\ LoggedFirst
  BY DEF Inv
<1>2. TypeOK'
  BY TypeStep
<1>3. logged \subseteq logged'
  BY FramesStep
<1>4. SUFFICES ASSUME NEW i \in Id, records'[i] # NoContent
               PROVE  \E e \in logged : e.id = i /\ e.content = records'[i]
  BY <1>3 DEF LoggedFirst, Present
<1>5. CASE records[i] # NoContent
  BY <1>1, <1>5, RecordsStep DEF LoggedFirst, Present
<1>6. CASE records[i] = NoContent
  <2>1. PICK h \in Handle, e \in logged : records[e.id] = NoContent /\ CreateNew(e)
    BY <1>4, <1>6, RecordsStep
  <2>2. e \in Entry
    BY <1>1, <2>1 DEF TypeOK
  <2>3. e.id = i /\ records'[i] = e.content
    BY <1>1, <1>4, <1>6, <2>1, <2>2, CreateNewKeeps
  <2> QED
    BY <2>3
<1> QED
  BY <1>5, <1>6

(* A transaction is committed only by the handle that has its record in    *)
(* place.                                                                  *)
LEMMA CommittedStep ==
    ASSUME Inv, [Next]_vars
    PROVE  CommittedPublished'
<1>1. TypeOK /\ CommittedPublished /\ WriterKnows /\ InTransaction
  BY DEF Inv
<1>2. \A i \in Id : records[i] # NoContent => records'[i] = records[i]
  BY RecordsStep
<1>3. \A e \in committed' : e \in committed \/ records[e.id] # NoContent
  <2>1. CASE UNCHANGED vars
    BY <2>1 DEF vars, wal
  <2>2. ASSUME NEW h \in Handle, LogCommit(h) \/ ReplayCommit(h)
        PROVE  \A e \in committed' : e \in committed \/ records[e.id] # NoContent
    <3>1. records[entry[h].id] # NoContent
      BY <1>1, <2>2, ConstantAssumption
      DEF LogCommit, ReplayCommit, TypeOK, WriterKnows, InTransaction, Entry, WritePhase
    <3> QED
      BY <2>2, <3>1 DEF LogCommit, ReplayCommit, AppendCommitted
  <2>3. ASSUME NEW h \in Handle, ~LogCommit(h), ~ReplayCommit(h),
               \/ Step(h) \/ Open(h) \/ Close(h) \/ ScanWal(h)
               \/ Crash(h) \/ RaiseError(h) \/ SkipEntry(h)
               \/ \E i \in Id, c \in Content : BeginWrite(h, i, c)
        PROVE  committed' \subseteq committed
    BY <2>3 DEF Step, LogPending, AppendPending, PublishRecord, ReadCount, WriteCount,
       ReplayRecord, EndRecovery, Open, Close, ScanWal, TruncateWal, RewriteWal, Crash,
       RaiseError, Abandon, MayTear, SkipEntry, BeginWrite, wal
  <2> QED
    BY <2>1, <2>2, <2>3 DEF Next
<1> QED
  BY <1>1, <1>2, <1>3, TypeStep DEF TypeOK, CommittedPublished, Entry

(* write() returns only after the caller's own content is in place. *)
LEMMA AckedStep ==
    ASSUME Inv, [Next]_vars
    PROVE  AckedReadable'
<1>1. TypeOK /\ AckedReadable /\ WriterKnows /\ InTransaction
  BY DEF Inv
<1>2. \A i \in Id : records[i] # NoContent => records'[i] = records[i]
  BY RecordsStep
<1>3. \A e \in acked' : e \in acked \/ (e \in Entry /\ records[e.id] = e.content)
  <2>1. CASE UNCHANGED vars
    BY <2>1 DEF vars, history
  <2>2. ASSUME NEW h \in Handle, WriteCount(h)
        PROVE  \A e \in acked' : e \in acked \/ (e \in Entry /\ records[e.id] = e.content)
    BY <1>1, <2>2 DEF WriteCount, WriterKnows, InTransaction, WritePhase
  <2>3. ASSUME NEW h \in Handle, ~WriteCount(h),
               \/ Step(h) \/ Open(h) \/ Close(h) \/ ScanWal(h)
               \/ Crash(h) \/ RaiseError(h) \/ SkipEntry(h)
               \/ \E i \in Id, c \in Content : BeginWrite(h, i, c)
        PROVE  acked' = acked
    BY <2>3 DEF Step, LogPending, PublishRecord, LogCommit, ReadCount, ReplayRecord,
       ReplayCommit, EndRecovery, Open, Close, ScanWal, TruncateWal, RewriteWal, Crash,
       RaiseError, Abandon, SkipEntry, BeginWrite, history
  <2> QED
    BY <2>1, <2>2, <2>3 DEF Next
<1>4. \A e \in Entry : e.id \in Id /\ e.content # NoContent
  BY ConstantAssumption DEF Entry
<1> QED
  BY <1>1, <1>2, <1>3, <1>4 DEF TypeOK, AckedReadable

(* What a writer knows about its record stays true while other handles     *)
(* work: they cannot publish, since they do not hold the lock.             *)
LEMMA WriterStep ==
    ASSUME Inv, [Next]_vars
    PROVE  WriterKnows'
<1>1. TypeOK /\ LockHeld /\ InTransaction /\ WriterKnows /\ FramesLogged
  BY DEF Inv
<1>2. /\ \A i \in Id : records[i] # NoContent => records'[i] = records[i]
      /\ logged \subseteq logged'
  BY RecordsStep, FramesStep
<1>3. \A e \in Entry : e.id \in Id /\ e.content # NoContent
  BY ConstantAssumption DEF Entry
<1>4. TypeOK'
  BY TypeStep
<1> DEFINE Knows(g) ==
      /\ phase[g] \in {"log", "publish"} => records[entry[g].id] = NoContent
      /\ phase[g] \in {"commit", "readCount", "writeCount"}
            => records[entry[g].id] = entry[g].content
      /\ phase[g] = "recommit" => records[entry[g].id] # NoContent
      /\ phase[g] \in Busy \ {"log", "recover"} => entry[g] \in logged
<1>5. SUFFICES ASSUME NEW g \in Handle
               PROVE  Knows(g)'
  BY DEF WriterKnows
<1>6. Knows(g)
  BY <1>1 DEF WriterKnows
(* Steps of other handles. *)
<1>7. ASSUME phase'[g] = phase[g], entry'[g] = entry[g],
             phase[g] \in {"log", "publish"} => records' = records
      PROVE  Knows(g)'
  <2>1. CASE phase[g] \in {"log", "publish"}
    BY <1>2, <1>6, <1>7, <2>1 DEF Busy
  <2>2. CASE phase[g] \in {"commit", "readCount", "writeCount", "recommit"}
    <3>1. entry[g] \in Entry
      BY <1>1, <2>2 DEF InTransaction, WritePhase
    <3> QED
      BY <1>2, <1>3, <1>6, <1>7, <2>2, <3>1
  <2>3. CASE phase[g] \notin Busy \ {"recover"}
    BY <1>7, <2>3 DEF Busy, WritePhase, RecoverPhase
  <2>4. CASE phase[g] = "recover"
    BY <1>7, <2>4
  <2> QED
    BY <2>1, <2>2, <2>3, <2>4 DEF Busy, WritePhase, RecoverPhase
<1>8. ASSUME NEW h \in Handle, h # g, phase[g] \in {"log", "publish"}, records' # records
      PROVE  ~ (PublishRecord(h) \/ ReplayRecord(h))
  BY <1>1, <1>8 DEF LockHeld, Busy, WritePhase, RecoverPhase, PublishRecord, ReplayRecord
<1>9. ASSUME NEW h \in Handle, h # g,
             \/ Step(h) \/ Open(h) \/ Close(h) \/ ScanWal(h)
             \/ Crash(h) \/ RaiseError(h) \/ SkipEntry(h)
             \/ \E i \in Id, c \in Content : BeginWrite(h, i, c)
      PROVE  Knows(g)'
  <2>1. phase'[g] = phase[g] /\ entry'[g] = entry[g]
    BY <1>1, <1>9 DEF TypeOK, Goto, Step, LogPending, PublishRecord, LogCommit, ReadCount,
       WriteCount, ReplayRecord, ReplayCommit, EndRecovery, TruncateWal, RewriteWal, Open,
       Close, ScanWal, Crash, RaiseError, Abandon, SkipEntry, BeginWrite
  <2>2. PublishRecord(h) \/ ReplayRecord(h) \/ records' = records
    BY <1>9 DEF Step, LogPending, LogCommit, ReadCount, WriteCount, ReplayCommit,
       EndRecovery, TruncateWal, RewriteWal, Open, Close, ScanWal, Crash, RaiseError,
       Abandon, SkipEntry, BeginWrite
  <2> QED
    BY <1>7, <1>8, <1>9, <2>1, <2>2
(* The handle's own steps. *)
<1>10. CASE PublishRecord(g)
  <2>1. entry[g] \in Entry /\ CreateNew(entry[g]) /\ phase'[g] = "commit" /\ entry' = entry
    BY <1>1, <1>10 DEF TypeOK, PublishRecord, InTransaction, WritePhase, Goto
  <2>2. records'[entry[g].id] = entry[g].content
    BY <1>1, <1>6, <1>10, <2>1, CreateNewKeeps DEF PublishRecord
  <2> QED
    BY <1>2, <1>6, <1>10, <2>1, <2>2 DEF PublishRecord, Busy, WritePhase
<1>11. CASE ReplayRecord(g)
  <2>1. PICK e \in todo[g] : CreateNew(e) /\ entry' = [entry EXCEPT ![g] = e]
    BY <1>11 DEF ReplayRecord
  <2>2. e \in Entry /\ e \in logged /\ entry'[g] = e
    BY <1>1, <2>1 DEF TypeOK, FramesLogged
  <2>3. records'[e.id] # NoContent
    BY <1>1, <2>1, <2>2, CreateNewKeeps
  <2>4. phase'[g] = "recommit"
    BY <1>1, <1>11 DEF TypeOK, ReplayRecord, Goto
  <2> QED
    BY <1>2, <2>2, <2>3, <2>4
<1>12. CASE LogPending(g)
  BY <1>1, <1>6, <1>12 DEF TypeOK, LogPending, Goto
<1>13. CASE LogCommit(g) \/ ReadCount(g)
  BY <1>1, <1>6, <1>13 DEF TypeOK, LogCommit, ReadCount, Goto, Busy, WritePhase, history
<1>14. CASE \E i \in Id, c \in Content : BeginWrite(g, i, c)
  BY <1>1, <1>14 DEF TypeOK, BeginWrite, Goto, Busy
<1>15. CASE \/ WriteCount(g) \/ ReplayCommit(g) \/ EndRecovery(g) \/ TruncateWal(g)
            \/ RewriteWal(g) \/ Open(g) \/ Close(g) \/ ScanWal(g)
            \/ Crash(g) \/ RaiseError(g) \/ SkipEntry(g)
  <2>1. phase'[g] \in {"idle", "closed", "recover", "truncate", "rewrite"}
    BY <1>1, <1>15 DEF TypeOK, WriteCount, ReplayCommit, EndRecovery, TruncateWal, RewriteWal,
       Open, Close, ScanWal, Crash, RaiseError, Abandon, SkipEntry, Goto
  <2> QED
    BY <2>1 DEF Busy, WritePhase, RecoverPhase
<1>16. CASE UNCHANGED vars
  BY <1>6, <1>16 DEF vars, local, history
<1> QED
  BY <1>9, <1>10, <1>11, <1>12, <1>13, <1>14, <1>15, <1>16 DEF Next, Step

-----------------------------------------------------------------------------

(* The invariant holds in every reachable state. *)
THEOREM Invariance == Spec => []Inv
<1>1. Inv /\ [Next]_vars => Inv'
  BY TypeStep, LockStep, EntryStep, WriterStep, FramesStep, LoggedFirstStep, CommittedStep,
     AckedStep DEF Inv
<1> QED
  BY <1>1, InitInv, PTL DEF Spec

(* Types: every variable holds what its declaration says. *)
THEOREM TypeCorrect == Spec => []TypeOK
<1>1. Inv => TypeOK
  BY DEF Inv
<1> QED
  BY <1>1, Invariance, PTL

(* No replay, crash, I/O error, torn append or compaction takes back a     *)
(* write that has returned (PhysicalStore.write).                          *)
THEOREM Durability == Spec => []AckedReadable
<1>1. Inv => AckedReadable
  BY DEF Inv
<1> QED
  BY <1>1, Invariance, PTL

(* The write-ahead rule of wal.py: a record file holds what a transaction  *)
(* logged before.                                                          *)
THEOREM WriteAhead == Spec => []LoggedFirst
<1>1. Inv => LoggedFirst
  BY DEF Inv
<1> QED
  BY <1>1, Invariance, PTL

(* Recovery never skips a transaction whose record is missing because of a *)
(* COMMITTED frame.                                                        *)
THEOREM CommitsAreSound == Spec => []CommittedPublished
<1>1. Inv => CommittedPublished
  BY DEF Inv
<1> QED
  BY <1>1, Invariance, PTL

(* The store lock: writes and replays of all handles exclude one another.  *)
THEOREM MutualExclusion == Spec => []OneTransaction
<1>1. Inv => OneTransaction
  BY ConstantAssumption DEF Inv, LockHeld, OneTransaction, Busy
<1> QED
  BY <1>1, Invariance, PTL

(* No step changes or removes a published record file.                     *)
THEOREM Immutability == Spec => RecordsImmutable
<1>1. Inv /\ [Next]_vars =>
          [\A i \in Id : records[i] # NoContent => records'[i] = records[i]]_vars
  BY RecordsStep
<1> QED
  BY <1>1, Invariance, PTL DEF Spec, RecordsImmutable

-----------------------------------------------------------------------------
(* Recoverability, where neither compaction nor torn lines lose frames.    *)

(* The log then keeps the PENDING frame of every logged transaction. *)
WholeLog ==
    /\ torn = FALSE
    /\ logged \subseteq pending
    /\ \A h \in Handle : phase[h] \notin CompactPhase

(* Without compaction and torn appends every transaction whose PENDING     *)
(* append returned is published or will be found by the next recovery.     *)
THEOREM Recoverability ==
    ASSUME Checkpoints = FALSE, TornAppends = FALSE
    PROVE  Spec => []LoggedRecoverable
<1>1. Init => WholeLog
  BY DEF Init, WholeLog, CompactPhase
<1>2. ASSUME TypeOK, WholeLog, [Next]_vars
      PROVE  WholeLog'
  <2> USE <1>2 DEF WholeLog, CompactPhase, Goto
  <2>1. CASE UNCHANGED vars
    BY <2>1 DEF vars, wal, local, history
  <2>2. ASSUME NEW h \in Handle, LogPending(h)
        PROVE  WholeLog'
    BY <2>2 DEF TypeOK, LogPending, AppendPending
  <2>3. ASSUME NEW h \in Handle,
               PublishRecord(h) \/ LogCommit(h) \/ ReadCount(h) \/ WriteCount(h)
        PROVE  WholeLog'
    BY <2>3 DEF TypeOK, PublishRecord, LogCommit, ReadCount, WriteCount, AppendCommitted,
       wal, history
  <2>4. ASSUME NEW h \in Handle,
               ReplayRecord(h) \/ ReplayCommit(h) \/ EndRecovery(h) \/ Open(h) \/ Close(h)
        PROVE  WholeLog'
    BY <2>4 DEF TypeOK, ReplayRecord, ReplayCommit, EndRecovery, Open, Close,
       AppendCommitted, wal, history
  <2>5. ASSUME NEW h \in Handle, Crash(h) \/ RaiseError(h) \/ SkipEntry(h)
        PROVE  WholeLog'
    BY <2>5 DEF TypeOK, Crash, RaiseError, SkipEntry, Abandon, MayTear
  <2>6. ASSUME NEW h \in Handle, NEW i \in Id, NEW c \in Content, BeginWrite(h, i, c)
        PROVE  WholeLog'
    BY <2>6 DEF TypeOK, BeginWrite, wal
  <2>7. ASSUME NEW h \in Handle
        PROVE  ~ (ScanWal(h) \/ TruncateWal(h) \/ RewriteWal(h))
    BY DEF ScanWal, TruncateWal, RewriteWal
  <2> QED
    BY <2>1, <2>2, <2>3, <2>4, <2>5, <2>6, <2>7 DEF Next, Step
<1>3. Inv => TypeOK
  BY DEF Inv
<1>4. Inv /\ WholeLog => LoggedRecoverable
  BY DEF Inv, TypeOK, CommittedPublished, WholeLog, LoggedRecoverable, Uncommitted
<1> QED
  BY <1>1, <1>2, <1>3, <1>4, Invariance, PTL DEF Spec

-----------------------------------------------------------------------------
(* The count of store.json and the quota.                                  *)

Published == {"commit", "readCount", "writeCount"}

(* The record of a writer that has published is there but not counted yet, *)
(* and what it read of the count is the count; room for a record that a    *)
(* writer is about to publish was there when it took the lock, and nobody  *)
(* else has published since.                                               *)
Counting ==
    /\ IsFiniteSet(Present) /\ IsFiniteSet(acked)
    /\ CountBetween
    /\ \A h \in Handle :
          /\ phase[h] \in Published => recordCount < Cardinality(Present)
          /\ phase[h] = "writeCount" => countRead[h] = recordCount

Rooming ==
    MaxRecords > 0 => \A h \in Handle :
        /\ phase[h] \in {"log", "publish"} => Cardinality(Present) < MaxRecords
        /\ phase[h] \in Published => Cardinality(Present) <= MaxRecords

CountInv == Counting /\ Rooming /\ AckedWithinQuota

LEMMA CountInit == Init => CountInv
<1> SUFFICES ASSUME Init PROVE CountInv
  OBVIOUS
<1>1. Present = {} /\ acked = {} /\ recordCount = 0
  BY DEF Init, Present
<1>2. \A h \in Handle : phase[h] = "closed"
  BY DEF Init
<1>3. /\ IsFiniteSet(Present) /\ Cardinality(Present) = 0
      /\ IsFiniteSet(acked) /\ Cardinality(acked) = 0
  BY <1>1, FS_EmptySet
<1> QED
  BY <1>1, <1>2, <1>3, ConstantAssumption
  DEF CountInv, Counting, Rooming, CountBetween, AckedWithinQuota, Published

(* A step that leaves records, count and returned writes alone, and takes  *)
(* every writer out of its write if it does not leave it where it was.     *)
LEMMA CountStutter ==
    ASSUME CountInv, UNCHANGED <<records, recordCount, acked>>,
           \A g \in Handle : \/ phase'[g] = phase[g] /\ countRead'[g] = countRead[g]
                            \/ phase'[g] \notin WritePhase
    PROVE  CountInv'
<1>1. Present' = Present
  BY DEF Present
<1> QED
  BY <1>1 DEF CountInv, Counting, Rooming, CountBetween, AckedWithinQuota, Published, WritePhase

(* A record that was not there is one more. *)
LEMMA OneMorePresent ==
    ASSUME TypeOK, IsFiniteSet(Present), NEW e \in Entry, records[e.id] = NoContent, CreateNew(e)
    PROVE  /\ IsFiniteSet(Present)' /\ Cardinality(Present) \in Nat
           /\ Cardinality(Present)' = Cardinality(Present) + 1
<1>1. e.id \in Id /\ e.id \notin Present
  BY DEF Entry, Present
<1>2. Present' = Present \cup {e.id}
  BY <1>1, CreateNewKeeps DEF Present
<1> QED
  BY <1>1, <1>2, FS_AddElement, FS_CardinalityType

LEMMA CountStep ==
    ASSUME Inv, CountInv, [Next]_vars
    PROVE  CountInv'
<1>1. /\ TypeOK /\ LockHeld /\ InTransaction /\ WriterKnows
      /\ IsFiniteSet(Present) /\ IsFiniteSet(acked)
      /\ Cardinality(Present) \in Nat /\ Cardinality(acked) \in Nat
      /\ recordCount \in Nat /\ MaxRecords \in Nat
  BY FS_CardinalityType, ConstantAssumption DEF Inv, TypeOK, CountInv, Counting
<1>2. ASSUME NEW h \in Handle, lock = h, NEW g \in Handle, g # h
      PROVE  phase[g] \notin Busy
  BY <1>1, <1>2 DEF LockHeld
<1>3. CASE UNCHANGED vars
  BY <1>3, CountStutter DEF vars, local, history
<1>4. ASSUME NEW h \in Handle, NEW i \in Id, NEW c \in Content, BeginWrite(h, i, c)
      PROVE  CountInv'
  <2>1. /\ Present' = Present /\ recordCount' = recordCount /\ acked' = acked
        /\ phase' = [phase EXCEPT ![h] = "log"] /\ countRead' = countRead
    BY <1>4 DEF BeginWrite, Goto, Present
  <2>2. MaxRecords > 0 => Cardinality(Present) < MaxRecords
    BY <1>1, <1>4 DEF BeginWrite, Fits
  <2>3. \A g \in Handle : phase'[g] = IF g = h THEN "log" ELSE phase[g]
    BY <1>1, <2>1 DEF TypeOK
  <2> QED
    BY <2>1, <2>2, <2>3
    DEF CountInv, Counting, Rooming, CountBetween, AckedWithinQuota, Published
<1>5. ASSUME NEW h \in Handle, LogPending(h) PROVE CountInv'
  <2>1. /\ Present' = Present /\ recordCount' = recordCount /\ acked' = acked
        /\ phase' = [phase EXCEPT ![h] = "publish"] /\ countRead' = countRead
        /\ phase[h] = "log"
    BY <1>5 DEF LogPending, Goto, Present
  <2>2. \A g \in Handle : phase'[g] = IF g = h THEN "publish" ELSE phase[g]
    BY <1>1, <2>1 DEF TypeOK
  <2> QED
    BY <2>1, <2>2
    DEF CountInv, Counting, Rooming, CountBetween, AckedWithinQuota, Published
<1>6. ASSUME NEW h \in Handle, PublishRecord(h) PROVE CountInv'
  <2>1. /\ recordCount' = recordCount /\ acked' = acked /\ countRead' = countRead
        /\ phase' = [phase EXCEPT ![h] = "commit"] /\ phase[h] = "publish"
        /\ CreateNew(entry[h])
    BY <1>6 DEF PublishRecord, Goto, history
  <2>2. entry[h] \in Entry /\ records[entry[h].id] = NoContent
    BY <1>1, <2>1 DEF InTransaction, WriterKnows, WritePhase
  <2>3. IsFiniteSet(Present)' /\ Cardinality(Present)' = Cardinality(Present) + 1
    BY <1>1, <2>1, <2>2, OneMorePresent
  <2>4. lock = h
    BY <1>1, <2>1 DEF LockHeld, Busy, WritePhase
  <2>5. \A g \in Handle : g = h \/ phase'[g] \notin WritePhase
    BY <1>1, <1>2, <2>1, <2>4 DEF TypeOK, Busy
  <2>6. phase'[h] = "commit"
    BY <1>1, <2>1 DEF TypeOK
  <2>7. Cardinality(acked) <= recordCount /\ recordCount <= Cardinality(Present)
    BY DEF CountInv, Counting, CountBetween
  <2>8. Counting'
    BY <1>1, <2>1, <2>3, <2>5, <2>6, <2>7 DEF Counting, CountBetween, Published, WritePhase
  <2>9. MaxRecords > 0 => Cardinality(Present) < MaxRecords
    BY <2>1 DEF CountInv, Rooming
  <2>10. Rooming'
    BY <1>1, <2>3, <2>5, <2>6, <2>9 DEF Rooming, Published, WritePhase
  <2> QED
    BY <2>1, <2>8, <2>10 DEF CountInv, AckedWithinQuota
<1>7. ASSUME NEW h \in Handle, LogCommit(h) \/ ReadCount(h) PROVE CountInv'
  <2>1. /\ Present' = Present /\ recordCount' = recordCount /\ acked' = acked
        /\ phase[h] \in Published
        /\ phase' = [phase EXCEPT ![h] = IF LogCommit(h) THEN "readCount" ELSE "writeCount"]
        /\ countRead' = IF LogCommit(h) THEN countRead
                        ELSE [countRead EXCEPT ![h] = recordCount]
    BY <1>7 DEF LogCommit, ReadCount, Goto, Present, Published, history
  <2>2. ASSUME NEW g \in Handle
        PROVE  /\ phase'[g] \in Published <=> phase[g] \in Published
               /\ phase'[g] \in {"log", "publish"} => phase[g] \in {"log", "publish"}
               /\ phase'[g] = "writeCount" =>
                     \/ phase[g] = "writeCount" /\ countRead'[g] = countRead[g]
                     \/ countRead'[g] = recordCount
    BY <1>1, <2>1 DEF TypeOK, Published
  <2> QED
    BY <2>1, <2>2
    DEF CountInv, Counting, Rooming, CountBetween, AckedWithinQuota
<1>8. ASSUME NEW h \in Handle, WriteCount(h) PROVE CountInv'
  <2>1. /\ Present' = Present /\ recordCount' = countRead[h] + 1
        /\ acked' = acked \cup {entry[h]} /\ phase[h] = "writeCount"
        /\ phase' = [phase EXCEPT ![h] = "idle"]
    BY <1>8 DEF WriteCount, Goto, Present
  <2>2. lock = h
    BY <1>1, <2>1 DEF LockHeld, Busy, WritePhase
  <2>3. \A g \in Handle : phase'[g] \notin WritePhase
    BY <1>1, <1>2, <2>1, <2>2 DEF TypeOK, Busy, WritePhase
  <2>4. IsFiniteSet(acked') /\ Cardinality(acked') <= Cardinality(acked) + 1
        /\ Cardinality(acked') \in Nat
    BY <1>1, <2>1, FS_AddElement, FS_CardinalityType
  <2>5. /\ countRead[h] = recordCount /\ recordCount < Cardinality(Present)
        /\ Cardinality(acked) <= recordCount
    BY <2>1 DEF CountInv, Counting, CountBetween, Published
  <2>6. Cardinality(acked') <= recordCount' /\ recordCount' <= Cardinality(Present)
    BY <1>1, <2>1, <2>4, <2>5
  <2>7. Counting' /\ Rooming'
    BY <1>1, <2>1, <2>3, <2>4, <2>6 DEF Counting, CountBetween, Rooming, Published, WritePhase
  <2>8. MaxRecords > 0 => Cardinality(Present) <= MaxRecords
    BY <2>1 DEF CountInv, Rooming, Published
  <2>9. recordCount' \in Nat
    BY <1>1, <2>1, <2>5
  <2> QED
    BY <1>1, <2>4, <2>6, <2>7, <2>8, <2>9 DEF CountInv, AckedWithinQuota
<1>9. ASSUME NEW h \in Handle, ReplayRecord(h) PROVE CountInv'
  <2>1. /\ recordCount' = recordCount /\ acked' = acked
        /\ phase' = [phase EXCEPT ![h] = "recommit"] /\ phase[h] = "recover"
    BY <1>9 DEF ReplayRecord, Goto, history
  <2>2. lock = h
    BY <1>1, <2>1 DEF LockHeld, Busy, RecoverPhase
  <2>3. \A g \in Handle : phase'[g] \notin WritePhase
    BY <1>1, <1>2, <2>1, <2>2 DEF TypeOK, Busy, WritePhase
  <2>4. CASE records' = records
    BY <2>1, <2>3, <2>4, CountStutter
  <2>5. CASE records' # records
    <3>1. PICK e \in todo[h] : CreateNew(e)
      BY <1>9 DEF ReplayRecord
    <3>2. e \in Entry /\ records[e.id] = NoContent
      BY <1>1, <2>5, <3>1 DEF TypeOK, CreateNew
    <3>3. IsFiniteSet(Present)' /\ Cardinality(Present)' = Cardinality(Present) + 1
      BY <1>1, <3>1, <3>2, OneMorePresent
    <3>4. Cardinality(acked) <= recordCount /\ recordCount <= Cardinality(Present)
      BY DEF CountInv, Counting, CountBetween
    <3>5. Counting' /\ Rooming'
      BY <1>1, <2>1, <2>3, <3>3, <3>4 DEF Counting, CountBetween, Rooming, Published, WritePhase
    <3> QED
      BY <2>1, <3>5 DEF CountInv, AckedWithinQuota
  <2> QED
    BY <2>4, <2>5
<1>10. ASSUME NEW h \in Handle,
              \/ ReplayCommit(h) \/ EndRecovery(h) \/ TruncateWal(h) \/ RewriteWal(h)
              \/ Open(h) \/ Close(h) \/ ScanWal(h)
              \/ Crash(h) \/ RaiseError(h) \/ SkipEntry(h)
       PROVE  CountInv'
  <2>1. /\ UNCHANGED <<records, recordCount, acked>>
        /\ \E p \in {"recover", "idle", "rewrite", "closed", "truncate"} : Goto(h, p)
        /\ \/ countRead' = countRead \/ countRead' = [countRead EXCEPT ![h] = 0]
    BY <1>10 DEF ReplayCommit, EndRecovery, TruncateWal, RewriteWal, Open, Close, ScanWal,
       Crash, RaiseError, SkipEntry, Abandon, history
  <2>2. \A g \in Handle : \/ phase'[g] = phase[g] /\ countRead'[g] = countRead[g]
                          \/ phase'[g] \notin WritePhase
    BY <1>1, <2>1 DEF TypeOK, Goto, WritePhase
  <2> QED
    BY <2>1, <2>2, CountStutter
<1> QED
  BY <1>3, <1>4, <1>5, <1>6, <1>7, <1>8, <1>9, <1>10 DEF Next, Step

LEMMA CountInvariance == Spec => []CountInv
  BY CountInit, CountStep, Invariance, PTL DEF Spec

(* store.json never counts a record that is not there and never misses a   *)
(* write that returned, whatever crashes, raises or is replayed between    *)
(* reading the count and writing it back (PhysicalStore.write).            *)
THEOREM CountsAreSound == Spec => []CountBetween
<1>1. CountInv => CountBetween
  BY DEF CountInv, Counting
<1> QED
  BY <1>1, CountInvariance, PTL

(* Handles that write and replay at once never let more writes return than *)
(* the quota has room for (_check_write_limits).                           *)
THEOREM QuotaHeld == Spec => []AckedWithinQuota
<1>1. CountInv => AckedWithinQuota
  BY DEF CountInv
<1> QED
  BY <1>1, CountInvariance, PTL

-----------------------------------------------------------------------------
(* Refinement.                                                             *)

(* Only the end of a write returns to a caller.                            *)
LEMMA ReturnStep ==
    ASSUME [Next]_vars, acked' # acked
    PROVE  \E h \in Handle : WriteCount(h)
<1>1. ~ UNCHANGED vars
  BY DEF vars, history
<1>2. ASSUME NEW h \in Handle, ~WriteCount(h),
             \/ Step(h) \/ Open(h) \/ Close(h) \/ ScanWal(h)
             \/ Crash(h) \/ RaiseError(h) \/ SkipEntry(h)
             \/ \E i \in Id, c \in Content : BeginWrite(h, i, c)
      PROVE  FALSE
  BY <1>2 DEF Step, LogPending, PublishRecord, LogCommit, ReadCount, ReplayRecord,
     ReplayCommit, EndRecovery, Open, Close, ScanWal, TruncateWal, RewriteWal, Crash,
     RaiseError, Abandon, SkipEntry, BeginWrite, history
<1> QED
  BY <1>1, <1>2 DEF Next

(* RecordStore keeps the promise of AppendOnlyStore: publishing is the one *)
(* step that makes a record readable, returning the one that acknowledges  *)
(* it, and everything else -- log, counts, replays, compaction, faults --  *)
(* is invisible.                                                           *)
THEOREM Implementation == Spec => ImplementsPromise
<1>1. Init => Promise!StoreInit
  BY DEF Init, Promise!StoreInit
<1>2. ASSUME Inv, Inv', [Next]_vars
      PROVE  [Promise!StoreNext]_(Promise!storeVars)
  <2> DEFINE Returned(S) == {<<e.id, e.content>> : e \in S}
  <2>1. TypeOK /\ InTransaction /\ WriterKnows
    BY <1>2 DEF Inv
  <2>2. ASSUME NEW e \in Entry, CreateNew(e), records[e.id] = NoContent, acked' = acked
        PROVE  Promise!Publish(e.id, e.content)
    BY <2>2 DEF Promise!Publish, CreateNew
  <2>3. ASSUME NEW h \in Handle, PublishRecord(h)
        PROVE  entry[h] \in Entry /\ CreateNew(entry[h]) /\ acked' = acked
    BY <2>1, <2>3 DEF PublishRecord, InTransaction, WritePhase, history
  <2>4. ASSUME NEW h \in Handle, NEW e \in todo[h], ReplayRecord(h)
        PROVE  e \in Entry /\ acked' = acked
    BY <2>1, <2>4 DEF TypeOK, ReplayRecord, history
  <2>5. ASSUME NEW h \in Handle, WriteCount(h)
        PROVE  Promise!Acknowledge(entry[h].id, entry[h].content) /\ entry[h] \in Entry
    <3>1. entry[h] \in Entry /\ records[entry[h].id] = entry[h].content
      BY <2>1, <2>5 DEF WriteCount, InTransaction, WriterKnows, WritePhase
    <3>2. acked' = acked \cup {entry[h]} /\ records' = records
      BY <2>5 DEF WriteCount
    <3>3. Returned(acked') = Returned(acked) \cup {<<entry[h].id, entry[h].content>>}
      BY <3>2
    <3> QED
      BY <3>1, <3>2, <3>3 DEF Promise!Acknowledge
  <2>6. CASE records' # records
    <3>1. PICK h \in Handle, e \in logged :
                /\ \/ PublishRecord(h) /\ e = entry[h]
                   \/ ReplayRecord(h) /\ e \in todo[h]
                /\ records[e.id] = NoContent
                /\ CreateNew(e)
      BY <1>2, <2>6, RecordsStep
    <3>2. e \in Entry /\ acked' = acked
      BY <2>1, <2>3, <2>4, <3>1
    <3> QED
      BY <2>2, <3>1, <3>2 DEF Promise!StoreNext, Entry
  <2>7. CASE records' = records
    <3>1. CASE acked' = acked
      BY <2>7, <3>1 DEF Promise!storeVars
    <3>2. CASE acked' # acked
      <4>1. PICK h \in Handle : WriteCount(h)
        BY <1>2, <3>2, ReturnStep
      <4>2. /\ entry[h].id \in Id
            /\ entry[h].content \in Content
            /\ Promise!Acknowledge(entry[h].id, entry[h].content)
        BY <2>5, <4>1 DEF Entry
      <4>3. Promise!StoreNext
        BY <4>2 DEF Promise!StoreNext, Promise!Acknowledge
      <4> QED
        BY <4>3
    <3> QED
      BY <3>1, <3>2
  <2> QED
    BY <2>6, <2>7
<1> QED
  BY <1>1, <1>2, Invariance, PTL DEF Spec, ImplementsPromise, Promise!StoreSpec

=============================================================================
