------------------------- MODULE VersionStoreProofs -------------------------
(***************************************************************************)
(* Proofs about VersionStore for any number of handles, versions,          *)
(* deprecations and faults.                                                *)
(*                                                                         *)
(* The argument: whoever is in a call that writes holds the store lock     *)
(* (LockHeld).  A walk climbs in version numbers (WalkSound), so it cannot *)
(* come back to a version it has seen and ends at one without a sidecar;   *)
(* hence the base of an accepted compare-and-set has no successor until    *)
(* its sidecar is written (BaseSound), while the base of every update that *)
(* returned has one (AckedLinked).                                         *)
(***************************************************************************)
EXTENDS VersionStore, TLAPS

Writing == {"log", "publish", "supersede", "return"}
Busy    == {"walk"} \cup Writing

LockHeld == \A h \in Handle : phase[h] \in Busy <=> lock = h

Quiet ==
    \A h \in Handle : phase[h] \in {"idle", "closed"} =>
        base[h] = NoVersion /\ new[h] = NoVersion /\ seen[h] = {}

WalkSound ==
    \A h \in Handle : phase[h] = "walk" =>
        /\ call[h] \in {"cas", "current"}
        /\ cursor[h] \in Present
        /\ base[h] = NoVersion /\ new[h] = NoVersion
        /\ \A v \in seen[h] : number[v] < number[cursor[h]]

BaseSound ==
    \A h \in Handle : phase[h] \in Writing =>
        /\ base[h] \in Present \cup {NoVersion}
        /\ phase[h] = "log" => new[h] = NoVersion
        /\ phase[h] = "supersede" => base[h] # NoVersion
        /\ call[h] = "cas" => base[h] # NoVersion
        /\ call[h] = "cas" /\ phase[h] # "return" => sidecar[base[h]] = NoVersion

NewSound ==
    \A h \in Handle : phase[h] \in {"publish", "supersede", "return"} =>
        /\ new[h] \in Version \ acked
        /\ status[new[h]] = IF phase[h] = "publish" THEN "logged" ELSE "present"
        /\ parent[new[h]] = base[h]
        /\ base[h] # NoVersion => number[new[h]] = number[base[h]] + 1
        /\ new[h] \in byCas <=> call[h] = "cas"

ReturnSound ==
    \A h \in Handle : phase[h] = "return" /\ base[h] # NoVersion =>
        /\ sidecar[base[h]] = new[h]
        /\ call[h] = "cas" =>
              \A v \in acked \cap byCas : parent[v] # base[h]

HistorySound ==
    /\ acked \subseteq Present
    /\ \A v \in byCas : status[v] # "free" /\ parent[v] # NoVersion

AckedLinked ==
    \A v \in acked : parent[v] # NoVersion => sidecar[parent[v]] # NoVersion

Inv ==
    /\ TypeOK
    /\ LockHeld /\ Quiet
    /\ WalkSound /\ BaseSound /\ NewSound /\ ReturnSound
    /\ HistorySound /\ AckedLinked
    /\ LinksSound /\ AckedCasExclusive /\ AckedStaysLinked

-----------------------------------------------------------------------------

(* The initial state satisfies the invariant. *)
LEMMA InitInv == Init => Inv
<1> SUFFICES ASSUME Init PROVE Inv
  OBVIOUS
<1> USE VersionAssumption DEF Init
<1>1. TypeOK
  BY DEF TypeOK, Status, Call, Phase
<1>2. LockHeld /\ Quiet /\ WalkSound /\ BaseSound /\ NewSound /\ ReturnSound
  BY DEF LockHeld, Quiet, WalkSound, BaseSound, NewSound, ReturnSound, Busy, Writing
<1>3. HistorySound /\ AckedLinked /\ LinksSound /\ AckedCasExclusive /\ AckedStaysLinked
  BY DEF HistorySound, AckedLinked, LinksSound, AckedCasExclusive, AckedStaysLinked
<1> QED
  BY <1>1, <1>2, <1>3 DEF Inv

(* The types of all variables are preserved by every step. *)
LEMMA TypeStep == ASSUME Inv, [Next]_vars PROVE TypeOK'
<1> USE VersionAssumption DEF TypeOK, Inv, Status, Call, Phase, WalkSound,
          BaseSound, NewSound, Writing, Present
<1>1. CASE UNCHANGED vars
  BY <1>1 DEF vars, files, walk, local, history
<1>2. ASSUME NEW h \in Handle, Follow(h) PROVE TypeOK'
  BY <1>2 DEF Follow, Goto, files, walk, local, history
<1>3. ASSUME NEW h \in Handle, ReturnCurrent(h) PROVE TypeOK'
  BY <1>3 DEF ReturnCurrent, Leave, ForgetCall, Goto, files, walk, local, history
<1>4. ASSUME NEW h \in Handle, RefuseCas(h) PROVE TypeOK'
  BY <1>4 DEF RefuseCas, Leave, ForgetCall, Goto, files, walk, local, history
<1>5. ASSUME NEW h \in Handle, AcceptCas(h) PROVE TypeOK'
  BY <1>5 DEF AcceptCas, Goto, files, walk, local, history
<1>6. ASSUME NEW h \in Handle, Log(h) PROVE TypeOK'
  BY <1>6 DEF Log, Goto, files, walk, local, history
<1>7. ASSUME NEW h \in Handle, Publish(h) PROVE TypeOK'
  BY <1>7 DEF Publish, Goto, files, walk, local, history
<1>8. ASSUME NEW h \in Handle, Supersede(h) PROVE TypeOK'
  BY <1>8 DEF Supersede, Goto, files, walk, local, history
<1>9. ASSUME NEW h \in Handle, Return(h) PROVE TypeOK'
  BY <1>9 DEF Return, Leave, ForgetCall, Goto, files, walk, local, history
<1>10. ASSUME NEW h \in Handle, NEW v \in Version, NEW c \in {"current", "cas"}, BeginWalk(h, c, v)
       PROVE  TypeOK'
  BY <1>10 DEF BeginWalk, Enter, Goto, files, walk, local, history
<1>11. ASSUME NEW h \in Handle, BeginWrite(h) PROVE TypeOK'
  BY <1>11 DEF BeginWrite, Enter, Goto, files, walk, local, history
<1>12. ASSUME NEW h \in Handle, NEW v \in Version, BeginUpdate(h, v) PROVE TypeOK'
  BY <1>12 DEF BeginUpdate, Enter, Goto, files, walk, local, history
<1>13. ASSUME NEW h \in Handle, Open(h) PROVE TypeOK'
  BY <1>13 DEF Open, Goto, files, walk, local, history
<1>14. ASSUME NEW h \in Handle, Close(h) PROVE TypeOK'
  BY <1>14 DEF Close, Goto, files, walk, local, history
<1>15. ASSUME NEW h \in Handle, Crash(h) PROVE TypeOK'
  BY <1>15 DEF Crash, Abandon, ForgetCall, Goto, files, walk, local, history
<1>16. ASSUME NEW h \in Handle, RaiseError(h) PROVE TypeOK'
  BY <1>16 DEF RaiseError, Abandon, ForgetCall, Goto, files, walk, local, history
<1>17. ASSUME NEW h \in Handle, NEW v \in Version, Get(h, v) PROVE TypeOK'
  BY <1>17 DEF Get, Goto, files, walk, local, history
<1>18. ASSUME NEW h \in Handle, NEW v \in Version, Deprecate(h, v) PROVE TypeOK'
  BY <1>18 DEF Deprecate, Goto, files, walk, local, history
<1> QED
  BY <1>1, <1>2, <1>3, <1>4, <1>5, <1>6, <1>7, <1>8, <1>9,
     <1>10, <1>11, <1>12, <1>13, <1>14, <1>15, <1>16, <1>17, <1>18 DEF Next, Step, Begin

(* Only the handle in a call holds the lock, and between calls a handle    *)
(* keeps nothing. *)
LEMMA LockStep == ASSUME Inv, [Next]_vars PROVE (LockHeld /\ Quiet)'
<1> USE VersionAssumption DEF Inv, TypeOK, LockHeld, Quiet, Busy, Writing
<1>1. CASE UNCHANGED vars
  BY <1>1 DEF vars, files, walk, local, history
<1>2. ASSUME NEW h \in Handle, Follow(h) PROVE (LockHeld /\ Quiet)'
  BY <1>2 DEF Follow, Goto, files, walk, local, history
<1>3. ASSUME NEW h \in Handle, ReturnCurrent(h) PROVE (LockHeld /\ Quiet)'
  BY <1>3 DEF ReturnCurrent, Leave, ForgetCall, Goto, files, walk, local, history
<1>4. ASSUME NEW h \in Handle, RefuseCas(h) PROVE (LockHeld /\ Quiet)'
  BY <1>4 DEF RefuseCas, Leave, ForgetCall, Goto, files, walk, local, history
<1>5. ASSUME NEW h \in Handle, AcceptCas(h) PROVE (LockHeld /\ Quiet)'
  BY <1>5 DEF AcceptCas, Goto, files, walk, local, history
<1>6. ASSUME NEW h \in Handle, Log(h) PROVE (LockHeld /\ Quiet)'
  BY <1>6 DEF Log, Goto, files, walk, local, history
<1>7. ASSUME NEW h \in Handle, Publish(h) PROVE (LockHeld /\ Quiet)'
  BY <1>7 DEF Publish, Goto, files, walk, local, history
<1>8. ASSUME NEW h \in Handle, Supersede(h) PROVE (LockHeld /\ Quiet)'
  BY <1>8 DEF Supersede, Goto, files, walk, local, history
<1>9. ASSUME NEW h \in Handle, Return(h) PROVE (LockHeld /\ Quiet)'
  BY <1>9 DEF Return, Leave, ForgetCall, Goto, files, walk, local, history
<1>10. ASSUME NEW h \in Handle, NEW v \in Version, NEW c \in {"current", "cas"}, BeginWalk(h, c, v)
       PROVE  (LockHeld /\ Quiet)'
  BY <1>10 DEF BeginWalk, Enter, Goto, files, walk, local, history
<1>11. ASSUME NEW h \in Handle, BeginWrite(h) PROVE (LockHeld /\ Quiet)'
  BY <1>11 DEF BeginWrite, Enter, Goto, files, walk, local, history
<1>12. ASSUME NEW h \in Handle, NEW v \in Version, BeginUpdate(h, v) PROVE (LockHeld /\ Quiet)'
  BY <1>12 DEF BeginUpdate, Enter, Goto, files, walk, local, history
<1>13. ASSUME NEW h \in Handle, Open(h) PROVE (LockHeld /\ Quiet)'
  BY <1>13 DEF Open, Goto, files, walk, local, history
<1>14. ASSUME NEW h \in Handle, Close(h) PROVE (LockHeld /\ Quiet)'
  BY <1>14 DEF Close, Goto, files, walk, local, history
<1>15. ASSUME NEW h \in Handle, Crash(h) PROVE (LockHeld /\ Quiet)'
  BY <1>15 DEF Crash, Abandon, ForgetCall, Goto, files, walk, local, history
<1>16. ASSUME NEW h \in Handle, RaiseError(h) PROVE (LockHeld /\ Quiet)'
  BY <1>16 DEF RaiseError, Abandon, ForgetCall, Goto, files, walk, local, history
<1>17. ASSUME NEW h \in Handle, NEW v \in Version, Get(h, v) PROVE (LockHeld /\ Quiet)'
  BY <1>17 DEF Get, Goto, files, walk, local, history
<1>18. ASSUME NEW h \in Handle, NEW v \in Version, Deprecate(h, v) PROVE (LockHeld /\ Quiet)'
  BY <1>18 DEF Deprecate, Goto, files, walk, local, history
<1> QED
  BY <1>1, <1>2, <1>3, <1>4, <1>5, <1>6, <1>7, <1>8, <1>9,
     <1>10, <1>11, <1>12, <1>13, <1>14, <1>15, <1>16, <1>17, <1>18 DEF Next, Step, Begin

(* A walk climbs. *)
LEMMA WalkStep == ASSUME Inv, [Next]_vars PROVE WalkSound'
<1> USE VersionAssumption DEF Inv, TypeOK, LockHeld, Quiet, WalkSound,
          LinksSound, Busy, Writing, Present, AtEnd
<1>1. CASE UNCHANGED vars
  BY <1>1 DEF vars, files, walk, local, history
<1>2. ASSUME NEW h \in Handle, Follow(h) PROVE WalkSound'
  BY <1>2 DEF Follow, Goto, files, walk, local, history
<1>3. ASSUME NEW h \in Handle, ReturnCurrent(h) PROVE WalkSound'
  BY <1>3 DEF ReturnCurrent, Leave, ForgetCall, Goto, files, walk, local, history
<1>4. ASSUME NEW h \in Handle, RefuseCas(h) PROVE WalkSound'
  BY <1>4 DEF RefuseCas, Leave, ForgetCall, Goto, files, walk, local, history
<1>5. ASSUME NEW h \in Handle, AcceptCas(h) PROVE WalkSound'
  BY <1>5 DEF AcceptCas, Goto, files, walk, local, history
<1>6. ASSUME NEW h \in Handle, Log(h) PROVE WalkSound'
  BY <1>6 DEF Log, Goto, files, walk, local, history
<1>7. ASSUME NEW h \in Handle, Publish(h) PROVE WalkSound'
  BY <1>7 DEF Publish, Goto, files, walk, local, history
<1>8. ASSUME NEW h \in Handle, Supersede(h) PROVE WalkSound'
  BY <1>8 DEF Supersede, Goto, files, walk, local, history
<1>9. ASSUME NEW h \in Handle, Return(h) PROVE WalkSound'
  BY <1>9 DEF Return, Leave, ForgetCall, Goto, files, walk, local, history
<1>10. ASSUME NEW h \in Handle, NEW v \in Version, NEW c \in {"current", "cas"}, BeginWalk(h, c, v)
       PROVE  WalkSound'
  BY <1>10 DEF BeginWalk, Enter, Goto, files, walk, local, history
<1>11. ASSUME NEW h \in Handle, BeginWrite(h) PROVE WalkSound'
  BY <1>11 DEF BeginWrite, Enter, Goto, files, walk, local, history
<1>12. ASSUME NEW h \in Handle, NEW v \in Version, BeginUpdate(h, v) PROVE WalkSound'
  BY <1>12 DEF BeginUpdate, Enter, Goto, files, walk, local, history
<1>13. ASSUME NEW h \in Handle, Open(h) PROVE WalkSound'
  BY <1>13 DEF Open, Goto, files, walk, local, history
<1>14. ASSUME NEW h \in Handle, Close(h) PROVE WalkSound'
  BY <1>14 DEF Close, Goto, files, walk, local, history
<1>15. ASSUME NEW h \in Handle, Crash(h) PROVE WalkSound'
  BY <1>15 DEF Crash, Abandon, ForgetCall, Goto, files, walk, local, history
<1>16. ASSUME NEW h \in Handle, RaiseError(h) PROVE WalkSound'
  BY <1>16 DEF RaiseError, Abandon, ForgetCall, Goto, files, walk, local, history
<1>17. ASSUME NEW h \in Handle, NEW v \in Version, Get(h, v) PROVE WalkSound'
  BY <1>17 DEF Get, Goto, files, walk, local, history
<1>18. ASSUME NEW h \in Handle, NEW v \in Version, Deprecate(h, v) PROVE WalkSound'
  BY <1>18 DEF Deprecate, Goto, files, walk, local, history
<1> QED
  BY <1>1, <1>2, <1>3, <1>4, <1>5, <1>6, <1>7, <1>8, <1>9,
     <1>10, <1>11, <1>12, <1>13, <1>14, <1>15, <1>16, <1>17, <1>18 DEF Next, Step, Begin

(* The base of an accepted compare-and-set keeps being a head. *)
LEMMA BaseStep == ASSUME Inv, [Next]_vars PROVE BaseSound'
<1> USE VersionAssumption DEF Inv, TypeOK, LockHeld, Quiet, WalkSound,
          BaseSound, Busy, Writing, Present, AtEnd
<1>1. CASE UNCHANGED vars
  BY <1>1 DEF vars, files, walk, local, history
<1>2. ASSUME NEW h \in Handle, Follow(h) PROVE BaseSound'
  BY <1>2 DEF Follow, Goto, files, walk, local, history
<1>3. ASSUME NEW h \in Handle, ReturnCurrent(h) PROVE BaseSound'
  BY <1>3 DEF ReturnCurrent, Leave, ForgetCall, Goto, files, walk, local, history
<1>4. ASSUME NEW h \in Handle, RefuseCas(h) PROVE BaseSound'
  BY <1>4 DEF RefuseCas, Leave, ForgetCall, Goto, files, walk, local, history
<1>5. ASSUME NEW h \in Handle, AcceptCas(h) PROVE BaseSound'
  BY <1>5 DEF AcceptCas, Goto, files, walk, local, history
<1>6. ASSUME NEW h \in Handle, Log(h) PROVE BaseSound'
  BY <1>6 DEF Log, Goto, files, walk, local, history
<1>7. ASSUME NEW h \in Handle, Publish(h) PROVE BaseSound'
  BY <1>7 DEF Publish, Goto, files, walk, local, history
<1>8. ASSUME NEW h \in Handle, Supersede(h) PROVE BaseSound'
  BY <1>8 DEF Supersede, Goto, files, walk, local, history
<1>9. ASSUME NEW h \in Handle, Return(h) PROVE BaseSound'
  BY <1>9 DEF Return, Leave, ForgetCall, Goto, files, walk, local, history
<1>10. ASSUME NEW h \in Handle, NEW v \in Version, NEW c \in {"current", "cas"}, BeginWalk(h, c, v)
       PROVE  BaseSound'
  BY <1>10 DEF BeginWalk, Enter, Goto, files, walk, local, history
<1>11. ASSUME NEW h \in Handle, BeginWrite(h) PROVE BaseSound'
  BY <1>11 DEF BeginWrite, Enter, Goto, files, walk, local, history
<1>12. ASSUME NEW h \in Handle, NEW v \in Version, BeginUpdate(h, v) PROVE BaseSound'
  BY <1>12 DEF BeginUpdate, Enter, Goto, files, walk, local, history
<1>13. ASSUME NEW h \in Handle, Open(h) PROVE BaseSound'
  BY <1>13 DEF Open, Goto, files, walk, local, history
<1>14. ASSUME NEW h \in Handle, Close(h) PROVE BaseSound'
  BY <1>14 DEF Close, Goto, files, walk, local, history
<1>15. ASSUME NEW h \in Handle, Crash(h) PROVE BaseSound'
  BY <1>15 DEF Crash, Abandon, ForgetCall, Goto, files, walk, local, history
<1>16. ASSUME NEW h \in Handle, RaiseError(h) PROVE BaseSound'
  BY <1>16 DEF RaiseError, Abandon, ForgetCall, Goto, files, walk, local, history
<1>17. ASSUME NEW h \in Handle, NEW v \in Version, Get(h, v) PROVE BaseSound'
  BY <1>17 DEF Get, Goto, files, walk, local, history
<1>18. ASSUME NEW h \in Handle, NEW v \in Version, Deprecate(h, v) PROVE BaseSound'
  BY <1>18 DEF Deprecate, Goto, files, walk, local, history
<1> QED
  BY <1>1, <1>2, <1>3, <1>4, <1>5, <1>6, <1>7, <1>8, <1>9,
     <1>10, <1>11, <1>12, <1>13, <1>14, <1>15, <1>16, <1>17, <1>18 DEF Next, Step, Begin

(* What a writer knows about the version it writes stays true. *)
LEMMA NewStep == ASSUME Inv, [Next]_vars PROVE NewSound'
<1> USE VersionAssumption DEF Inv, TypeOK, LockHeld, WalkSound, BaseSound,
          NewSound, HistorySound, Busy, Writing, Present
<1>1. CASE UNCHANGED vars
  BY <1>1 DEF vars, files, walk, local, history
<1>2. ASSUME NEW h \in Handle, Follow(h) PROVE NewSound'
  BY <1>2 DEF Follow, Goto, files, walk, local, history
<1>3. ASSUME NEW h \in Handle, ReturnCurrent(h) PROVE NewSound'
  BY <1>3 DEF ReturnCurrent, Leave, ForgetCall, Goto, files, walk, local, history
<1>4. ASSUME NEW h \in Handle, RefuseCas(h) PROVE NewSound'
  BY <1>4 DEF RefuseCas, Leave, ForgetCall, Goto, files, walk, local, history
<1>5. ASSUME NEW h \in Handle, AcceptCas(h) PROVE NewSound'
  BY <1>5 DEF AcceptCas, Goto, files, walk, local, history
<1>6. ASSUME NEW h \in Handle, Log(h) PROVE NewSound'
  BY <1>6 DEF Log, Goto, files, walk, local, history
<1>7. ASSUME NEW h \in Handle, Publish(h) PROVE NewSound'
  BY <1>7 DEF Publish, Goto, files, walk, local, history
<1>8. ASSUME NEW h \in Handle, Supersede(h) PROVE NewSound'
  BY <1>8 DEF Supersede, Goto, files, walk, local, history
<1>9. ASSUME NEW h \in Handle, Return(h) PROVE NewSound'
  BY <1>9 DEF Return, Leave, ForgetCall, Goto, files, walk, local, history
<1>10. ASSUME NEW h \in Handle, NEW v \in Version, NEW c \in {"current", "cas"}, BeginWalk(h, c, v)
       PROVE  NewSound'
  BY <1>10 DEF BeginWalk, Enter, Goto, files, walk, local, history
<1>11. ASSUME NEW h \in Handle, BeginWrite(h) PROVE NewSound'
  BY <1>11 DEF BeginWrite, Enter, Goto, files, walk, local, history
<1>12. ASSUME NEW h \in Handle, NEW v \in Version, BeginUpdate(h, v) PROVE NewSound'
  BY <1>12 DEF BeginUpdate, Enter, Goto, files, walk, local, history
<1>13. ASSUME NEW h \in Handle, Open(h) PROVE NewSound'
  BY <1>13 DEF Open, Goto, files, walk, local, history
<1>14. ASSUME NEW h \in Handle, Close(h) PROVE NewSound'
  BY <1>14 DEF Close, Goto, files, walk, local, history
<1>15. ASSUME NEW h \in Handle, Crash(h) PROVE NewSound'
  BY <1>15 DEF Crash, Abandon, ForgetCall, Goto, files, walk, local, history
<1>16. ASSUME NEW h \in Handle, RaiseError(h) PROVE NewSound'
  BY <1>16 DEF RaiseError, Abandon, ForgetCall, Goto, files, walk, local, history
<1>17. ASSUME NEW h \in Handle, NEW v \in Version, Get(h, v) PROVE NewSound'
  BY <1>17 DEF Get, Goto, files, walk, local, history
<1>18. ASSUME NEW h \in Handle, NEW v \in Version, Deprecate(h, v) PROVE NewSound'
  BY <1>18 DEF Deprecate, Goto, files, walk, local, history
<1> QED
  BY <1>1, <1>2, <1>3, <1>4, <1>5, <1>6, <1>7, <1>8, <1>9,
     <1>10, <1>11, <1>12, <1>13, <1>14, <1>15, <1>16, <1>17, <1>18 DEF Next, Step, Begin

(* What a writer knows about its base once the sidecar is written. *)
LEMMA ReturnStep == ASSUME Inv, [Next]_vars PROVE ReturnSound'
<1> USE VersionAssumption DEF Inv, TypeOK, LockHeld, BaseSound, NewSound,
          ReturnSound, HistorySound, AckedLinked, Busy, Writing, Present
<1>1. CASE UNCHANGED vars
  BY <1>1 DEF vars, files, walk, local, history
<1>2. ASSUME NEW h \in Handle, Follow(h) PROVE ReturnSound'
  BY <1>2 DEF Follow, Goto, files, walk, local, history
<1>3. ASSUME NEW h \in Handle, ReturnCurrent(h) PROVE ReturnSound'
  BY <1>3 DEF ReturnCurrent, Leave, ForgetCall, Goto, files, walk, local, history
<1>4. ASSUME NEW h \in Handle, RefuseCas(h) PROVE ReturnSound'
  BY <1>4 DEF RefuseCas, Leave, ForgetCall, Goto, files, walk, local, history
<1>5. ASSUME NEW h \in Handle, AcceptCas(h) PROVE ReturnSound'
  BY <1>5 DEF AcceptCas, Goto, files, walk, local, history
<1>6. ASSUME NEW h \in Handle, Log(h) PROVE ReturnSound'
  BY <1>6 DEF Log, Goto, files, walk, local, history
<1>7. ASSUME NEW h \in Handle, Publish(h) PROVE ReturnSound'
  BY <1>7 DEF Publish, Goto, files, walk, local, history
<1>8. ASSUME NEW h \in Handle, Supersede(h) PROVE ReturnSound'
  BY <1>8 DEF Supersede, Goto, files, walk, local, history
<1>9. ASSUME NEW h \in Handle, Return(h) PROVE ReturnSound'
  BY <1>9 DEF Return, Leave, ForgetCall, Goto, files, walk, local, history
<1>10. ASSUME NEW h \in Handle, NEW v \in Version, NEW c \in {"current", "cas"}, BeginWalk(h, c, v)
       PROVE  ReturnSound'
  BY <1>10 DEF BeginWalk, Enter, Goto, files, walk, local, history
<1>11. ASSUME NEW h \in Handle, BeginWrite(h) PROVE ReturnSound'
  BY <1>11 DEF BeginWrite, Enter, Goto, files, walk, local, history
<1>12. ASSUME NEW h \in Handle, NEW v \in Version, BeginUpdate(h, v) PROVE ReturnSound'
  BY <1>12 DEF BeginUpdate, Enter, Goto, files, walk, local, history
<1>13. ASSUME NEW h \in Handle, Open(h) PROVE ReturnSound'
  BY <1>13 DEF Open, Goto, files, walk, local, history
<1>14. ASSUME NEW h \in Handle, Close(h) PROVE ReturnSound'
  BY <1>14 DEF Close, Goto, files, walk, local, history
<1>15. ASSUME NEW h \in Handle, Crash(h) PROVE ReturnSound'
  BY <1>15 DEF Crash, Abandon, ForgetCall, Goto, files, walk, local, history
<1>16. ASSUME NEW h \in Handle, RaiseError(h) PROVE ReturnSound'
  BY <1>16 DEF RaiseError, Abandon, ForgetCall, Goto, files, walk, local, history
<1>17. ASSUME NEW h \in Handle, NEW v \in Version, Get(h, v) PROVE ReturnSound'
  BY <1>17 DEF Get, Goto, files, walk, local, history
<1>18. ASSUME NEW h \in Handle, NEW v \in Version, Deprecate(h, v) PROVE ReturnSound'
  BY <1>18 DEF Deprecate, Goto, files, walk, local, history
<1> QED
  BY <1>1, <1>2, <1>3, <1>4, <1>5, <1>6, <1>7, <1>8, <1>9,
     <1>10, <1>11, <1>12, <1>13, <1>14, <1>15, <1>16, <1>17, <1>18 DEF Next, Step, Begin

-----------------------------------------------------------------------------
(* What only a few actions disturb.                                        *)

(* Versions change when one is logged, published, superseded or replayed,  *)
(* and the history of returned calls when one returns.                     *)
LEMMA Frame ==
    ASSUME [Next]_vars
    PROVE  \/ UNCHANGED <<status, parent, number, sidecar, byCas, acked>>
           \/ \E h \in Handle : Log(h) \/ Publish(h) \/ Supersede(h) \/ Return(h) \/ Open(h)
<1> DEFINE Same == UNCHANGED <<status, parent, number, sidecar, byCas, acked>>
<1>1. CASE UNCHANGED vars
  BY <1>1 DEF vars, files, history
<1>2. ASSUME NEW h \in Handle,
             Follow(h) \/ ReturnCurrent(h) \/ RefuseCas(h) \/ AcceptCas(h)
      PROVE  Same
  BY <1>2 DEF Follow, ReturnCurrent, RefuseCas, AcceptCas, files, history
<1>3. ASSUME NEW h \in Handle, Begin(h)
      PROVE  Same
  BY <1>3 DEF Begin, BeginWalk, BeginWrite, BeginUpdate, files, history
<1>4. ASSUME NEW h \in Handle, Close(h) \/ Crash(h) \/ RaiseError(h)
      PROVE  Same
  BY <1>4 DEF Close, Crash, RaiseError, Abandon, files, history
<1>5. ASSUME NEW h \in Handle, NEW v \in Version, Get(h, v) \/ Deprecate(h, v)
      PROVE  Same
  BY <1>5 DEF Get, Deprecate, files, history
<1> QED
  BY <1>1, <1>2, <1>3, <1>4, <1>5 DEF Next, Step

(* What returned is in the store, and its base has a successor. *)
LEMMA HistoryStep == ASSUME Inv, [Next]_vars PROVE (HistorySound /\ AckedLinked)'
<1> USE VersionAssumption DEF Inv, TypeOK, HistorySound, AckedLinked, Present
<1>1. CASE UNCHANGED <<status, parent, number, sidecar, byCas, acked>>
  BY <1>1
<1>2. ASSUME NEW h \in Handle, Log(h) PROVE (HistorySound /\ AckedLinked)'
  BY <1>2 DEF Log, BaseSound, Writing
<1>3. ASSUME NEW h \in Handle, Publish(h) PROVE (HistorySound /\ AckedLinked)'
  BY <1>3 DEF Publish, NewSound, history
<1>4. ASSUME NEW h \in Handle, Supersede(h) PROVE (HistorySound /\ AckedLinked)'
  BY <1>4 DEF Supersede, NewSound, history
<1>5. ASSUME NEW h \in Handle, Return(h) PROVE (HistorySound /\ AckedLinked)'
  BY <1>5 DEF Return, NewSound, ReturnSound, files
<1>6. ASSUME NEW h \in Handle, Open(h) PROVE (HistorySound /\ AckedLinked)'
  BY <1>6 DEF Open, history
<1> QED
  BY <1>1, <1>2, <1>3, <1>4, <1>5, <1>6, Frame

(* A sidecar always names a version that is there and was made from the    *)
(* one it supersedes.                                                      *)
LEMMA LinksStep == ASSUME Inv, [Next]_vars PROVE LinksSound'
<1> USE VersionAssumption DEF Inv, TypeOK, LinksSound, Present
<1>1. CASE UNCHANGED <<status, parent, number, sidecar, byCas, acked>>
  BY <1>1
<1>2. ASSUME NEW h \in Handle, Log(h) PROVE LinksSound'
  BY <1>2 DEF Log
<1>3. ASSUME NEW h \in Handle, Publish(h) PROVE LinksSound'
  BY <1>3 DEF Publish
<1>4. ASSUME NEW h \in Handle, Supersede(h) PROVE LinksSound'
  BY <1>4 DEF Supersede, BaseSound, NewSound, Writing
<1>5. ASSUME NEW h \in Handle, Return(h) PROVE LinksSound'
  BY <1>5 DEF Return, files
<1>6. ASSUME NEW h \in Handle, Open(h) PROVE LinksSound'
  BY <1>6 DEF Open
<1> QED
  BY <1>1, <1>2, <1>3, <1>4, <1>5, <1>6, Frame

(* No two compare-and-set updates from one version return. *)
LEMMA ExclusiveStep == ASSUME Inv, [Next]_vars PROVE AckedCasExclusive'
<1> USE VersionAssumption DEF Inv, TypeOK, AckedCasExclusive, HistorySound,
          Present
<1>1. CASE UNCHANGED <<status, parent, number, sidecar, byCas, acked>>
  BY <1>1
<1>2. ASSUME NEW h \in Handle, Log(h) PROVE AckedCasExclusive'
  BY <1>2 DEF Log
<1>3. ASSUME NEW h \in Handle, Publish(h) \/ Supersede(h) \/ Open(h) PROVE AckedCasExclusive'
  BY <1>3 DEF Publish, Supersede, Open, history
<1>4. ASSUME NEW h \in Handle, Return(h) PROVE AckedCasExclusive'
  BY <1>4 DEF Return, NewSound, ReturnSound, BaseSound, Writing, files
<1> QED
  BY <1>1, <1>2, <1>3, <1>4, Frame

(* What returned stays linked, unless a plain update forked its base. *)
LEMMA StaysStep == ASSUME Inv, [Next]_vars PROVE AckedStaysLinked'
<1> USE VersionAssumption DEF Inv, TypeOK, AckedStaysLinked, HistorySound,
          Present
<1>1. CASE UNCHANGED <<status, parent, number, sidecar, byCas, acked>>
  BY <1>1
<1>2. ASSUME NEW h \in Handle, Log(h) PROVE AckedStaysLinked'
  BY <1>2 DEF Log
<1>3. ASSUME NEW h \in Handle, Publish(h) PROVE AckedStaysLinked'
  BY <1>3 DEF Publish, history
<1>4. ASSUME NEW h \in Handle, Supersede(h) PROVE AckedStaysLinked'
  <2> SUFFICES ASSUME NEW v \in acked, parent[v] # NoVersion
               PROVE  \/ sidecar'[parent[v]] = v
                      \/ \E w \in Present \ byCas : w # v /\ parent[w] = parent[v]
    BY <1>4 DEF Supersede, history
  <2>1. CASE parent[v] # base[h]
    BY <1>4, <2>1 DEF Supersede
  <2>2. CASE parent[v] = base[h]
    <3>1. call[h] # "cas"
      BY <1>4, <2>2 DEF Supersede, BaseSound, AckedLinked, Writing
    <3>2. new[h] \in Present \ byCas /\ new[h] # v /\ parent[new[h]] = base[h]
      BY <1>4, <3>1 DEF Supersede, NewSound
    <3> QED
      BY <2>2, <3>2
  <2> QED
    BY <2>1, <2>2
<1>5. ASSUME NEW h \in Handle, Return(h) PROVE AckedStaysLinked'
  BY <1>5 DEF Return, NewSound, ReturnSound, files
<1>6. ASSUME NEW h \in Handle, Open(h) PROVE AckedStaysLinked'
  BY <1>6 DEF Open, history
<1> QED
  BY <1>1, <1>2, <1>3, <1>4, <1>5, <1>6, Frame

-----------------------------------------------------------------------------

(* The invariant holds in every reachable state. *)
THEOREM VersionInvariance == Spec => []Inv
<1>1. Inv /\ [Next]_vars => Inv'
  BY TypeStep, LockStep, WalkStep, BaseStep, NewStep, ReturnStep, HistoryStep,
     LinksStep, ExclusiveStep, StaysStep DEF Inv
<1> QED
  BY InitInv, <1>1, PTL DEF Spec

(* The type invariant holds in every reachable state. *)
THEOREM VersionTypes == Spec => []TypeOK
  BY VersionInvariance, PTL DEF Inv

(* Supersession chains never lead to a missing record, and climb. *)
THEOREM ChainsAreSound == Spec => []LinksSound
  BY VersionInvariance, PTL DEF Inv

(* Crashes, failed calls and plain updates notwithstanding, two compare-   *)
(* and-set updates from the same version never both return.                *)
THEOREM CasExclusion == Spec => []AckedCasExclusive
  BY VersionInvariance, PTL DEF Inv

(* An update that returned is lost to its lineage only by a plain update.  *)
THEOREM NoLostUpdate == Spec => []AckedStaysLinked
  BY VersionInvariance, PTL DEF Inv

(* A compare-and-set update never redirects a chain. *)
THEOREM CasOnlyExtends == Spec => CasNeverRedirects
<1> DEFINE Keeps ==
        \A v \in Version :
            sidecar[v] # NoVersion /\ sidecar'[v] # sidecar[v] =>
                sidecar'[v] \in Version \ byCas
<1>1. Inv /\ [Next]_vars => [Keeps]_vars
  <2> SUFFICES ASSUME Inv, [Next]_vars PROVE Keeps
    OBVIOUS
  <2>1. CASE UNCHANGED <<status, parent, number, sidecar, byCas, acked>>
    BY <2>1
  <2>2. ASSUME NEW h \in Handle, Supersede(h) PROVE Keeps
    BY <2>2 DEF Supersede, Inv, TypeOK, BaseSound, NewSound, Writing
  <2>3. ASSUME NEW h \in Handle, Log(h) \/ Publish(h) \/ Return(h) \/ Open(h) PROVE Keeps
    BY <2>3 DEF Log, Publish, Return, Open, files
  <2> QED
    BY <2>1, <2>2, <2>3, Frame
<1> QED
  BY <1>1, VersionInvariance, PTL DEF Spec, CasNeverRedirects

-----------------------------------------------------------------------------

(* Without faults a version that a compare-and-set update logged is of an  *)
(* update that returned or is on its way to.                               *)
InFlight ==
    \A v \in byCas :
        \/ v \in acked
        \/ \E h \in Handle :
              phase[h] \in {"publish", "supersede", "return"} /\ new[h] = v

(* Only a crash or a failing file operation can leave such a version       *)
(* behind.                                                                 *)
LEMMA InFlightStep ==
    ASSUME MaxFaults = 0, Inv, InFlight, [Next]_vars PROVE InFlight'
<1> USE DEF Inv, TypeOK, InFlight
<1> DEFINE Kept == /\ UNCHANGED <<byCas, acked>>
                   /\ \A h \in Handle :
                         phase[h] \in {"publish", "supersede", "return"} =>
                             /\ phase'[h] \in {"publish", "supersede", "return"}
                             /\ new'[h] = new[h]
<1>1. Kept => InFlight'
  OBVIOUS
<1>2. CASE UNCHANGED vars
  BY <1>1, <1>2 DEF vars, local, history
<1>3. ASSUME NEW h \in Handle, Follow(h) \/ AcceptCas(h) \/ Publish(h) \/ Supersede(h)
      PROVE  InFlight'
  BY <1>1, <1>3 DEF Follow, AcceptCas, Publish, Supersede, Goto, history
<1>4. ASSUME NEW h \in Handle, ReturnCurrent(h) \/ RefuseCas(h)
      PROVE  InFlight'
  BY <1>1, <1>4 DEF ReturnCurrent, RefuseCas, Leave, ForgetCall, Goto, history
<1>5. ASSUME NEW h \in Handle, Begin(h) PROVE InFlight'
  BY <1>1, <1>5 DEF Begin, BeginWalk, BeginWrite, BeginUpdate, Enter, Goto, history
<1>6. ASSUME NEW h \in Handle, Open(h) \/ Close(h) PROVE InFlight'
  BY <1>1, <1>6 DEF Open, Close, Goto, history
<1>7. ASSUME NEW h \in Handle, NEW v \in Version, Get(h, v) \/ Deprecate(h, v)
      PROVE  InFlight'
  BY <1>1, <1>7 DEF Get, Deprecate, local, history
<1>8. ASSUME NEW h \in Handle, Log(h) PROVE InFlight'
  BY <1>8 DEF Log, Goto, LockHeld, Busy, Writing
<1>9. ASSUME NEW h \in Handle, Return(h) PROVE InFlight'
  BY <1>9 DEF Return, Leave, ForgetCall, Goto, LockHeld, Busy, Writing
<1>10. ASSUME NEW h \in Handle, Crash(h) \/ RaiseError(h) PROVE FALSE
  BY <1>10 DEF Crash, RaiseError, Abandon
<1> QED
  BY <1>2, <1>3, <1>4, <1>5, <1>6, <1>7, <1>8, <1>9, <1>10 DEF Next, Step

(* Where no process crashes and no file operation fails, compare-and-set   *)
(* updates never fork a lineage: the promise of the feature, which faults   *)
(* break.                                                                  *)
THEOREM NoForkWithoutFaults == ASSUME MaxFaults = 0 PROVE Spec => []CasNeverForks
<1>1. Init => InFlight
  BY DEF Init, InFlight
<1>2. Inv /\ InFlight => CasNeverForks
  <2> SUFFICES ASSUME Inv, InFlight,
                      NEW v \in Present \cap byCas, NEW w \in Present \cap byCas,
                      parent[v] = parent[w]
               PROVE  v = w
    BY DEF CasNeverForks
  <2> USE DEF Inv, InFlight, HistorySound
  <2>1. CASE v \in acked /\ w \in acked
    BY <2>1 DEF AckedCasExclusive
  <2>2. ASSUME NEW x \in acked \cap byCas, NEW y \in Present, NEW h \in Handle,
               phase[h] \in {"publish", "supersede", "return"}, new[h] = y, y \in byCas,
               parent[x] = parent[y]
        PROVE  FALSE
    <3>1. call[h] = "cas" /\ parent[y] = base[h] /\ base[h] # NoVersion
      BY <2>2 DEF NewSound
    <3>2. phase[h] = "return"
      BY <2>2, <3>1 DEF AckedLinked, BaseSound, Writing
    <3> QED
      BY <2>2, <3>1, <3>2 DEF ReturnSound
  <2>3. CASE v \notin acked /\ w \notin acked
    BY <2>3 DEF LockHeld, Busy, Writing
  <2> QED
    BY <2>1, <2>2, <2>3
<1> QED
  BY <1>1, <1>2, InFlightStep, VersionInvariance, PTL DEF Spec

=============================================================================
