--------------------------- MODULE MiscStore_proofs ---------------------------
(***************************************************************************)
(* Proofs about MiscStore.  The inductive invariant relates the durable    *)
(* record, the numbers in RAM and the history of used sequence numbers:    *)
(*                                                                         *)
(*  - the durable IV index never exceeds the one the node sends with, and  *)
(*    while sending is allowed the durable record is the one last saved;   *)
(*  - before the first record is stored nothing has been sent;             *)
(*  - a number drawn stays within Delta + drawn of that record, so a power *)
(*    loss can repeat only what one pass of the main loop draws.           *)
(*                                                                         *)
(* The facts about used numbers hold until the record is lost in the erase *)
(* window (wiped); the facts about the IV index always do.                 *)
(***************************************************************************)
EXTENDS MiscStore, TLAPS

-------------------------------------------------------------------------------

\* The IV index: an update has a predecessor, and the record is never ahead.
IvOrder ==
  /\ updating => cur >= 1
  /\ durable # None => durable.iv <= TxIv
  /\ durable # None => durable.iv <= MaxIv

\* The record being written is the one in RAM.
StoreIsCurrent ==
  /\ phase \in {"storing", "stored"} => par.iv = TxIv /\ par.sno = snoLast /\ sno = snoLast
  /\ phase = "stored" => durable = par

\* While numbers may be drawn, the durable record is at most Delta behind,
\* plus the numbers of the current pass.
RecordIsClose ==
  (phase = "ready" /\ ~miscFlag) =>
    /\ durable # None
    /\ durable.iv = TxIv /\ durable.sno = snoLast
    /\ sno <= snoLast + Delta + drawn

\* The numbers sent, seen from RAM and from the durable record.
UsedInRam ==
  (phase # "off" /\ ~wiped) =>
    /\ \A i \in 0 .. MaxIv : i > TxIv => used[i] = 0
    /\ used[TxIv] <= sno + Burst

UsedInRecord ==
  (durable # None /\ ~wiped) =>
    /\ \A i \in 0 .. MaxIv : i > durable.iv => used[i] = 0
    /\ used[durable.iv] <= durable.sno + Delta + Burst

\* Before the first record is stored nothing has been sent.
NoneUsed ==
  (durable = None /\ phase = "ready" /\ ~wiped) => \A i \in 0 .. MaxIv : used[i] = 0

UsedInPass ==
  (phase = "ready" /\ ~miscFlag /\ ~wiped) =>
    used[TxIv] <= snoLast + Delta \/ used[TxIv] <= sno

IInv == TypeOK /\ IvOrder /\ StoreIsCurrent /\ RecordIsClose
        /\ UsedInRam /\ UsedInRecord /\ NoneUsed /\ UsedInPass

-------------------------------------------------------------------------------

\* The index used for sending is one of the model's.
LEMMA TxIvRange == TypeOK /\ IvOrder => TxIv \in 0 .. MaxIv
BY MiscAssumption DEF TypeOK, IvOrder, TxIv

\* What mesh_misc_store saves is a record of the index used for sending.
LEMMA MiscSaveFields ==
  ASSUME TypeOK, IvOrder, NEW s \in Nat
  PROVE  /\ MiscSave(s, cur, updating, trigger) \in Records
         /\ MiscSave(s, cur, updating, trigger).sno = s
         /\ MiscSave(s, cur, updating, trigger).iv = TxIv
<1>1. TxIv \in Nat /\ TxIv = IF updating THEN cur - 1 ELSE cur
  BY TxIvRange, MiscAssumption DEF TxIv
<1>2. (IF updating THEN s < StartSno ELSE trigger) \in BOOLEAN
  <2>1. trigger \in BOOLEAN /\ (s < StartSno) \in BOOLEAN
    BY DEF TypeOK
  <2> QED BY <2>1, Zenon
<1>3. MiscSave(s, cur, updating, trigger) =
        [sno |-> s, iv |-> TxIv, trigger |-> IF updating THEN s < StartSno ELSE trigger]
  BY <1>1 DEF MiscSave
<1> QED BY <1>1, <1>2, <1>3 DEF Records

LEMMA InitIInv == Init => IInv
<1> SUFFICES ASSUME Init PROVE IInv
  OBVIOUS
<1>1. par \in Records
  BY DEF Init, Area!Init, Initial, Records
<1>2. TypeOK
  <2>1. /\ updating \in BOOLEAN /\ trigger \in BOOLEAN /\ miscFlag \in BOOLEAN
        /\ wiped \in BOOLEAN
    BY Zenon DEF Init
  <2>2. /\ durable = None /\ phase = "off" /\ sno = 1 /\ snoLast = 0 /\ cur = 0 /\ drawn = 0
        /\ used = [i \in 0 .. MaxIv |-> 0]
    BY DEF Init, Area!Init
  <2> QED BY <1>1, <2>1, <2>2, MiscAssumption DEF TypeOK
<1>3. IvOrder /\ StoreIsCurrent /\ RecordIsClose /\ UsedInRam /\ UsedInRecord
       /\ NoneUsed /\ UsedInPass
  BY DEF Init, Area!Init, IvOrder, StoreIsCurrent, RecordIsClose, UsedInRam, UsedInRecord,
         NoneUsed, UsedInPass
<1> QED BY <1>2, <1>3 DEF IInv

\* Storing the numbers in RAM, whoever asks for it.
LEMMA StoreIInv ==
  ASSUME IInv, MeshMiscStore(sno, cur, updating, trigger),
         UNCHANGED <<sno, cur, updating, trigger, used, wiped>>,
         miscFlag' \in BOOLEAN, drawn' \in 0 .. Burst
  PROVE  IInv'
<1>1. par' \in Records /\ par'.sno = sno /\ par'.iv = TxIv
  BY MiscSaveFields DEF MeshMiscStore, IInv, TypeOK
<1>2. /\ TxIv' = TxIv /\ phase = "ready" /\ phase' = "storing" /\ snoLast' = sno
      /\ durable' \in {durable, None}
  BY DEF MeshMiscStore, TxIv
<1>3. TypeOK'
  BY <1>1, <1>2 DEF IInv, TypeOK
<1>4. IvOrder' /\ StoreIsCurrent' /\ RecordIsClose' /\ NoneUsed' /\ UsedInPass'
  BY <1>1, <1>2 DEF IInv, IvOrder, StoreIsCurrent, RecordIsClose, NoneUsed, UsedInPass
<1>5. UsedInRam' /\ UsedInRecord'
  BY <1>2 DEF IInv, UsedInRam, UsedInRecord
<1> QED BY <1>3, <1>4, <1>5 DEF IInv

LEMMA NextIInv == IInv /\ [Next]_vars => IInv'
<1> SUFFICES ASSUME IInv, [Next]_vars PROVE IInv'
  OBVIOUS
<1> USE MiscAssumption, NoneAssumption
<1>0. TxIv \in 0 .. MaxIv
  BY TxIvRange DEF IInv
<1>1. CASE MeshMiscRetrieve
  <2>1. phase' = "ready" /\ miscFlag' = TRUE /\ updating' = FALSE
        /\ durable' = durable /\ used' = used /\ TxIv' = cur'
    BY <1>1 DEF MeshMiscRetrieve, Area!PowerOn, TxIv
  <2>4. wiped' \in BOOLEAN /\ drawn' = 0
    BY <1>1 DEF MeshMiscRetrieve
  <2>2. CASE durable = None
    <3>1. sno' = 1 /\ snoLast' = 0 /\ cur' = 0 /\ trigger' = FALSE
      BY <1>1, <2>2 DEF MeshMiscRetrieve, Initial
    <3>2. ~wiped' => \A i \in 0 .. MaxIv : used[i] = 0
      <4>1. DOMAIN used = 0 .. MaxIv /\ \A i \in 0 .. MaxIv : used[i] \in Nat
        BY DEF IInv, TypeOK
      <4>2. ~wiped' => \A i \in DOMAIN used : ~(used[i] > 0)
        BY <1>1, <2>2 DEF MeshMiscRetrieve
      <4> QED BY <4>1, <4>2
    <3>3. par' \in Records
      BY <1>1, <2>2 DEF MeshMiscRetrieve, Area!PowerOn, Initial, Records
    <3>4. TypeOK'
      <4>1. updating' \in BOOLEAN /\ trigger' \in BOOLEAN /\ miscFlag' \in BOOLEAN
        BY <2>1, <3>1, Zenon
      <4> QED BY <2>1, <2>2, <2>4, <3>1, <3>3, <4>1 DEF IInv, TypeOK
    <3>5. IvOrder' /\ StoreIsCurrent' /\ RecordIsClose' /\ UsedInPass' /\ UsedInRecord'
      BY <2>1, <2>2, <3>1 DEF IvOrder, StoreIsCurrent, RecordIsClose, UsedInPass, UsedInRecord
    <3>6. UsedInRam' /\ NoneUsed'
      BY <2>1, <3>1, <3>2 DEF UsedInRam, NoneUsed
    <3> QED BY <3>4, <3>5, <3>6 DEF IInv
  <2>3. CASE durable # None
    <3>1. /\ sno' = durable.sno + Delta /\ snoLast' = durable.sno + Delta
          /\ cur' = durable.iv /\ trigger' = durable.trigger /\ par' = durable
          /\ durable \in Records /\ durable.iv \in 0 .. MaxIv
      BY <1>0, <1>1, <2>3 DEF MeshMiscRetrieve, Area!PowerOn, ResumeSno, IInv, TypeOK, IvOrder, Records
    <3>2. ~wiped' => ~wiped
      BY <1>1 DEF MeshMiscRetrieve
    <3>3. TypeOK'
      <4>1. durable.trigger \in BOOLEAN /\ durable.sno \in Nat
        BY <3>1 DEF Records
      <4>2. updating' \in BOOLEAN /\ trigger' \in BOOLEAN /\ miscFlag' \in BOOLEAN
        BY <2>1, <3>1, <4>1, Zenon
      <4> QED BY <2>1, <2>3, <2>4, <3>1, <4>1, <4>2 DEF IInv, TypeOK
    <3>4. IvOrder' /\ StoreIsCurrent' /\ RecordIsClose' /\ UsedInPass'
      BY <2>1, <2>3, <3>1 DEF IvOrder, StoreIsCurrent, RecordIsClose, UsedInPass, Records
    <3>5. UsedInRam' /\ UsedInRecord' /\ NoneUsed'
      BY <2>1, <2>3, <3>1, <3>2 DEF IInv, UsedInRam, UsedInRecord, NoneUsed, Records
    <3> QED BY <3>3, <3>4, <3>5 DEF IInv
  <2> QED BY <2>2, <2>3
<1>2. CASE PowerLoss
  BY <1>2 DEF PowerLoss, Area!PowerLoss, ram, IInv, TypeOK, IvOrder, StoreIsCurrent,
              RecordIsClose, UsedInRam, UsedInRecord, NoneUsed, UsedInPass, TxIv
<1>3. CASE StoreCommit
  <2>1. /\ phase = "storing" /\ phase' = "stored" /\ durable' = par /\ par' = par
        /\ par.iv = TxIv /\ par.sno = snoLast /\ sno = snoLast /\ par \in Records
    BY <1>3 DEF StoreCommit, Area!Commit, IInv, StoreIsCurrent, TypeOK
  <2>2. UNCHANGED <<ram, used, wiped>> /\ TxIv' = TxIv
    BY <1>3 DEF StoreCommit, TxIv, ram
  <2>3. TypeOK' /\ IvOrder' /\ StoreIsCurrent' /\ RecordIsClose' /\ UsedInRam' /\ NoneUsed' /\ UsedInPass'
    BY <1>0, <2>1, <2>2 DEF ram, IInv, TypeOK, IvOrder, StoreIsCurrent, RecordIsClose, UsedInRam,
                            NoneUsed, UsedInPass
  <2>4. UsedInRecord'
    BY <1>0, <2>1, <2>2 DEF ram, IInv, TypeOK, UsedInRam, UsedInRecord
  <2> QED BY <2>3, <2>4 DEF IInv
<1>4. CASE StoreReturn
  <2>1. /\ phase = "stored" /\ phase' = "ready" /\ UNCHANGED <<durable, par, ram, used, wiped>>
        /\ TxIv' = TxIv
    BY <1>4 DEF StoreReturn, Area!Return, TxIv, ram
  <2>2. durable # None
    BY <2>1 DEF IInv, StoreIsCurrent, TypeOK
  <2>3. TypeOK' /\ IvOrder' /\ StoreIsCurrent' /\ RecordIsClose'
    BY <2>1, <2>2 DEF ram, IInv, TypeOK, IvOrder, StoreIsCurrent, RecordIsClose
  <2>4. UsedInRam' /\ UsedInRecord' /\ NoneUsed'
    BY <2>1, <2>2 DEF ram, IInv, UsedInRam, UsedInRecord, NoneUsed
  <2>5. UsedInPass'
    BY <1>0, <2>1 DEF ram, IInv, TypeOK, StoreIsCurrent, UsedInRam, UsedInPass
  <2> QED BY <2>3, <2>4, <2>5 DEF IInv
<1>5. CASE SnoSaveCheck
  <2>1. CASE SaveDue
    <3>1. MeshMiscStore(sno, cur, updating, trigger) /\ drawn' = 0
          /\ UNCHANGED <<sno, cur, updating, trigger, miscFlag, used, wiped>>
      BY <1>5, <2>1 DEF SnoSaveCheck
    <3> QED BY <3>1, StoreIInv DEF IInv, TypeOK
  <2>2. CASE ~SaveDue
    <3>1. /\ phase = "ready" /\ drawn' = 0 /\ sno <= snoLast + Delta
          /\ UNCHANGED <<store, snoLast, sno, cur, updating, trigger, miscFlag, used, wiped>>
      BY <1>5, <2>2 DEF SnoSaveCheck, SaveDue, IInv, TypeOK
    <3> QED
      BY <3>1 DEF store, IInv, TypeOK, IvOrder, StoreIsCurrent, RecordIsClose,
                  UsedInRam, UsedInRecord, NoneUsed, UsedInPass, TxIv
  <2> QED BY <2>1, <2>2
<1>6. CASE StoreOther
  BY <1>6, StoreIInv DEF StoreOther, IInv, TypeOK
<1>7. CASE LibFlush
  BY <1>7, StoreIInv DEF LibFlush, IInv, TypeOK
<1>8. CASE LibDraw
  <2>1. /\ phase = "ready" /\ ~miscFlag /\ drawn < Burst
        /\ sno' = sno + 1 /\ drawn' = drawn + 1
        /\ UNCHANGED <<store, snoLast, cur, updating, trigger, miscFlag, wiped>>
        /\ TxIv' = TxIv
    BY <1>8 DEF LibDraw, TxIv
  <2>2. used' \in [0 .. MaxIv -> Nat]
    BY <1>0, <1>8 DEF LibDraw, IInv, TypeOK
  <2>3. /\ \A i \in 0 .. MaxIv : i # TxIv => used'[i] = used[i]
        /\ used'[TxIv] = IF used[TxIv] > sno THEN used[TxIv] ELSE sno + 1
    BY <1>0, <1>8 DEF LibDraw, IInv, TypeOK
  <2>5. TypeOK' /\ IvOrder' /\ StoreIsCurrent' /\ RecordIsClose'
    BY <2>1, <2>2 DEF store, IInv, TypeOK, IvOrder, StoreIsCurrent, RecordIsClose
  <2>6. UsedInRam' /\ UsedInPass'
    BY <1>0, <2>1, <2>3 DEF store, IInv, TypeOK, UsedInRam, UsedInPass
  <2>7. UsedInRecord' /\ NoneUsed'
    BY <1>0, <2>1, <2>3 DEF store, IInv, TypeOK, RecordIsClose, UsedInRecord, NoneUsed
  <2> QED BY <2>5, <2>6, <2>7 DEF IInv
<1>9. CASE LibIvUpdateStart
  <2>1. /\ ~updating /\ cur < MaxIv /\ cur' = cur + 1 /\ updating' = TRUE /\ trigger' = FALSE
        /\ UNCHANGED <<store, sno, snoLast, miscFlag, drawn, used, wiped>>
    BY <1>9 DEF LibIvUpdateStart
  <2>2. TxIv' = TxIv
    BY <2>1 DEF TxIv, IInv, TypeOK
  <2>3. TypeOK'
    <3>1. updating' \in BOOLEAN /\ trigger' \in BOOLEAN
      BY <2>1, Zenon
    <3>2. cur' \in 0 .. MaxIv
      BY <2>1 DEF IInv, TypeOK
    <3> QED BY <2>1, <3>1, <3>2 DEF store, IInv, TypeOK
  <2>4. IvOrder' /\ StoreIsCurrent' /\ RecordIsClose'
    BY <2>1, <2>2 DEF store, IInv, TypeOK, IvOrder, StoreIsCurrent, RecordIsClose
  <2>5. UsedInRam' /\ UsedInRecord' /\ NoneUsed' /\ UsedInPass'
    BY <2>1, <2>2 DEF store, IInv, UsedInRam, UsedInRecord, NoneUsed, UsedInPass
  <2> QED BY <2>3, <2>4, <2>5 DEF IInv
<1>10. CASE LibIvUpdateEnd
  <2>1. /\ updating /\ updating' = FALSE /\ sno' = 0 /\ drawn' = 0 /\ phase = "ready"
        /\ MeshMiscStore(0, cur, FALSE, trigger)
        /\ UNCHANGED <<cur, trigger, miscFlag, used, wiped>>
    BY <1>10 DEF LibIvUpdateEnd, MeshMiscStore
  <2>3. /\ phase' = "storing" /\ durable' \in {durable, None} /\ snoLast' = 0
        /\ par' = MiscSave(0, cur, FALSE, trigger)
    BY <2>1 DEF MeshMiscStore
  <2>4. TxIv' = cur /\ TxIv = cur - 1 /\ cur \in 1 .. MaxIv
    BY <2>1 DEF TxIv, IInv, TypeOK, IvOrder
  <2>5. par' \in Records /\ par'.iv = cur /\ par'.sno = 0
    BY <2>3, <2>4 DEF MiscSave, Records, IInv, TypeOK
  <2>6. TypeOK'
    <3>1. updating' \in BOOLEAN
      BY <2>1, Zenon
    <3>2. durable' \in Records \cup {None} /\ trigger' \in BOOLEAN /\ miscFlag' \in BOOLEAN
          /\ used' \in [0 .. MaxIv -> Nat] /\ wiped' \in BOOLEAN
          /\ cur' \in 0 .. MaxIv
      BY <2>1, <2>3 DEF IInv, TypeOK
    <3>3. par' \in Records /\ phase' \in {"off", "ready", "storing", "stored"}
      BY <2>3, <2>5, Zenon
    <3>4. sno' = 0 /\ snoLast' = 0 /\ drawn' = 0
      BY <2>1, <2>3, Zenon
    <3>5. sno' \in Nat /\ snoLast' \in Nat /\ drawn' \in 0 .. Burst
      BY <3>4
    <3> QED BY <3>1, <3>2, <3>3, <3>5, Zenon DEF TypeOK
  <2>7. IvOrder'
    BY <2>1, <2>3, <2>4 DEF IInv, TypeOK, Records, IvOrder
  <2>8. StoreIsCurrent' /\ RecordIsClose' /\ NoneUsed' /\ UsedInPass'
    BY <2>1, <2>3, <2>4, <2>5 DEF StoreIsCurrent, RecordIsClose, NoneUsed, UsedInPass
  <2>9. UsedInRam' /\ UsedInRecord'
    BY <2>1, <2>3, <2>4 DEF IInv, TypeOK, UsedInRam, UsedInRecord
  <2> QED BY <2>6, <2>7, <2>8, <2>9 DEF IInv
<1>11. CASE UNCHANGED vars
  BY <1>11 DEF vars, IInv, TypeOK, IvOrder, StoreIsCurrent, RecordIsClose,
               UsedInRam, UsedInRecord, NoneUsed, UsedInPass, TxIv
<1> QED
  BY <1>1, <1>2, <1>3, <1>4, <1>5, <1>6, <1>7, <1>8, <1>9, <1>10, <1>11 DEF Next

LEMMA IInvAlways == Spec => []IInv
BY InitIInv, NextIInv, PTL DEF Spec

-------------------------------------------------------------------------------

\* The record and the numbers in RAM keep their types: in particular the IV
\* index saved during an update, one less than the current one, never wraps.
THEOREM TypeCorrect == Spec => []TypeOK
<1>1. IInv => TypeOK
  BY DEF IInv
<1> QED BY <1>1, IInvAlways, PTL

\* A power loss between two passes of the main loop repeats no sequence
\* number, for every Delta, as long as a pass draws at most Delta numbers.
THEOREM PassCovered == Spec => []LoopPassCovered
<1>1. IInv => LoopPassCovered
  BY MiscAssumption, TxIvRange
     DEF IInv, LoopPassCovered, TypeOK, RecordIsClose, UsedInPass, ResumeSno, Records
<1> QED BY <1>1, IInvAlways, PTL

\* A power loss at any other point repeats at most what one pass draws.
THEOREM Reuse == Spec => []ReuseBounded
<1>1. IInv => ReuseBounded
  BY DEF IInv, UsedInRam, ReuseBounded
<1> QED BY <1>1, IInvAlways, PTL

\* No power loss moves the node to an IV index it was not sending with.
THEOREM IvKept == Spec => PowerCycleKeepsIv
<1>1. IInv /\ [Next]_vars =>
        [phase = "off" /\ phase' = "ready" => TxIv' <= TxIv]_vars
  <2> SUFFICES ASSUME IInv, Next, phase = "off", phase' = "ready"
               PROVE  TxIv' <= TxIv
    OBVIOUS
  <2>1. MeshMiscRetrieve
    BY DEF Next, MeshMiscRetrieve, PowerLoss, StoreCommit, StoreReturn, SnoSaveCheck, StoreOther,
           LibFlush, LibDraw, LibIvUpdateStart, LibIvUpdateEnd, MeshMiscStore,
           store,
           Area!PowerLoss, Area!Commit, Area!Return
  <2>2. TxIv' = cur' /\ cur' = IF durable = None THEN 0 ELSE durable.iv
    BY <2>1 DEF MeshMiscRetrieve, Initial, TxIv
  <2> QED BY <2>2, TxIvRange DEF IInv, IvOrder
<1> QED BY <1>1, IInvAlways, PTL DEF Spec, PowerCycleKeepsIv
===============================================================================
