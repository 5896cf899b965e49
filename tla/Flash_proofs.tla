----------------------------- MODULE Flash_proofs -----------------------------
(***************************************************************************)
(* Proofs about what a node keeps in flash: the record log of FlashStore,  *)
(* for every sector, parameter and flag size, and the power-on counter of  *)
(* FactoryReset, for every size of its sector.                             *)
(***************************************************************************)
EXTENDS MCFlash, SequenceTheorems, TLAPS

\* Records below e have been programmed, the others are erased.
ProgrammedBelow(e) ==
  \A i \in Slots : /\ i < e => flag[i] # "blank"
                   /\ i >= e => flag[i] = "blank" /\ data[i] = Blank

\* Where the erased part of the log starts, at each step of a store and when
\* power is off.
LogShape ==
  /\ pc \in {"ready", "pre"} => ProgrammedBelow(cursor)
  /\ pc \in {"data", "save", "clear"} => ProgrammedBelow(cursor + 1)
  /\ pc = "off" => \E e \in Slots : ProgrammedBelow(e)

\* What a store in progress has written so far.
StoreProgress ==
  /\ pc \in {"pre", "data", "save", "clear"} => ~SectorFull(cursor)
  /\ pc \in {"data", "save"} => flag[cursor] = "pre"
  /\ pc = "data" => data[cursor] = Blank
  /\ pc = "save" => data[cursor] = par
  /\ pc = "clear" => flag[cursor] = "save" /\ data[cursor] = par

\* i is the last record with a SAVE_FLAG.
LastSaved(i) == flag[i] = "save" /\ \A j \in Slots : flag[j] = "save" => j <= i

NewestExists ==
  (\E i \in Slots : flag[i] = "save") => \E i \in Slots : LastSaved(i)

IInv == TypeOK /\ LogShape /\ StoreProgress /\ SavedIsWhole /\ NewestExists

-------------------------------------------------------------------------------
(* Record numbers.                                                         *)

LEMMA SlotsFacts ==
  /\ RecordSize \in Nat /\ RecordSize > FlagSize
  /\ Slots \subseteq Nat
  /\ 0 \in Slots
  /\ ~SectorFull(0)
<1>1. /\ RecordSize \in Nat /\ RecordSize > FlagSize
      /\ RecordSize + FlagSize <= SectorSize
  BY SizeAssumption DEF RecordSize
<1>2. QED
  BY <1>1, SizeAssumption DEF Slots, SectorFull

LEMMA SlotsBelow ==
  ASSUME NEW i \in Slots, NEW j \in Nat, j <= i
  PROVE  j \in Slots
<1>1. i \in Nat /\ i * RecordSize < SectorSize /\ i <= SectorSize
  BY SizeAssumption DEF Slots
<1>2. (i - j) * RecordSize >= 0 /\ i * RecordSize = j * RecordSize + (i - j) * RecordSize
  BY <1>1, SlotsFacts
<1>3. j * RecordSize \in Nat /\ i * RecordSize \in Nat /\ (i - j) * RecordSize \in Int
  BY <1>1, SlotsFacts
<1>4. QED
  BY <1>1, <1>2, <1>3, SizeAssumption DEF Slots

\* A record that leaves the sector not full has a flag after it in the sector.
LEMMA NextSlot ==
  ASSUME NEW c \in Slots, ~SectorFull(c)
  PROVE  c + 1 \in Slots
<1>1. c \in Nat /\ c * RecordSize \in Nat /\ (c + 1) * RecordSize = c * RecordSize + RecordSize
  BY SlotsFacts
<1>2. c * RecordSize <= SectorSize - RecordSize - FlagSize
  BY <1>1, SlotsFacts, SizeAssumption DEF SectorFull
<1>3. (c + 1) * RecordSize < SectorSize
  BY <1>1, <1>2, SlotsFacts, SizeAssumption
<1>4. c + 1 <= (c + 1) * RecordSize
  <2>1. RecordSize - 1 \in Nat
    BY SlotsFacts, SizeAssumption
  <2>2. (c + 1) * (RecordSize - 1) >= 0
    BY <1>1, <2>1
  <2>3. QED
    BY <1>1, <2>2, SlotsFacts
<1>5. QED
  BY <1>1, <1>3, <1>4, SizeAssumption, SlotsFacts DEF Slots

\* The scan of mesh_par_retrieve ends where the erased part starts.
LEMMA ScanEndIsErased ==
  ASSUME NEW e \in Slots, ProgrammedBelow(e), NEW i \in Slots, IsScanEnd(i)
  PROVE  i = e
<1>1. e \in Nat /\ i \in Nat
  BY SlotsFacts
<1>2. ~(i < e)
  <2>1. SUFFICES ASSUME i < e PROVE FALSE
    OBVIOUS
  <2>2. i + 1 \in Slots
    BY <1>1, <2>1, SlotsBelow
  <2>3. QED
    BY <2>1, <2>2 DEF IsScanEnd, ProgrammedBelow
<1>3. ~(e < i)
  BY <1>1 DEF IsScanEnd, ProgrammedBelow
<1>4. QED
  BY <1>1, <1>2, <1>3

-------------------------------------------------------------------------------
(* The inductive invariant.                                                *)

LEMMA InitIInv == Init => IInv
  BY SlotsFacts, ValuesAssumption
  DEF Init, IInv, TypeOK, LogShape, ProgrammedBelow, StoreProgress, SavedIsWhole,
      NewestExists, Flags, Steps

\* mesh_par_retrieve reads the last record with a SAVE_FLAG: none lies behind a
\* blank flag.
RetrievesLastSaved ==
  /\ \A i \in Slots : LastSaved(i) => Retrieved = data[i]
  /\ (\A i \in Slots : flag[i] # "save") => Retrieved = None

LEMMA RetrievedLastSaved == IInv => RetrievesLastSaved
<1> SUFFICES ASSUME IInv PROVE RetrievesLastSaved
  OBVIOUS
<1>1. PICK e \in Nat : ProgrammedBelow(e)
  BY SlotsFacts DEF IInv, LogShape, TypeOK, Steps
<1>2. \A i \in Slots : flag[i] = "save" => i \in Scanned
  <2>1. SUFFICES ASSUME NEW i \in Slots, flag[i] = "save", NEW j \in 0 .. i
                 PROVE  flag[j] # "blank"
    BY DEF Scanned
  <2>2. i \in Nat /\ j \in Nat /\ j <= i /\ j \in Slots
    BY SlotsFacts, SlotsBelow
  <2>3. i < e
    BY <1>1, <2>1, <2>2 DEF ProgrammedBelow
  <2>4. QED
    BY <1>1, <2>2, <2>3 DEF ProgrammedBelow
<1>3. ASSUME NEW i \in Slots, LastSaved(i) PROVE Retrieved = data[i]
  <2>1. IsNewest(i)
    BY <1>2, <1>3 DEF LastSaved, IsNewest, Scanned
  <2>2. \A j \in Slots : IsNewest(j) => j = i
    BY <1>2, <1>3, SlotsFacts DEF LastSaved, IsNewest
  <2>3. (CHOOSE j \in Slots : IsNewest(j)) = i
    BY <2>1, <2>2
  <2>4. QED
    BY <1>2, <1>3, <2>3 DEF Retrieved, LastSaved
<1>4. (\A i \in Slots : flag[i] # "save") => Retrieved = None
  BY DEF Retrieved, Scanned
<1>5. QED
  BY <1>3, <1>4 DEF RetrievesLastSaved

LEMMA RetrievedType == IInv => Retrieved \in Values \cup {None}
  BY RetrievedLastSaved DEF RetrievesLastSaved, IInv, SavedIsWhole, NewestExists, LastSaved

-------------------------------------------------------------------------------
(* Programming the flag word at the cursor, whole or torn, while it is not *)
(* a SAVE_FLAG and does not become one.                                    *)

LEMMA FlagStepSaved ==
  ASSUME IInv, NEW f \in Flags \ {"blank", "save"}, NEW c \in Slots, flag[c] # "save",
         flag' = [flag EXCEPT ![c] = f], UNCHANGED data
  PROVE  SavedIsWhole' /\ NewestExists'
<1>1. \A i \in Slots : flag'[i] = "save" <=> flag[i] = "save"
  BY DEF IInv, TypeOK
<1>2. QED
  BY <1>1 DEF IInv, SavedIsWhole, NewestExists, LastSaved

\* Clearing the flag before the cursor leaves the record at the cursor alone.
LEMMA ClearLastFlag ==
  ASSUME TypeOK, pc = "clear", flag[cursor] = "save",
         flag' = IF cursor > 0 THEN [flag EXCEPT ![cursor - 1] = "void"] ELSE flag
  PROVE  /\ flag' \in [Slots -> Flags] /\ flag'[cursor] = "save"
         /\ \A i \in Slots : flag'[i] = flag[i] \/ (flag'[i] = "void" /\ i < cursor)
<1>1. cursor \in Slots /\ cursor \in Nat /\ flag \in [Slots -> Flags] /\ cursor # cursor - 1
  BY SlotsFacts DEF TypeOK
<1>2. flag' \in [Slots -> Flags]
  BY <1>1 DEF Flags
<1>3. flag'[cursor] = "save"
  BY <1>1
<1>4. ASSUME NEW i \in Slots PROVE flag'[i] = flag[i] \/ (flag'[i] = "void" /\ i < cursor)
  BY <1>1
<1>5. QED
  BY <1>2, <1>3, <1>4

LEMMA StepIInv == IInv /\ [Next]_vars => IInv'
<1> SUFFICES ASSUME IInv, [Next]_vars PROVE IInv'
  OBVIOUS
<1>0. /\ cursor \in Nat /\ TypeOK /\ LogShape /\ StoreProgress /\ SavedIsWhole /\ NewestExists
      /\ 0 \in Slots /\ Slots \subseteq Nat
  BY SlotsFacts DEF IInv, TypeOK
<1>1. CASE MeshParRetrieve
  <2>1. PICK e \in Slots : ProgrammedBelow(e)
    BY <1>0, <1>1 DEF MeshParRetrieve, LogShape
  <2>2. cursor' = e
    BY <2>1, <1>1, ScanEndIsErased DEF MeshParRetrieve
  <2>3. TypeOK'
    BY <1>0, <1>1, <2>2, RetrievedType, ValuesAssumption DEF MeshParRetrieve, TypeOK, Steps
  <2>4. LogShape'
    BY <1>1, <2>1, <2>2 DEF MeshParRetrieve, LogShape, ProgrammedBelow
  <2>5. StoreProgress' /\ SavedIsWhole' /\ NewestExists'
    BY <1>0, <1>1 DEF MeshParRetrieve, StoreProgress, SavedIsWhole, NewestExists, LastSaved
  <2>6. QED
    BY <2>3, <2>4, <2>5 DEF IInv
<1>2. ASSUME NEW v \in Values, Change(v) PROVE IInv'
  BY <1>0, <1>2 DEF Change, IInv, TypeOK, LogShape, ProgrammedBelow, StoreProgress,
                    SavedIsWhole, NewestExists, LastSaved
<1>3. CASE StoreErase
  BY <1>0, <1>3, SlotsFacts
  DEF StoreErase, IInv, TypeOK, Flags, Steps, LogShape, ProgrammedBelow, StoreProgress,
      SavedIsWhole, NewestExists
<1>4. CASE StoreSkip
  BY <1>0, <1>4 DEF StoreSkip, IInv, TypeOK, LogShape, ProgrammedBelow, StoreProgress,
                    SavedIsWhole, NewestExists, LastSaved
<1>5. CASE StoreBegin
  BY <1>0, <1>5 DEF StoreBegin, IInv, TypeOK, Steps, LogShape, ProgrammedBelow,
                    StoreProgress, SavedIsWhole, NewestExists, LastSaved, SectorFull
<1>6. CASE StorePreFlag
  <2>1. flag[cursor] = "blank" /\ data[cursor] = Blank
    BY <1>0, <1>6 DEF StorePreFlag, WriteFlag, LogShape, ProgrammedBelow, TypeOK
  <2>2. flag' = [flag EXCEPT ![cursor] = "pre"]
    BY <1>0, <1>6, <2>1 DEF StorePreFlag, WriteFlag, ProgramFlag
  <2>3. TypeOK'
    BY <1>0, <1>6, <2>2 DEF StorePreFlag, WriteFlag, TypeOK, Flags, Steps
  <2>4. LogShape'
    BY <1>0, <1>6, <2>2 DEF StorePreFlag, WriteFlag, LogShape, ProgrammedBelow, TypeOK
  <2>5. StoreProgress'
    BY <1>0, <1>6, <2>1, <2>2 DEF StorePreFlag, WriteFlag, StoreProgress, TypeOK, SectorFull
  <2>6. SavedIsWhole' /\ NewestExists'
    BY <1>0, <1>6, <2>1, <2>2, FlagStepSaved DEF StorePreFlag, WriteFlag, Flags, TypeOK
  <2>7. QED
    BY <2>3, <2>4, <2>5, <2>6 DEF IInv
<1>7. CASE StoreData
  <2>1. data' = [data EXCEPT ![cursor] = par]
    BY <1>0, <1>7 DEF StoreData, ProgramData, StoreProgress, TypeOK
  <2>2. TypeOK'
    BY <1>0, <1>7, <2>1 DEF StoreData, TypeOK, Steps
  <2>3. LogShape'
    BY <1>0, <1>7, <2>1 DEF StoreData, LogShape, ProgrammedBelow, TypeOK
  <2>4. StoreProgress'
    BY <1>0, <1>7, <2>1 DEF StoreData, StoreProgress, TypeOK, SectorFull
  <2>5. SavedIsWhole' /\ NewestExists'
    BY <1>0, <1>7, <2>1 DEF StoreData, SavedIsWhole, NewestExists, LastSaved, TypeOK
  <2>6. QED
    BY <2>2, <2>3, <2>4, <2>5 DEF IInv
<1>8. CASE StoreSaveFlag
  <2>1. flag' = [flag EXCEPT ![cursor] = "save"]
    BY <1>0, <1>8 DEF StoreSaveFlag, WriteFlag, ProgramFlag, StoreProgress
  <2>2. TypeOK'
    BY <1>0, <1>8, <2>1 DEF StoreSaveFlag, WriteFlag, TypeOK, Flags, Steps
  <2>3. LogShape'
    BY <1>0, <1>8, <2>1 DEF StoreSaveFlag, WriteFlag, LogShape, ProgrammedBelow, TypeOK
  <2>4. StoreProgress'
    BY <1>0, <1>8, <2>1 DEF StoreSaveFlag, WriteFlag, StoreProgress, TypeOK, SectorFull
  <2>5. SavedIsWhole'
    BY <1>0, <1>8, <2>1 DEF StoreSaveFlag, WriteFlag, SavedIsWhole, StoreProgress, TypeOK
  <2>6. LastSaved(cursor)'
    BY <1>0, <1>8, <2>1, <2>3 DEF StoreSaveFlag, WriteFlag, LastSaved, LogShape, ProgrammedBelow, TypeOK
  <2>7. NewestExists'
    BY <1>0, <1>8, <2>2, <2>6 DEF NewestExists, TypeOK
  <2>8. QED
    BY <2>2, <2>3, <2>4, <2>5, <2>7 DEF IInv
<1>9. CASE StoreClearLast
  <2>1. cursor + 1 \in Slots
    BY <1>0, <1>9, NextSlot DEF StoreClearLast, StoreProgress, TypeOK
  <2>2. /\ flag' \in [Slots -> Flags] /\ flag'[cursor] = "save"
        /\ \A i \in Slots : flag'[i] = flag[i] \/ (flag'[i] = "void" /\ i < cursor)
    BY <1>0, <1>9, ClearLastFlag DEF StoreClearLast, StoreProgress
  <2>3. TypeOK'
    BY <1>0, <1>9, <2>1, <2>2 DEF StoreClearLast, TypeOK, Steps
  <2>4. LogShape'
    BY <1>0, <1>9, <2>1, <2>2 DEF StoreClearLast, LogShape, ProgrammedBelow
  <2>5. StoreProgress' /\ SavedIsWhole'
    BY <1>0, <1>9, <2>2 DEF StoreClearLast, StoreProgress, SavedIsWhole
  <2>6. NewestExists'
    BY <1>0, <1>9, <2>2 DEF StoreClearLast, LogShape, ProgrammedBelow, NewestExists, LastSaved, TypeOK
  <2>7. QED
    BY <2>3, <2>4, <2>5, <2>6 DEF IInv
<1>10. ASSUME PowerOff PROVE \E e \in Slots : ProgrammedBelow(e)
  BY <1>0, <1>10, NextSlot DEF PowerOff, LogShape, StoreProgress, TypeOK, Steps
<1>11. CASE PowerLoss
  BY <1>0, <1>10, <1>11
  DEF PowerLoss, PowerOff, IInv, TypeOK, Steps, LogShape, ProgrammedBelow, StoreProgress,
      SavedIsWhole, NewestExists, LastSaved
<1>12. CASE TornFlag
  <2>1. flag[cursor] # "save"
    BY <1>0, <1>12 DEF TornFlag, StoreProgress, LogShape, ProgrammedBelow, TypeOK
  <2>2. SavedIsWhole' /\ NewestExists'
    BY <1>0, <1>12, <2>1, FlagStepSaved DEF TornFlag, Flags, TypeOK
  <2>3. TypeOK' /\ StoreProgress'
    BY <1>0, <1>12 DEF TornFlag, PowerOff, TypeOK, Flags, Steps, StoreProgress
  <2>4. ProgrammedBelow(cursor + 1)'
    BY <1>0, <1>12 DEF TornFlag, PowerOff, LogShape, ProgrammedBelow, TypeOK
  <2>5. cursor + 1 \in Slots
    BY <1>0, <1>12, NextSlot DEF TornFlag, StoreProgress, TypeOK
  <2>6. LogShape'
    BY <1>12, <2>4, <2>5 DEF TornFlag, PowerOff, LogShape
  <2>7. QED
    BY <2>2, <2>3, <2>6 DEF IInv
<1>13. CASE TornData
  <2>1. SavedIsWhole' /\ NewestExists'
    BY <1>0, <1>13 DEF TornData, StoreProgress, SavedIsWhole, NewestExists, LastSaved, TypeOK
  <2>2. TypeOK' /\ StoreProgress'
    BY <1>0, <1>13 DEF TornData, PowerOff, TypeOK, Steps, StoreProgress
  <2>3. ProgrammedBelow(cursor + 1)'
    BY <1>0, <1>13 DEF TornData, PowerOff, LogShape, ProgrammedBelow, TypeOK
  <2>4. cursor + 1 \in Slots
    BY <1>0, <1>13, NextSlot DEF TornData, StoreProgress, TypeOK
  <2>5. LogShape'
    BY <1>13, <2>3, <2>4 DEF TornData, PowerOff, LogShape
  <2>6. QED
    BY <2>1, <2>2, <2>5 DEF IInv
<1>14. CASE TornClear
  <2>1. /\ flag' \in [Slots -> Flags] /\ flag'[cursor] = "save"
        /\ \A i \in Slots : flag'[i] = flag[i] \/ (flag'[i] = "void" /\ i < cursor)
    BY <1>0, <1>14, ClearLastFlag DEF TornClear, StoreProgress
  <2>2. TypeOK' /\ StoreProgress' /\ SavedIsWhole'
    BY <1>0, <1>14, <2>1 DEF TornClear, PowerOff, TypeOK, Steps, StoreProgress, SavedIsWhole
  <2>3. ProgrammedBelow(cursor + 1)'
    BY <1>0, <1>14, <2>1 DEF TornClear, PowerOff, LogShape, ProgrammedBelow
  <2>4. cursor + 1 \in Slots
    BY <1>0, <1>14, NextSlot DEF TornClear, StoreProgress, TypeOK
  <2>5. LogShape'
    BY <1>14, <2>3, <2>4 DEF TornClear, PowerOff, LogShape
  <2>6. NewestExists'
    BY <1>0, <1>14, <2>1 DEF TornClear, LogShape, ProgrammedBelow, NewestExists, LastSaved, TypeOK
  <2>7. QED
    BY <2>2, <2>5, <2>6 DEF IInv
<1>15. CASE UNCHANGED vars
  BY <1>0, <1>15 DEF vars, IInv, TypeOK, LogShape, ProgrammedBelow, StoreProgress,
                     SavedIsWhole, NewestExists, LastSaved
<1>16. QED
  BY <1>1, <1>2, <1>3, <1>4, <1>5, <1>6, <1>7, <1>8, <1>9, <1>11, <1>12, <1>13, <1>14, <1>15
  DEF Next, Step

LEMMA Inductive == Spec => []IInv
  BY InitIInv, StepIInv, PTL DEF Spec

-------------------------------------------------------------------------------
(* The properties.                                                         *)

\* TypeOK: in particular *p_adr never leaves the records of the sector, for
\* every record size.
THEOREM TypeCorrect == Spec => []TypeOK
  BY Inductive, PTL DEF IInv

\* AppendsToErased: no record of the area is ever programmed twice, and the
\* scan of mesh_par_retrieve always ends at a 0xFF flag.
THEOREM AppendsOnly == Spec => []AppendsToErased
<1>1. IInv => AppendsToErased
  <2> SUFFICES ASSUME IInv PROVE AppendsToErased
    OBVIOUS
  <2>1. PICK e \in Slots : ProgrammedBelow(e)
    BY NextSlot DEF IInv, LogShape, StoreProgress, TypeOK, Steps
  <2>2. \E i \in Slots : flag[i] = "blank"
    BY <2>1, SlotsFacts DEF ProgrammedBelow
  <2>3. QED
    BY <2>2 DEF IInv, LogShape, ProgrammedBelow, AppendsToErased
<1>2. QED
  BY <1>1, Inductive, PTL

\* SavedIsWhole: a SAVE_FLAG vouches for a whole parameter.
THEOREM SavedWhole == Spec => []SavedIsWhole
  BY Inductive, PTL DEF IInv

-------------------------------------------------------------------------------
(* What each step does to the retrieved value.                             *)

LEMMA RetrievedPrime == IInv' => RetrievesLastSaved'
  BY RetrievedLastSaved, PTL

\* Steps that keep the set of SAVE_FLAG records and their parameters.
LEMMA SameSavedSameRetrieved ==
  ASSUME IInv, IInv',
         \A i \in Slots : (flag'[i] = "save" <=> flag[i] = "save")
                        /\ (flag[i] = "save" => data'[i] = data[i])
  PROVE  Retrieved' = Retrieved
<1>1. RetrievesLastSaved /\ RetrievesLastSaved'
  BY RetrievedLastSaved, RetrievedPrime
<1>2. CASE \A i \in Slots : flag[i] # "save"
  BY <1>1, <1>2 DEF RetrievesLastSaved
<1>3. ASSUME NEW i \in Slots, LastSaved(i) PROVE Retrieved' = Retrieved
  <2>1. LastSaved(i)'
    BY <1>3 DEF LastSaved
  <2>2. QED
    BY <1>1, <1>3, <2>1 DEF RetrievesLastSaved, LastSaved
<1>4. QED
  BY <1>2, <1>3 DEF IInv, NewestExists

\* Between SAVE_FLAG and the return of the store the new value is retrieved,
\* whatever happens to older records.
ClearReadsPar == pc = "clear" => Retrieved = par

LEMMA ClearRetrievesPar == IInv => ClearReadsPar
<1> SUFFICES ASSUME IInv, pc = "clear" PROVE Retrieved = par
  BY DEF ClearReadsPar
<1>1. cursor \in Slots /\ flag[cursor] = "save" /\ data[cursor] = par
  BY DEF IInv, TypeOK, StoreProgress
<1>2. LastSaved(cursor)
  BY <1>1, SlotsFacts DEF IInv, LogShape, ProgrammedBelow, LastSaved
<1>3. QED
  BY <1>1, <1>2, RetrievedLastSaved DEF RetrievesLastSaved

LEMMA ClearKeepsRetrieved ==
  ASSUME IInv, IInv', pc = "clear", UNCHANGED <<data, par>>,
         flag' = IF cursor > 0 THEN [flag EXCEPT ![cursor - 1] = "void"] ELSE flag
  PROVE  Retrieved' = Retrieved
<1>1. /\ cursor \in Slots /\ flag'[cursor] = "save"
      /\ \A i \in Slots : flag'[i] = flag[i] \/ (flag'[i] = "void" /\ i < cursor)
  BY ClearLastFlag DEF IInv, TypeOK, StoreProgress
<1>2. PICK c \in Slots : c = cursor
  BY <1>1
<1>3. LastSaved(c) /\ LastSaved(c)'
  <2>1. \A j \in Slots : flag[j] = "save" => j <= c
    BY <1>2, SlotsFacts DEF IInv, LogShape, ProgrammedBelow
  <2>2. QED
    BY <1>1, <1>2, <2>1 DEF IInv, StoreProgress, LastSaved
<1>4. QED
  BY <1>3, RetrievedLastSaved, RetrievedPrime DEF RetrievesLastSaved

LEMMA RetrievedStep ==
  ASSUME IInv, IInv', [Next]_vars
  PROVE  \/ Retrieved' = Retrieved /\ ~StoreErase /\ ~StoreSaveFlag
         \/ StoreErase /\ Retrieved' = None
         \/ StoreSaveFlag /\ Retrieved' = par
<1>0. /\ cursor \in Slots /\ flag \in [Slots -> Flags] /\ data \in [Slots -> Values \cup {Blank, Torn}]
  BY DEF IInv, TypeOK
<1>1. CASE MeshParRetrieve \/ (\E v \in Values : Change(v)) \/ StoreSkip \/ StoreBegin
           \/ PowerLoss \/ UNCHANGED vars
  <2>1. UNCHANGED <<flag, data>>
    BY <1>1 DEF MeshParRetrieve, Change, StoreSkip, StoreBegin, PowerLoss, vars
  <2>2. ~StoreErase /\ ~StoreSaveFlag
    BY <1>1 DEF MeshParRetrieve, Change, StoreSkip, StoreBegin, PowerLoss, PowerOff, vars,
                StoreErase, StoreSaveFlag, WriteFlag
  <2>3. QED
    BY <2>1, <2>2, SameSavedSameRetrieved
<1>2. CASE StoreErase
  BY <1>2, RetrievedPrime DEF StoreErase, RetrievesLastSaved
<1>3. CASE StorePreFlag \/ TornFlag
  <2>1. /\ flag[cursor] # "save" /\ UNCHANGED data
        /\ \E f \in {"pre", "void"} : flag' = [flag EXCEPT ![cursor] = f]
    BY <1>0, <1>3, SlotsFacts
    DEF IInv, StorePreFlag, WriteFlag, ProgramFlag, TornFlag, LogShape, ProgrammedBelow, StoreProgress
  <2>2. ~StoreErase /\ ~StoreSaveFlag
    BY <1>3 DEF StorePreFlag, TornFlag, PowerOff, WriteFlag, StoreErase, StoreSaveFlag
  <2>3. QED
    BY <1>0, <2>1, <2>2, SameSavedSameRetrieved
<1>4. CASE StoreData \/ TornData
  <2>1. /\ flag[cursor] # "save" /\ UNCHANGED flag
        /\ \E d : data' = [data EXCEPT ![cursor] = d]
    BY <1>4 DEF IInv, StoreData, TornData, StoreProgress
  <2>2. ~StoreErase /\ ~StoreSaveFlag
    BY <1>4 DEF StoreData, TornData, PowerOff, WriteFlag, StoreErase, StoreSaveFlag
  <2>3. QED
    BY <1>0, <2>1, <2>2, SameSavedSameRetrieved
<1>5. CASE StoreSaveFlag
  <2>1. pc' = "clear" /\ par' = par
    BY <1>5 DEF StoreSaveFlag, WriteFlag
  <2>2. IInv' => ClearReadsPar'
    BY ClearRetrievesPar, PTL
  <2>3. QED
    BY <1>5, <2>1, <2>2 DEF ClearReadsPar, StoreErase, StoreSaveFlag, WriteFlag
<1>6. CASE StoreClearLast \/ TornClear
  <2>1. Retrieved' = Retrieved
    BY <1>6, ClearKeepsRetrieved DEF StoreClearLast, TornClear, PowerOff
  <2>2. ~StoreErase /\ ~StoreSaveFlag
    BY <1>6 DEF StoreClearLast, TornClear, PowerOff, WriteFlag, StoreErase, StoreSaveFlag
  <2>3. QED
    BY <2>1, <2>2
<1>7. QED
  BY <1>1, <1>2, <1>3, <1>4, <1>5, <1>6 DEF Next, Step

\* NoRollback: power losses, cleared records and interrupted stores never
\* bring an older value back.
THEOREM NeverRollsBack == Spec => NoRollback
<1>1. IInv /\ IInv' /\ [Next]_vars =>
        [ Retrieved' # Retrieved =>
            \/ pc = "save" /\ Retrieved' = par
            \/ pc = "ready" /\ pc' = "pre" /\ Retrieved' = None ]_vars
  BY RetrievedStep DEF StoreErase, StoreSaveFlag, WriteFlag
<1>2. QED
  BY <1>1, Inductive, PTL DEF Spec, NoRollback

-------------------------------------------------------------------------------
(* The area as a durable register.                                         *)

LEMMA SavedStep ==
  ASSUME ~inMap, IInv, IInv', SavedForNextPowerOn, [Next]_vars
  PROVE  SavedForNextPowerOn'
<1>1. CASE MeshParRetrieve
  <2>1. UNCHANGED <<flag, data>> /\ saved' = Retrieved
    BY <1>1 DEF MeshParRetrieve
  <2>2. Retrieved' = Retrieved
    BY <2>1, SameSavedSameRetrieved
  <2>3. QED
    BY <2>1, <2>2 DEF SavedForNextPowerOn
<1>2. CASE StoreClearLast
  <2>1. Retrieved' = Retrieved /\ saved' = par /\ pc = "clear"
    BY <1>2, ClearKeepsRetrieved DEF StoreClearLast
  <2>2. QED
    BY <2>1, ClearRetrievesPar DEF ClearReadsPar, SavedForNextPowerOn
<1>3. CASE (\E v \in Values : Change(v)) \/ UNCHANGED vars
  <2>1. UNCHANGED <<flag, data, pc, saved>>
    BY <1>3 DEF Change, vars
  <2>2. QED
    BY <2>1, SameSavedSameRetrieved DEF SavedForNextPowerOn
<1>4. CASE \/ StoreErase \/ StoreBegin \/ StorePreFlag \/ StoreData \/ StoreSaveFlag
           \/ PowerLoss \/ TornFlag \/ TornData \/ TornClear
  BY <1>4
  DEF SavedForNextPowerOn, StoreErase, StoreBegin, StorePreFlag, StoreData, StoreSaveFlag,
      WriteFlag, PowerLoss, TornFlag, TornData, TornClear, PowerOff
<1>5. ~StoreSkip
  BY DEF StoreSkip, SameAsLast
<1>6. QED
  BY <1>1, <1>2, <1>3, <1>4, <1>5 DEF Next, Step

\* SavedUnlessCompared: in every area outside mesh_save_map a store that
\* returned is what the next power-on retrieves; inside it, it need not be (run
\* flash_skipped_store).
THEOREM SavedStays == Spec => []SavedUnlessCompared
<1>1. Init => SavedUnlessCompared
  BY DEF Init, SavedForNextPowerOn, SavedUnlessCompared
<1>2. IInv /\ IInv' /\ SavedUnlessCompared /\ [Next]_vars => SavedUnlessCompared'
  <2> SUFFICES ASSUME IInv, IInv', SavedUnlessCompared, [Next]_vars, ~inMap'
               PROVE  SavedForNextPowerOn'
    BY DEF SavedUnlessCompared
  <2>1. ~inMap
    BY DEF Next, vars
  <2>2. QED
    BY <2>1, SavedStep DEF SavedUnlessCompared
<1>3. QED
  BY <1>1, <1>2, Inductive, PTL DEF Spec

\* One step of the record log is one step of the register, or none.
LEMMA RefineStep ==
  ASSUME IInv, IInv', [Next]_vars
  PROVE  [Durable!Next]_Durable!vars
<1> USE DEF Durable!Next, Durable!vars
<1>0. RetrievesLastSaved /\ Retrieved \in Values \cup {None} /\ pc \in Steps
  BY RetrievedLastSaved, RetrievedType DEF IInv, TypeOK
<1>1. CASE MeshParRetrieve
  <2>1. Retrieved' = Retrieved
    BY <1>1, RetrievedStep DEF MeshParRetrieve, StoreErase, StoreSaveFlag, WriteFlag
  <2>2. Durable!PowerOn
    BY <1>1, <2>1 DEF MeshParRetrieve, Durable!PowerOn, Phase
  <2>3. QED
    BY <2>2
<1>2. ASSUME NEW v \in Values, Change(v) PROVE [Durable!Next]_Durable!vars
  <2>1. Retrieved' = Retrieved
    BY <1>2, RetrievedStep DEF Change, StoreErase, StoreSaveFlag, WriteFlag
  <2>2. Durable!Change(v)
    BY <1>2, <2>1 DEF Change, Durable!Change, Phase
  <2>3. QED
    BY <2>2
<1>3. CASE StoreErase
  <2>1. Retrieved' = None /\ pc = "ready" /\ pc' = "pre" /\ par' = par
    BY <1>3, RetrievedStep DEF StoreErase, StoreSaveFlag, WriteFlag
  <2>2. Durable!Start
    BY <2>1 DEF Durable!Start, Phase
  <2>3. QED
    BY <2>2
<1>4. CASE StoreBegin
  <2>1. Retrieved' = Retrieved /\ pc = "ready" /\ pc' = "pre" /\ par' = par
    BY <1>4, RetrievedStep DEF StoreBegin, StoreErase, StoreSaveFlag, WriteFlag
  <2>2. Durable!Start
    BY <2>1 DEF Durable!Start, Phase
  <2>3. QED
    BY <2>2
<1>5. CASE StorePreFlag \/ StoreData
  <2>1. Retrieved' = Retrieved
    BY <1>5, RetrievedStep DEF StorePreFlag, StoreData, StoreErase, StoreSaveFlag, WriteFlag
  <2>2. pc \in {"pre", "data"} /\ pc' \in {"data", "save"} /\ par' = par
    BY <1>5 DEF StorePreFlag, StoreData, WriteFlag
  <2>3. QED
    BY <2>1, <2>2 DEF Phase
<1>6. CASE StoreSaveFlag
  <2>1. Retrieved' = par /\ pc = "save" /\ pc' = "clear" /\ par' = par
    BY <1>6, RetrievedStep DEF StoreErase, StoreSaveFlag, WriteFlag
  <2>2. Durable!Commit
    BY <2>1 DEF Durable!Commit, Phase
  <2>3. QED
    BY <2>2
<1>7. CASE StoreClearLast
  <2>1. Retrieved' = Retrieved /\ pc = "clear" /\ pc' = "ready" /\ par' = par
    BY <1>7, RetrievedStep DEF StoreClearLast, StoreErase, StoreSaveFlag, WriteFlag
  <2>2. Durable!Return
    BY <2>1 DEF Durable!Return, Phase
  <2>3. QED
    BY <2>2
<1>8. CASE PowerLoss \/ TornFlag \/ TornData \/ TornClear
  <2>1. pc # "off" /\ pc' = "off" /\ par' = par
    BY <1>8 DEF PowerLoss, TornFlag, TornData, TornClear, PowerOff
  <2>2. Retrieved' = Retrieved
    BY <2>1, RetrievedStep DEF StoreErase, StoreSaveFlag, WriteFlag
  <2>3. Durable!PowerLoss
    BY <1>0, <2>1, <2>2 DEF Durable!PowerLoss, Phase, Steps
  <2>4. QED
    BY <2>3
<1>9. CASE UNCHANGED vars
  <2>1. UNCHANGED <<Retrieved, par, pc>>
    BY <1>9, SameSavedSameRetrieved DEF vars
  <2>2. QED
    BY <2>1 DEF Phase
<1>10. CASE StoreSkip
  <2>1. UNCHANGED <<Retrieved, par, pc>>
    BY <1>10, SameSavedSameRetrieved DEF StoreSkip
  <2>2. QED
    BY <2>1 DEF Phase
<1>11. QED
  BY <1>1, <1>2, <1>3, <1>4, <1>5, <1>6, <1>7, <1>8, <1>9, <1>10 DEF Next, Step

\* ImplementsDurablePar: for every sector and record size an area is a register
\* that a store which is not skipped replaces in one step, that power losses do
\* not change, and that is emptied only when its sector is erased.
THEOREM Refinement == Spec => ImplementsDurablePar
<1>1. Init => Durable!Init
  <2> SUFFICES ASSUME Init PROVE Durable!Init
    OBVIOUS
  <2>1. Retrieved = None
    BY DEF Init, Retrieved, Scanned
  <2>2. QED
    BY <2>1 DEF Init, Durable!Init, Phase
<1>2. IInv /\ IInv' /\ [Next]_vars => [Durable!Next]_Durable!vars
  BY RefineStep
<1>3. QED
  BY <1>1, <1>2, Inductive, PTL DEF Spec, ImplementsDurablePar, Durable!Spec

-------------------------------------------------------------------------------
(* The power-on counter.  The sector reads 0, 0, ..., v, blank, blank: k is *)
(* the place of the byte that counts and v what it holds.                  *)

Serial(n) == R!factory_reset_serials[n] * 1000
Counts == 1 .. R!RESET_TRIGGER_VAL

Log(c, k, v) ==
  /\ k = CleanIdx => v = R!BlankByte
  /\ c[k] = v
  /\ \A j \in 0 .. k - 1 : c[j] = R!RESET_CNT_INVALID
  /\ \A j \in k + 1 .. CntSize - 1 : c[j] = R!BlankByte

\* A session of length t is one the table asks for as number m.
Fits(t, m) == t >= R!VALID_POWER_ON_TIME /\ t >= Serial(2 * m - 1) /\ t <= Serial(2 * m)

\* The last m sessions counted are the first m of the gesture.
Part(g, m) == Len(g) >= m /\ \A j \in 1 .. m : Fits(g[Len(g) - m + j], j)

\* What an even count says, whenever power is lost or comes back.
Earned(v, g) == \A m \in 1 .. 5 : v = 2 * m => Part(g, m)

\* increase_reset_cnt on its way to n: the byte before is cleared, the index
\* moves, n is programmed.
Counting(k, v, n) ==
  \/ todo = <<R!RESET_CNT_INVALID, R!NextByte, n>> /\ v = n - 1 /\ k = idx
  \/ todo = <<R!NextByte, n>> /\ v = R!BlankByte /\ k = idx + 1
  \/ todo = <<n>> /\ v = R!BlankByte /\ k = idx
  \/ todo = <<>> /\ v = n /\ k = idx /\ touched

\* The count was discarded: its byte is cleared and nothing can be programmed
\* over it.
Lost(k, v) ==
  \/ todo = <<R!RESET_CNT_INVALID, 1>> /\ v \in Counts /\ v % 2 = 1 /\ k = idx
  \/ todo \in {<<1>>, <<>>} /\ v = R!BlankByte /\ k = idx + 1

\* Before the count of this session (n is odd).
First(k, v, m) ==
  /\ clear_st \in {2, 3} /\ Counting(k, v, 2 * m + 1) /\ Part(gesture, m)
  /\ clear_st = 3 => clock = R!VALID_POWER_ON_TIME
  /\ clear_st = 2 => /\ todo = <<>> /\ checkTime = Serial(2 * m + 1)
                     /\ clock <= R!VALID_POWER_ON_TIME \/ clock <= checkTime
  /\ v = 2 * m => ~touched

\* After it, the session is the one of number m + 1 if it ends before
\* checkTime.
Second(k, v, m) ==
  /\ \/ clear_st = 1 /\ Counting(k, v, 2 * m + 2)
     \/ clear_st = 0 /\ todo = <<R!RESET_CNT_INVALID>> /\ v = 2 * m + 2 /\ k = idx /\ touched
  /\ Part(gesture, m)
  /\ Fits(clock, m + 1) /\ checkTime = Serial(2 * m + 2)

\* A session, from factory_reset_handle on.
Session(k, v) ==
  /\ clock >= R!VALID_POWER_ON_TIME
  /\ \/ \E m \in 0 .. 4 : First(k, v, m) \/ Second(k, v, m)
     \/ clear_st \in {1, 3} /\ Lost(k, v)
     \/ clear_st = 2 /\ Lost(k, v) /\ todo = <<>>
     \/ /\ clear_st = 0 /\ v = R!BlankByte /\ k = idx + 1
        /\ todo \in {<<>>, <<R!RESET_CNT_INVALID>>}

\* Before it.
Fresh(v) ==
  /\ clear_st = 4 /\ todo = <<>> /\ ~touched /\ idx = 0
  /\ clock <= R!VALID_POWER_ON_TIME /\ Earned(v, gesture)

\* A reset by the gesture, until it is done.
Started(v) == v = R!RESET_TRIGGER_VAL /\ ~touched /\ Part(gesture, 5)

Words == Counts \cup {R!BlankByte}

ResetType ==
  /\ cnt \in [0 .. CntSize - 1 -> R!Bytes] /\ idx \in 0 .. CleanIdx
  /\ clock \in R!Times /\ clear_st \in 0 .. 4 /\ mode \in {"off", "run", "erase"}
  /\ gesture \in Seq(R!Times) /\ Len(gesture) <= 5
  /\ mode = "erase" => todo = <<>>

Story(k, v) ==
  /\ Log(cnt, k, v)
  /\ mode = "off" => Earned(v, gesture)
  /\ mode # "off" => Fresh(v) \/ Session(k, v) \/ (mode = "erase" /\ gestureReset)
  /\ gestureReset \/ partial => /\ Started(v)
                                /\ mode # "off" => clear_st = 4 \/ mode = "erase"

ResetInv == ResetType /\ \E k \in 0 .. CleanIdx, v \in Words : Story(k, v)

-------------------------------------------------------------------------------
(* The numbers of the table.                                               *)

LEMMA Numbers ==
  /\ R!RESET_TRIGGER_VAL = 10 /\ R!RESET_CNT_INVALID = 0 /\ R!BlankByte = 255
  /\ R!NextByte = -1 /\ R!VALID_POWER_ON_TIME = 50
  /\ Counts = 1 .. 10 /\ Words = 1 .. 10 \cup {255} /\ R!Bytes = 0 .. 10 \cup {255}
<1>1. R!RESET_TRIGGER_VAL = 10
  BY DEF R!RESET_TRIGGER_VAL, R!factory_reset_serials
<1> QED
  BY <1>1 DEF R!RESET_CNT_INVALID, R!BlankByte, R!NextByte, R!VALID_POWER_ON_TIME, Counts, Words,
              R!Bytes

LEMMA Table ==
  ASSUME NEW m \in 0 .. 4
  PROVE  /\ Serial(2 * m + 1) \in {0, 3000} /\ Serial(2 * m + 2) \in {3000, 30000}
         /\ Serial(2 * m + 1) <= Serial(2 * m + 2)
<1>1. /\ Serial(1) = 0 /\ Serial(2) = 3000 /\ Serial(3) = 0 /\ Serial(4) = 3000 /\ Serial(5) = 0
      /\ Serial(6) = 3000 /\ Serial(7) = 3000 /\ Serial(8) = 30000 /\ Serial(9) = 3000
      /\ Serial(10) = 30000
  BY DEF Serial, R!factory_reset_serials
<1>2. CASE m \in {0, 1}
  BY <1>1, <1>2
<1>3. CASE m \in {2, 3}
  BY <1>1, <1>3
<1>4. CASE m = 4
  BY <1>1, <1>4
<1> QED BY <1>2, <1>3, <1>4

\* What increase_reset_cnt leaves to do.
LEMMA ToDo ==
  /\ \A c \in Counts : R!Increase(c) = <<0, -1, c + 1>>
  /\ R!Increase(R!BlankByte) = <<1>> /\ R!Increase(0) = <<1>>
  /\ R!Clear = <<0>> /\ R!Clear \o R!Increase(R!RESET_CNT_INVALID) = <<0, 1>>
<1>1. \A c \in Counts : R!Increase(c) = <<0>> \o <<-1, c + 1>>
  BY Numbers DEF R!Increase, R!Clear
<1>2. \A c \in Counts : <<0>> \o <<-1, c + 1>> = <<0, -1, c + 1>>
  <2> TAKE c \in Counts
  <2>1. <<0>> \in Seq(Int) /\ <<-1, c + 1>> \in Seq(Int) /\ <<0, -1, c + 1>> \in Seq(Int)
    BY Numbers
  <2>2. /\ <<0>> \o <<-1, c + 1>> \in Seq(Int) /\ Len(<<0>> \o <<-1, c + 1>>) = 3
        /\ \A i \in 1 .. 3 : (<<0>> \o <<-1, c + 1>>)[i] = <<0, -1, c + 1>>[i]
    BY <2>1
  <2> QED BY <2>1, <2>2, SeqEqual
<1>4. <<0>> \o <<1>> = <<0, 1>>
  <2>1. <<0>> \in Seq(Int) /\ <<1>> \in Seq(Int) /\ <<0, 1>> \in Seq(Int)
    OBVIOUS
  <2>2. /\ <<0>> \o <<1>> \in Seq(Int) /\ Len(<<0>> \o <<1>>) = 2
        /\ \A i \in 1 .. 2 : (<<0>> \o <<1>>)[i] = <<0, 1>>[i]
    BY <2>1
  <2> QED BY <2>1, <2>2, SeqEqual
<1>3. R!Increase(R!BlankByte) = <<1>> /\ R!Increase(0) = <<1>> /\ R!Clear = <<0>>
  BY Numbers DEF R!Increase, R!Clear
<1> QED BY <1>1, <1>2, <1>3, <1>4, Numbers

LEMMA Tuples ==
  /\ \A a : <<a>> # <<>> /\ Head(<<a>>) = a /\ Tail(<<a>>) = <<>>
  /\ \A a, b : <<a, b>> # <<>> /\ Head(<<a, b>>) = a /\ Tail(<<a, b>>) = <<b>>
  /\ \A a, b, c : <<a, b, c>> # <<>> /\ Head(<<a, b, c>>) = a /\ Tail(<<a, b, c>>) = <<b, c>>
  OBVIOUS

-------------------------------------------------------------------------------
(* The sector.                                                             *)

LEMMA FirstCount ==
  ASSUME NEW k \in 0 .. CleanIdx, NEW v \in Words, Log(cnt, k, v), R!ResetAssumption
  PROVE  /\ k \in 0 .. CntSize - 1 /\ R!IsCntIdx(k) /\ cnt[k] = v
         /\ \A i \in 0 .. CntSize - 1 : R!IsCntIdx(i) => i = k
  BY Numbers DEF Log, R!IsCntIdx, R!ResetAssumption

LEMMA WrittenByte ==
  ASSUME NEW c \in [0 .. CntSize - 1 -> R!Bytes], NEW i, NEW n \in {0} \cup Counts
  PROVE  [c EXCEPT ![i] = n] \in [0 .. CntSize - 1 -> R!Bytes]
<1>1. n \in R!Bytes
  BY Numbers
<1> QED BY <1>1

LEMMA BlankLog ==
  ASSUME R!ResetAssumption
  PROVE  /\ Log(R!BlankSector, 0, R!BlankByte)
         /\ R!BlankSector \in [0 .. CntSize - 1 -> R!Bytes]
  BY Numbers DEF R!BlankSector, Log, R!ResetAssumption

LEMMA ClearedLog ==
  ASSUME NEW c \in [0 .. CntSize - 1 -> R!Bytes], NEW k \in 0 .. CleanIdx - 1, NEW v \in Words,
         Log(c, k, v), R!ResetAssumption
  PROVE  Log([c EXCEPT ![k] = 0], k + 1, R!BlankByte)
  BY Numbers DEF Log, R!ResetAssumption

LEMMA CountedLog ==
  ASSUME NEW c \in [0 .. CntSize - 1 -> R!Bytes], NEW k \in 0 .. CleanIdx - 1,
         Log(c, k, R!BlankByte), NEW n \in Counts, R!ResetAssumption
  PROVE  Log([c EXCEPT ![k] = n], k, n)
  BY Numbers DEF Log, R!ResetAssumption

\* Nothing can be programmed over a cleared byte.
LEMMA SameLog ==
  ASSUME NEW c \in [0 .. CntSize - 1 -> R!Bytes], NEW k \in 0 .. CleanIdx, NEW v \in Words,
         Log(c, k, v), NEW i \in 0 .. k - 1, R!ResetAssumption
  PROVE  [c EXCEPT ![i] = 0] = c
  BY Numbers DEF Log, R!ResetAssumption

-------------------------------------------------------------------------------
(* The sessions.                                                           *)

\* One more session of the right length.
LEMMA OneMore ==
  ASSUME NEW g \in Seq(R!Times), Len(g) <= 5, NEW m \in 0 .. 4, Part(g, m),
         NEW t \in R!Times, Fits(t, m + 1)
  PROVE  Part(R!LastFive(Append(g, t)), m + 1)
<1> DEFINE h == Append(g, t)
           r == R!LastFive(h)
<1>1. /\ h \in Seq(R!Times) /\ Len(h) = Len(g) + 1 /\ h[Len(g) + 1] = t
      /\ \A i \in 1 .. Len(g) : h[i] = g[i]
  OBVIOUS
<1>2. /\ r \in Seq(R!Times)
      /\ \/ Len(g) < 5 /\ Len(r) = Len(g) + 1 /\ \A i \in 1 .. Len(r) : r[i] = h[i]
         \/ Len(g) = 5 /\ Len(r) = 5 /\ \A i \in 1 .. 5 : r[i] = h[i + 1]
  <2>1. CASE Len(g) < 5
    BY <1>1, <2>1 DEF R!LastFive
  <2>2. CASE Len(g) = 5
    <3>1. r = Tail(h) /\ h # <<>>
      BY <1>1, <2>2 DEF R!LastFive
    <3> HIDE DEF h, r
    <3>2. r \in Seq(R!Times) /\ Len(r) = 5
      BY <1>1, <2>2, <3>1
    <3>3. \A i \in 1 .. 5 : r[i] = h[i + 1]
      BY <2>2, <3>1, <3>2, <1>1, HeadTailProperties
    <3> QED BY <2>2, <3>2, <3>3
  <2>3. \A l \in Nat : l <= 5 => l < 5 \/ l = 5
    OBVIOUS
  <2>4. Len(g) \in Nat
    OBVIOUS
  <2> HIDE DEF h, r
  <2> QED BY <2>1, <2>2, <2>3, <2>4, Zenon
<1>3. Len(r) >= m + 1 /\ r[Len(r)] = t
  <2> HIDE DEF h, r
  <2> QED BY <1>1, <1>2 DEF Part
<1>4. ASSUME NEW j \in 1 .. m + 1
      PROVE  Fits(r[Len(r) - (m + 1) + j], j)
  <2>1. CASE j = m + 1
    BY <1>3, <2>1
  <2>2. CASE j <= m
    <3>1. Fits(g[Len(g) - m + j], j) /\ Len(g) >= m
      BY <2>2 DEF Part
    <3>2. r[Len(r) - (m + 1) + j] = g[Len(g) - m + j]
      <4> DEFINE i == Len(r) - (m + 1) + j
      <4> HIDE DEF h, r
      <4>1. CASE Len(g) < 5 /\ Len(r) = Len(g) + 1 /\ \A a \in 1 .. Len(r) : r[a] = h[a]
        <5>1. i = Len(g) - m + j /\ i \in 1 .. Len(g)
          BY <2>2, <3>1, <4>1
        <5> QED BY <1>1, <4>1, <5>1
      <4>2. CASE Len(g) = 5 /\ Len(r) = 5 /\ \A a \in 1 .. 5 : r[a] = h[a + 1]
        <5>1. i + 1 = Len(g) - m + j /\ i + 1 \in 1 .. Len(g) /\ i \in 1 .. 5
          BY <2>2, <3>1, <4>2
        <5> QED BY <1>1, <4>2, <5>1
      <4> QED BY <1>2, <4>1, <4>2
    <3> QED BY <3>1, <3>2
  <2> QED BY <2>1, <2>2
<1> HIDE DEF r
<1>5. Part(r, m + 1)
  BY <1>3, <1>4 DEF Part
<1> QED BY <1>5 DEF r

LEMMA LastFiveType ==
  ASSUME NEW g \in Seq(R!Times), Len(g) <= 5, NEW t \in R!Times
  PROVE  R!LastFive(Append(g, t)) \in Seq(R!Times) /\ Len(R!LastFive(Append(g, t))) <= 5
<1> DEFINE h == Append(g, t)
<1>1. h \in Seq(R!Times) /\ Len(h) = Len(g) + 1 /\ h # <<>>
  OBVIOUS
<1> HIDE DEF h
<1>2. Tail(h) \in Seq(R!Times) /\ Len(Tail(h)) = Len(h) - 1
  BY <1>1
<1>3. R!LastFive(h) \in Seq(R!Times) /\ Len(R!LastFive(h)) <= 5
  BY <1>1, <1>2 DEF R!LastFive
<1> QED BY <1>3 DEF h

\* Power may be lost anywhere in a session: an even count says what the
\* sessions were.
LEMMA SessionEarned ==
  ASSUME ResetType, NEW k \in 0 .. CleanIdx, NEW v \in Words, Session(k, v)
  PROVE  Earned(v, IF touched THEN R!LastFive(Append(gesture, clock)) ELSE gesture)
<1> DEFINE g == IF touched THEN R!LastFive(Append(gesture, clock)) ELSE gesture
<1>1. ASSUME NEW m \in 0 .. 4, First(k, v, m), NEW n \in 1 .. 5, v = 2 * n
      PROVE  Part(g, n)
  <2>1. v \in {2 * m, R!BlankByte, 2 * m + 1}
    BY <1>1 DEF First, Counting
  <2>2. n = m
    BY <1>1, <2>1, Numbers
  <2>3. ~touched /\ Part(gesture, m)
    BY <1>1, <2>2 DEF First
  <2> QED BY <2>2, <2>3
<1>2. ASSUME NEW m \in 0 .. 4, Second(k, v, m), NEW n \in 1 .. 5, v = 2 * n
      PROVE  Part(g, n)
  <2>1. v \in {2 * m + 1, R!BlankByte} \/ (v = 2 * m + 2 /\ touched)
    BY <1>2 DEF Second, Counting
  <2>2. n = m + 1 /\ touched
    BY <1>2, <2>1, Numbers
  <2>3. Part(gesture, m) /\ Fits(clock, m + 1)
    BY <1>2 DEF Second
  <2> QED BY <2>2, <2>3, OneMore DEF ResetType
<1>3. ASSUME Lost(k, v) \/ v = R!BlankByte, NEW n \in 1 .. 5
      PROVE  v # 2 * n
  BY <1>3, Numbers DEF Lost
<1> HIDE DEF g
<1>4. \A n \in 1 .. 5 : v = 2 * n => Part(g, n)
  BY <1>1, <1>2, <1>3 DEF Session
<1> QED BY <1>4 DEF Earned, g

\* A flash operation of increase_reset_cnt.
LEMMA CountingStep ==
  ASSUME ResetType, R!ResetAssumption, R!CntStep, NEW n \in Counts,
         NEW k \in 0 .. CleanIdx, NEW v \in Words, Log(cnt, k, v), Counting(k, v, n)
  PROVE  \E k2 \in 0 .. CleanIdx, v2 \in {R!BlankByte, n} :
           Log(cnt', k2, v2) /\ Counting(k2, v2, n)' /\ (ResetType)'
<1>0. /\ mode = "run" /\ mode' = "run" /\ todo # <<>>
      /\ UNCHANGED <<clear_st, checkTime, clock, gestureReset, partial, gesture>>
  BY DEF R!CntStep
<1>1. CASE /\ todo = <<R!RESET_CNT_INVALID, R!NextByte, n>> /\ v = n - 1 /\ k = idx
  <2>1. Head(todo) = 0 /\ Tail(todo) = <<R!NextByte, n>>
    BY <1>1, Tuples, Numbers
  <2>2. idx \in 0 .. CleanIdx - 1 /\ v # R!BlankByte /\ cnt[idx] = v
    BY <1>1, Numbers DEF Log, ResetType, R!ResetAssumption
  <2>3. /\ cnt' = [cnt EXCEPT ![idx] = 0] /\ todo' = <<R!NextByte, n>> /\ touched' = TRUE /\ idx' = idx
    <3>1. Head(todo) # R!NextByte /\ ~R!NeedsClean
      BY <2>1, <2>2, Numbers DEF R!NeedsClean, R!ResetAssumption
    <3>2. cnt' = [cnt EXCEPT ![idx] = R!Program(@, 0)]
      BY <2>1, <3>1 DEF R!CntStep
    <3>3. R!Program(cnt[idx], 0) = 0
      BY DEF R!Program
    <3>4. todo' = Tail(todo) /\ touched' = TRUE /\ idx' = idx
      BY <3>1 DEF R!CntStep
    <3> QED BY <2>1, <3>2, <3>3, <3>4
  <2>4. Log(cnt', k + 1, R!BlankByte)
    BY <1>1, <2>2, <2>3, ClearedLog DEF ResetType
  <2>5. Counting(k + 1, R!BlankByte, n)'
    BY <1>1, <2>3 DEF Counting
  <2>6. ResetType'
    BY <1>0, <2>3, WrittenByte DEF ResetType
  <2>7. k + 1 \in 0 .. CleanIdx
    BY <1>1, <2>2 DEF R!ResetAssumption
  <2> QED BY <2>4, <2>5, <2>6, <2>7, Zenon
<1>2. CASE todo = <<R!NextByte, n>> /\ v = R!BlankByte /\ k = idx + 1
  <2>1. Head(todo) = R!NextByte /\ Tail(todo) = <<n>>
    BY <1>2, Tuples
  <2>2. cnt' = cnt /\ todo' = <<n>> /\ touched' = touched /\ idx' = k
    BY <1>2, <2>1 DEF R!CntStep
  <2>3. Counting(k, R!BlankByte, n)'
    BY <2>2 DEF Counting
  <2>4. ResetType'
    BY <1>0, <2>2 DEF ResetType
  <2> QED BY <1>2, <2>2, <2>3, <2>4
<1>3. CASE todo = <<n>> /\ v = R!BlankByte /\ k = idx
  <2>1. Head(todo) = n /\ Tail(todo) = <<>> /\ n # R!NextByte
    BY <1>3, Tuples, Numbers
  <2>2. CASE idx = CleanIdx
    <3>1. cnt' = R!BlankSector /\ idx' = 0 /\ touched' = TRUE /\ todo' = todo
      BY <2>1, <2>2 DEF R!CntStep, R!NeedsClean, R!ResetAssumption
    <3>2. Log(cnt', 0, R!BlankByte) /\ Counting(0, R!BlankByte, n)'
      BY <1>3, <3>1, BlankLog DEF Counting
    <3>3. ResetType'
      BY <1>0, <3>1, BlankLog DEF ResetType, R!ResetAssumption
    <3> QED BY <3>2, <3>3 DEF R!ResetAssumption
  <2>3. CASE idx # CleanIdx
    <3>1. idx \in 0 .. CleanIdx - 1 /\ cnt[idx] = R!BlankByte
      BY <1>3, <2>3 DEF Log, ResetType, R!ResetAssumption
    <3>2. /\ cnt' = [cnt EXCEPT ![idx] = n] /\ todo' = <<>> /\ touched' = TRUE /\ idx' = idx
      <4>1. Head(todo) # R!NextByte /\ ~R!NeedsClean
        BY <2>1, <3>1 DEF R!NeedsClean, R!ResetAssumption
      <4>2. cnt' = [cnt EXCEPT ![idx] = R!Program(@, n)]
        BY <2>1, <4>1 DEF R!CntStep
      <4>3. R!Program(cnt[idx], n) = n
        BY <3>1 DEF R!Program
      <4>4. todo' = Tail(todo) /\ touched' = TRUE /\ idx' = idx
        BY <4>1 DEF R!CntStep
      <4> QED BY <2>1, <4>2, <4>3, <4>4
    <3>3. Log(cnt', k, n)
      BY <1>3, <3>1, <3>2, CountedLog DEF ResetType
    <3>4. Counting(k, n, n)'
      BY <1>3, <3>2 DEF Counting
    <3>5. ResetType'
      BY <1>0, <3>2, WrittenByte DEF ResetType
    <3> QED BY <3>3, <3>4, <3>5, Zenon
  <2> QED BY <2>2, <2>3
<1> QED BY <1>0, <1>1, <1>2, <1>3 DEF Counting

\* Clearing a byte that is cleared, or programming it.
LEMMA OverCleared ==
  ASSUME ResetType, R!ResetAssumption, R!CntStep, NEW w \in {0, 1}, NEW rest,
         Head(todo) = w, Tail(todo) = rest,
         NEW k \in 0 .. CleanIdx, NEW v \in Words, Log(cnt, k, v), k = idx + 1
  PROVE  cnt' = cnt /\ todo' = rest /\ idx' = idx
<1>1. w # R!NextByte /\ ~R!NeedsClean /\ idx \in 0 .. k - 1 /\ cnt[idx] = 0
  BY Numbers DEF R!NeedsClean, R!ResetAssumption, ResetType, Log
<1>2. cnt' = [cnt EXCEPT ![idx] = R!Program(@, w)] /\ todo' = rest /\ idx' = idx
  BY <1>1 DEF R!CntStep
<1>3. R!Program(cnt[idx], w) = 0
  BY <1>1, Numbers DEF R!Program
<1> QED BY <1>1, <1>2, <1>3, SameLog DEF ResetType

\* Clearing the byte that counts.
LEMMA ClearsCount ==
  ASSUME ResetType, R!ResetAssumption, R!CntStep, NEW rest, Head(todo) = 0, Tail(todo) = rest,
         NEW k \in 0 .. CleanIdx, NEW v \in Counts, Log(cnt, k, v), k = idx
  PROVE  /\ k + 1 \in 0 .. CleanIdx /\ Log(cnt', k + 1, R!BlankByte)
         /\ cnt' \in [0 .. CntSize - 1 -> R!Bytes]
         /\ todo' = rest /\ idx' = idx
<1>1. /\ Head(todo) # R!NextByte /\ ~R!NeedsClean /\ k \in 0 .. CleanIdx - 1
      /\ v # R!BlankByte /\ cnt[idx] = v /\ v \in Words /\ k + 1 \in 0 .. CleanIdx
  BY Numbers DEF R!NeedsClean, R!ResetAssumption, ResetType, Log
<1>2. cnt' = [cnt EXCEPT ![idx] = R!Program(@, 0)] /\ todo' = rest /\ idx' = idx
  BY <1>1 DEF R!CntStep
<1>3. R!Program(cnt[idx], 0) = 0
  BY DEF R!Program
<1>4. cnt' = [cnt EXCEPT ![k] = 0]
  BY <1>2, <1>3
<1>5. cnt \in [0 .. CntSize - 1 -> R!Bytes]
  BY DEF ResetType
<1>6. Log(cnt', k + 1, R!BlankByte)
  BY <1>1, <1>4, <1>5, ClearedLog
<1>7. cnt' \in [0 .. CntSize - 1 -> R!Bytes]
  BY <1>4, <1>5, WrittenByte
<1> QED BY <1>1, <1>2, <1>6, <1>7

LEMMA CntStepFrame ==
  ASSUME R!CntStep
  PROVE  /\ mode = "run" /\ mode' = "run" /\ todo # <<>>
         /\ UNCHANGED <<clear_st, checkTime, clock, gestureReset, partial, gesture>>
  BY DEF R!CntStep

LEMMA LostStep ==
  ASSUME ResetType, R!ResetAssumption, R!CntStep,
         NEW k \in 0 .. CleanIdx, NEW v \in Words, Log(cnt, k, v), Lost(k, v)
  PROVE  \E k2 \in 0 .. CleanIdx :
           Log(cnt', k2, R!BlankByte) /\ Lost(k2, R!BlankByte)' /\ (ResetType)'
<1>1. CASE todo = <<R!RESET_CNT_INVALID, 1>> /\ v \in Counts /\ k = idx
  <2>1. Head(todo) = 0 /\ Tail(todo) = <<1>>
    BY <1>1, Tuples, Numbers
  <2>2. /\ k + 1 \in 0 .. CleanIdx /\ Log(cnt', k + 1, R!BlankByte)
        /\ cnt' \in [0 .. CntSize - 1 -> R!Bytes] /\ todo' = <<1>> /\ idx' = idx
    BY <1>1, <2>1, ClearsCount
  <2>3. Lost(k + 1, R!BlankByte)'
    BY <1>1, <2>2 DEF Lost
  <2>4. ResetType'
    BY <2>2, CntStepFrame DEF ResetType
  <2> QED BY <2>2, <2>3, <2>4
<1>2. CASE todo = <<1>> /\ v = R!BlankByte /\ k = idx + 1
  <2>1. Head(todo) = 1 /\ Tail(todo) = <<>>
    BY <1>2, Tuples
  <2>2. cnt' = cnt /\ todo' = <<>> /\ idx' = idx
    BY <1>2, <2>1, OverCleared
  <2>3. Lost(k, R!BlankByte)'
    BY <1>2, <2>2 DEF Lost
  <2>4. ResetType'
    BY <2>2, CntStepFrame DEF ResetType
  <2> QED BY <1>2, <2>2, <2>3, <2>4
<1> QED BY <1>1, <1>2, CntStepFrame DEF Lost

\* factory_reset_cnt_check is over with the session: the byte is cleared.
LEMMA EndStep ==
  ASSUME ResetType, R!ResetAssumption, R!CntStep, todo = <<R!RESET_CNT_INVALID>>,
         NEW k \in 0 .. CleanIdx, NEW v \in Words, Log(cnt, k, v),
         \/ v \in Counts /\ k = idx
         \/ v = R!BlankByte /\ k = idx + 1
  PROVE  /\ \E k2 \in 0 .. CleanIdx : Log(cnt', k2, R!BlankByte) /\ k2 = idx' + 1
         /\ todo' = <<>> /\ (ResetType)'
<1>1. Head(todo) = 0 /\ Tail(todo) = <<>>
  BY Tuples, Numbers
<1>2. CASE v \in Counts /\ k = idx
  <2>1. /\ k + 1 \in 0 .. CleanIdx /\ Log(cnt', k + 1, R!BlankByte)
        /\ cnt' \in [0 .. CntSize - 1 -> R!Bytes] /\ todo' = <<>> /\ idx' = idx
    BY <1>1, <1>2, ClearsCount
  <2>2. ResetType'
    BY <2>1, CntStepFrame DEF ResetType
  <2> QED BY <1>2, <2>1, <2>2
<1>3. CASE v = R!BlankByte /\ k = idx + 1
  <2>1. cnt' = cnt /\ todo' = <<>> /\ idx' = idx
    BY <1>1, <1>3, OverCleared
  <2>2. ResetType'
    BY <2>1, CntStepFrame DEF ResetType
  <2> QED BY <1>3, <2>1, <2>2
<1> QED BY <1>2, <1>3

\* Outside the erasing, and once a session has begun, no reset is in progress.
LEMMA InSession ==
  ASSUME NEW k, NEW v, Story(k, v), mode = "run", clear_st # 4
  PROVE  Session(k, v) /\ ~gestureReset /\ ~partial
  BY DEF Story, Fresh

LEMMA InSessionNext ==
  ASSUME ResetType', mode' = "run", ~gestureReset', ~partial',
         NEW k \in 0 .. CleanIdx, NEW v \in Words, Log(cnt', k, v), Session(k, v)'
  PROVE  ResetInv'
<1>1. Story(k, v)'
  BY DEF Story
<1> QED BY <1>1 DEF ResetInv

LEMMA CntStepKeeps ==
  ASSUME ResetType, R!ResetAssumption, NEW k \in 0 .. CleanIdx, NEW v \in Words, Story(k, v),
         R!CntStep
  PROVE  ResetInv'
<1>1. /\ mode = "run" /\ mode' = "run" /\ todo # <<>>
      /\ UNCHANGED <<clear_st, checkTime, clock, gestureReset, partial, gesture>>
  BY CntStepFrame
<1>2. /\ Log(cnt, k, v) /\ Session(k, v) /\ ~gestureReset' /\ ~partial'
      /\ R!BlankByte \in Words /\ Counts \subseteq Words
  <2>1. clear_st # 4
    BY <1>1 DEF Story, Fresh, Session, First, Second
  <2> QED BY <1>1, <2>1, InSession DEF Story, Words
<1>3. ASSUME NEW m \in 0 .. 4, First(k, v, m)
      PROVE  ResetInv'
  <2>1. 2 * m + 1 \in Counts /\ 2 * m + 1 # 2 * m /\ R!BlankByte # 2 * m
    BY Numbers
  <2>2. Counting(k, v, 2 * m + 1) /\ clear_st = 3
    BY <1>1, <1>3 DEF First
  <2>3. PICK k2 \in 0 .. CleanIdx, v2 \in {R!BlankByte, 2 * m + 1} :
          Log(cnt', k2, v2) /\ Counting(k2, v2, 2 * m + 1)' /\ (ResetType)'
    BY <1>2, <2>1, <2>2, CountingStep
  <2>4. First(k2, v2, m)'
    BY <1>1, <1>3, <2>1, <2>2, <2>3 DEF First
  <2>5. Session(k2, v2)'
    BY <1>1, <1>2, <2>4 DEF Session
  <2> QED BY <1>1, <1>2, <2>1, <2>3, <2>5, InSessionNext
<1>4. ASSUME NEW m \in 0 .. 4, Second(k, v, m), clear_st = 1
      PROVE  ResetInv'
  <2>1. 2 * m + 2 \in Counts
    BY Numbers
  <2>2. Counting(k, v, 2 * m + 2)
    BY <1>4 DEF Second
  <2>3. PICK k2 \in 0 .. CleanIdx, v2 \in {R!BlankByte, 2 * m + 2} :
          Log(cnt', k2, v2) /\ Counting(k2, v2, 2 * m + 2)' /\ (ResetType)'
    BY <1>2, <2>1, <2>2, CountingStep
  <2>4. Second(k2, v2, m)'
    BY <1>1, <1>4, <2>3 DEF Second
  <2>5. Session(k2, v2)'
    BY <1>1, <1>2, <2>4 DEF Session
  <2> QED BY <1>1, <1>2, <2>1, <2>3, <2>5, InSessionNext
<1>5. CASE clear_st = 0 /\ todo = <<R!RESET_CNT_INVALID>>
           /\ ((v \in Counts /\ k = idx) \/ (v = R!BlankByte /\ k = idx + 1))
  <2>1. PICK k2 \in 0 .. CleanIdx : Log(cnt', k2, R!BlankByte) /\ k2 = idx' + 1
    BY <1>2, <1>5, EndStep
  <2>2. todo' = <<>> /\ ResetType'
    BY <1>2, <1>5, EndStep
  <2>3. Session(k2, R!BlankByte)'
    BY <1>1, <1>2, <1>5, <2>1, <2>2 DEF Session
  <2> QED BY <1>1, <1>2, <2>1, <2>2, <2>3, InSessionNext
<1>6. CASE clear_st \in {1, 3} /\ Lost(k, v)
  <2>1. PICK k2 \in 0 .. CleanIdx :
          Log(cnt', k2, R!BlankByte) /\ Lost(k2, R!BlankByte)' /\ (ResetType)'
    BY <1>2, <1>6, LostStep
  <2>2. Session(k2, R!BlankByte)'
    BY <1>1, <1>2, <1>6, <2>1 DEF Session
  <2> QED BY <1>1, <1>2, <2>1, <2>2, InSessionNext
<1>7. ASSUME NEW m \in 0 .. 4, Second(k, v, m), clear_st = 0
      PROVE  ResetInv'
  <2>1. v \in Counts /\ k = idx /\ todo = <<R!RESET_CNT_INVALID>>
    BY <1>7, Numbers DEF Second
  <2> QED BY <1>5, <1>7, <2>1
<1>8. \A m \in 0 .. 4 : Second(k, v, m) => clear_st \in {0, 1}
  BY DEF Second
<1> QED BY <1>1, <1>2, <1>3, <1>4, <1>5, <1>6, <1>7, <1>8 DEF Session

LEMMA HandleKeeps ==
  ASSUME ResetType, R!ResetAssumption, NEW k \in 0 .. CleanIdx, NEW v \in Words, Story(k, v),
         R!Handle
  PROVE  ResetInv'
<1>1. /\ mode = "run" /\ clear_st = 4 /\ clear_st' = 3 /\ todo = <<>> /\ clock >= 50
      /\ UNCHANGED <<cnt, checkTime, clock, partial, touched, gesture>>
  BY Numbers DEF R!Handle, R!CheckReady
<1>2. Fresh(v) /\ Log(cnt, k, v) /\ (gestureReset \/ partial => Started(v))
  BY <1>1 DEF Story, Session, First, Second
<1>3. clock = 50 /\ ~touched /\ Earned(v, gesture)
  BY <1>1, <1>2, Numbers DEF Fresh, ResetType, R!Times
<1>4. PICK i \in 0 .. CntSize - 1 :
        /\ R!IsCntIdx(i) /\ idx' = i
        /\ IF cnt[i] = R!RESET_TRIGGER_VAL
           THEN mode' = "erase" /\ gestureReset' = TRUE /\ UNCHANGED todo
           ELSE /\ todo' = IF R!InvalidCnt(cnt[i]) THEN R!Clear \o R!Increase(R!RESET_CNT_INVALID)
                           ELSE R!Increase(cnt[i])
                /\ UNCHANGED <<mode, gestureReset>>
  BY DEF R!Handle
<1>5. i = k /\ cnt[k] = v
  BY <1>2, <1>4, FirstCount
<1>6. CASE v = R!RESET_TRIGGER_VAL
  <2>1. mode' = "erase" /\ gestureReset' = TRUE /\ todo' = todo /\ idx' = k
    BY <1>4, <1>5, <1>6
  <2>2. Part(gesture, 5)
    BY <1>3, <1>6, Numbers DEF Earned
  <2>3. Started(v)'
    BY <1>1, <1>3, <1>6, <2>2 DEF Started
  <2>4. Log(cnt', k, v)
    BY <1>1, <1>2
  <2>5. Story(k, v)'
    BY <2>1, <2>3, <2>4 DEF Story
  <2>6. ResetType'
    BY <1>1, <2>1 DEF ResetType
  <2> QED BY <2>5, <2>6 DEF ResetInv
<1>7. CASE v # R!RESET_TRIGGER_VAL
  <2>1. /\ mode' = "run" /\ idx' = k /\ ~gestureReset /\ ~partial /\ gestureReset' = gestureReset
        /\ todo' = IF R!InvalidCnt(v) THEN R!Clear \o R!Increase(R!RESET_CNT_INVALID)
                   ELSE R!Increase(v)
    BY <1>1, <1>2, <1>4, <1>5, <1>7 DEF Started
  <2>2. ResetType'
    BY <1>1, <2>1 DEF ResetType
  <2>3. ~partial' /\ ~gestureReset' /\ Log(cnt', k, v)
    BY <1>1, <1>2, <2>1
  <2>4. CASE v \in Counts /\ v % 2 = 1
    <3>1. todo' = <<R!RESET_CNT_INVALID, 1>>
      BY <2>1, <2>4, ToDo, Numbers DEF R!InvalidCnt
    <3>2. Lost(k, v)'
      BY <2>1, <2>4, <3>1 DEF Lost
    <3>3. Session(k, v)'
      BY <1>1, <3>2, Numbers DEF Session
    <3> QED BY <2>1, <2>2, <2>3, <3>3, InSessionNext
  <2>5. CASE v = R!BlankByte
    <3>1. todo' = <<1>> /\ R!BlankByte # 2 * 0 /\ 2 * 0 + 1 = 1
      BY <2>1, <2>5, ToDo, Numbers DEF R!InvalidCnt
    <3>2. Counting(k, v, 1)'
      BY <2>1, <2>5, <3>1 DEF Counting
    <3>3. Part(gesture', 0)
      <4>1. Len(gesture') \in Nat
        BY <1>1 DEF ResetType
      <4> QED BY <4>1 DEF Part
    <3>4. First(k, v, 0)'
      BY <1>1, <1>3, <2>5, <3>1, <3>2, <3>3, Numbers DEF First
    <3>5. Session(k, v)'
      BY <1>1, <3>4, Numbers DEF Session
    <3> QED BY <2>1, <2>2, <2>3, <3>5, InSessionNext
  <2>6. CASE v \in Counts /\ v % 2 = 0
    <3>1. PICK m \in 1 .. 4 : v = 2 * m
      BY <1>7, <2>6, Numbers
    <3>2. todo' = <<0, -1, v + 1>>
      BY <2>1, <2>6, ToDo, Numbers DEF R!InvalidCnt
    <3>3. Counting(k, v, 2 * m + 1)'
      <4>1. v + 1 = 2 * m + 1 /\ v = (2 * m + 1) - 1
        BY <3>1
      <4>2. todo' = <<R!RESET_CNT_INVALID, R!NextByte, 2 * m + 1>>
        BY <3>2, <4>1, Numbers
      <4> QED BY <2>1, <4>1, <4>2 DEF Counting
    <3>4. Part(gesture, m)
      BY <1>3, <3>1 DEF Earned
    <3>5. First(k, v, m)'
      BY <1>1, <1>3, <3>1, <3>3, <3>4, Numbers DEF First
    <3>6. Session(k, v)'
      BY <1>1, <3>5, Numbers DEF Session
    <3> QED BY <2>1, <2>2, <2>3, <3>6, InSessionNext
  <2>7. v = R!BlankByte \/ (v \in Counts /\ v % 2 = 0) \/ (v \in Counts /\ v % 2 = 1)
    BY Numbers
  <2> QED BY <2>4, <2>5, <2>6, <2>7
<1> QED BY <1>6, <1>7

LEMMA SerialOf ==
  ASSUME NEW n \in Counts
  PROVE  R!SerialTimes(n) = {Serial(n)} /\ R!CntAfterIncrease(n) = n + 1
  BY Numbers DEF R!SerialTimes, Serial, Counts, R!CntAfterIncrease

\* What a session with nothing to write is.
LEMMA Waiting ==
  ASSUME NEW k \in 0 .. CleanIdx, NEW v \in Words, Session(k, v), todo = <<>>
  PROVE  \/ \E m \in 0 .. 4 :
              /\ First(k, v, m)
              /\ v = 2 * m + 1 /\ v \in Counts /\ k = idx /\ touched
         \/ \E m \in 0 .. 4 :
              /\ Second(k, v, m) /\ clear_st = 1
              /\ v = 2 * m + 2 /\ v \in Counts /\ k = idx /\ touched
         \/ Lost(k, v) /\ clear_st \in 1 .. 3 /\ v = R!BlankByte /\ k = idx + 1
         \/ clear_st = 0 /\ v = R!BlankByte /\ k = idx + 1
<1>1. ASSUME NEW m \in 0 .. 4, NEW n, Counting(k, v, n)
      PROVE  v = n /\ k = idx /\ touched
  BY <1>1, Tuples DEF Counting
<1>2. ASSUME NEW m \in 0 .. 4, First(k, v, m)
      PROVE  v = 2 * m + 1 /\ v \in Counts /\ k = idx /\ touched
  BY <1>1, <1>2, Numbers DEF First
<1>3. ASSUME NEW m \in 0 .. 4, Second(k, v, m)
      PROVE  clear_st = 1 /\ v = 2 * m + 2 /\ v \in Counts /\ k = idx /\ touched
  BY <1>1, <1>3, Tuples, Numbers DEF Second
<1>4. ASSUME Lost(k, v)
      PROVE  v = R!BlankByte /\ k = idx + 1
  BY <1>4, Tuples DEF Lost
<1> QED BY <1>2, <1>3, <1>4 DEF Session

LEMMA SetFirstTimeKeeps ==
  ASSUME ResetType, R!ResetAssumption, NEW k \in 0 .. CleanIdx, NEW v \in Words, Story(k, v),
         R!SetFirstTime
  PROVE  ResetInv'
<1>1. /\ mode = "run" /\ mode' = "run" /\ clear_st = 3 /\ clear_st' = 2 /\ todo = <<>>
      /\ checkTime' \in R!SerialTimes(cnt[idx])
      /\ UNCHANGED <<cnt, idx, todo, clock, gestureReset, partial, touched, gesture>>
  BY DEF R!SetFirstTime, R!CheckReady, R!GetResetCnt, R!counter, R!history
<1>2. Session(k, v) /\ ~gestureReset' /\ ~partial' /\ Log(cnt, k, v)
  BY <1>1, InSession DEF Story
<1>3. ResetType' /\ Log(cnt', k, v)
  BY <1>1, <1>2 DEF ResetType
<1>4. ASSUME NEW m \in 0 .. 4, First(k, v, m), v = 2 * m + 1, v \in Counts, k = idx, touched
      PROVE  Session(k, v)'
  <2>1. checkTime' = Serial(2 * m + 1)
    BY <1>1, <1>2, <1>4, SerialOf DEF Log
  <2>2. First(k, v, m)'
    BY <1>1, <1>4, <2>1, Numbers DEF First, Counting
  <2> QED BY <1>1, <1>2, <2>2 DEF Session
<1>5. ASSUME Lost(k, v) PROVE Session(k, v)'
  BY <1>1, <1>2, <1>5 DEF Session, Lost
<1>6. Session(k, v)'
  BY <1>1, <1>2, <1>4, <1>5, Waiting
<1> QED BY <1>1, <1>2, <1>3, <1>6, InSessionNext

LEMMA SecondCountKeeps ==
  ASSUME ResetType, R!ResetAssumption, NEW k \in 0 .. CleanIdx, NEW v \in Words, Story(k, v),
         R!SecondCount
  PROVE  ResetInv'
<1>1. /\ mode = "run" /\ mode' = "run" /\ clear_st = 2 /\ clear_st' = 1 /\ todo = <<>>
      /\ clock >= checkTime
      /\ todo' = R!Increase(cnt[idx])
      /\ checkTime' \in R!SerialTimes(R!CntAfterIncrease(cnt[idx]))
      /\ UNCHANGED <<cnt, idx, clock, gestureReset, partial, touched, gesture>>
  BY DEF R!SecondCount, R!CheckReady, R!TimeReached, R!GetResetCnt, R!history
<1>2. Session(k, v) /\ ~gestureReset' /\ ~partial' /\ Log(cnt, k, v)
  BY <1>1, InSession DEF Story
<1>3. ResetType' /\ Log(cnt', k, v)
  BY <1>1, <1>2 DEF ResetType
<1>4. ASSUME NEW m \in 0 .. 4, First(k, v, m), v = 2 * m + 1, v \in Counts, k = idx, touched
      PROVE  Session(k, v)'
  <2>1. cnt[idx] = v /\ v + 1 \in Counts /\ v + 1 = 2 * m + 2 /\ v = (2 * m + 2) - 1
    BY <1>2, <1>4, Numbers DEF Log
  <2>2. checkTime' = Serial(2 * m + 2)
    BY <1>1, <1>4, <2>1, SerialOf
  <2>3. todo' = <<R!RESET_CNT_INVALID, R!NextByte, 2 * m + 2>>
    BY <1>1, <1>4, <2>1, ToDo, Numbers
  <2>4. Counting(k, v, 2 * m + 2)'
    BY <1>1, <1>4, <2>1, <2>3 DEF Counting
  <2>5. Fits(clock, m + 1)
    <3>1. /\ Serial(2 * m + 1) <= clock /\ (clock <= 50 \/ clock <= Serial(2 * m + 1))
          /\ clock >= 50
      BY <1>1, <1>2, <1>4, Numbers DEF First, Session
    <3>2. clock \in Nat
      BY DEF ResetType, R!Times
    <3>3. clock <= Serial(2 * m + 2)
      BY <3>1, <3>2, Table
    <3>4. 2 * (m + 1) - 1 = 2 * m + 1 /\ 2 * (m + 1) = 2 * m + 2
      OBVIOUS
    <3> QED BY <3>1, <3>3, <3>4, Numbers DEF Fits
  <2>6. Second(k, v, m)'
    BY <1>1, <1>4, <2>2, <2>4, <2>5 DEF Second, First
  <2> QED BY <1>1, <1>2, <2>6 DEF Session
<1>5. ASSUME Lost(k, v), v = R!BlankByte, k = idx + 1 PROVE Session(k, v)'
  <2>1. cnt[idx] = 0
    BY <1>2, <1>5, Numbers DEF Log, ResetType, R!ResetAssumption
  <2>2. todo' = <<1>>
    BY <1>1, <2>1, ToDo
  <2>3. Lost(k, v)'
    BY <1>1, <1>5, <2>2 DEF Lost
  <2> QED BY <1>1, <1>2, <2>3 DEF Session
<1>6. Session(k, v)'
  BY <1>1, <1>2, <1>4, <1>5, Waiting
<1> QED BY <1>1, <1>2, <1>3, <1>6, InSessionNext

LEMMA ClearCountKeeps ==
  ASSUME ResetType, R!ResetAssumption, NEW k \in 0 .. CleanIdx, NEW v \in Words, Story(k, v),
         R!ClearCount
  PROVE  ResetInv'
<1>1. /\ mode = "run" /\ mode' = "run" /\ clear_st = 1 /\ clear_st' = 0 /\ todo = <<>>
      /\ todo' = <<R!RESET_CNT_INVALID>>
      /\ UNCHANGED <<cnt, idx, clock, checkTime, gestureReset, partial, touched, gesture>>
  BY DEF R!ClearCount, R!CheckReady, R!Clear, R!history
<1>2. Session(k, v) /\ ~gestureReset' /\ ~partial' /\ Log(cnt, k, v)
  BY <1>1, InSession DEF Story
<1>3. ResetType' /\ Log(cnt', k, v)
  BY <1>1, <1>2 DEF ResetType
<1>4. ASSUME NEW m \in 0 .. 4, Second(k, v, m), v = 2 * m + 2, v \in Counts, k = idx, touched
      PROVE  Session(k, v)'
  <2>1. Second(k, v, m)'
    BY <1>1, <1>4 DEF Second
  <2> QED BY <1>1, <1>2, <2>1 DEF Session
<1>5. ASSUME v = R!BlankByte, k = idx + 1 PROVE Session(k, v)'
  BY <1>1, <1>2, <1>5 DEF Session
<1>6. \A m \in 0 .. 4 : ~First(k, v, m)
  BY <1>1 DEF First
<1>7. Session(k, v)'
  BY <1>1, <1>2, <1>4, <1>5, <1>6, Waiting
<1> QED BY <1>1, <1>2, <1>3, <1>7, InSessionNext

\* Time does not pass a threshold: the check is due there.
LEMMA TickKeeps ==
  ASSUME ResetType, R!ResetAssumption, NEW k \in 0 .. CleanIdx, NEW v \in Words, Story(k, v),
         R!Tick
  PROVE  ResetInv'
<1>1. /\ mode = "run" /\ mode' = "run" /\ todo = <<>> /\ ~R!CheckDue
      /\ UNCHANGED <<cnt, idx, todo, clear_st, checkTime, gestureReset, partial, touched, gesture>>
  BY DEF R!Tick, R!CheckReady, R!counter, R!history
<1>2. PICK t \in R!Times : t > clock /\ (\A u \in R!Times : u > clock => t <= u) /\ clock' = t
  BY DEF R!Tick
<1>3. ResetType' /\ Log(cnt', k, v) /\ clock \in Nat /\ t \in Nat
  BY <1>1, <1>2 DEF ResetType, Story, R!Times
<1>4. CASE Fresh(v)
  <2>1. clock < 50 /\ 50 \in R!Times
    BY <1>1, <1>3, <1>4, Numbers DEF Fresh, R!CheckDue, R!Times
  <2>2. Fresh(v)'
    BY <1>1, <1>2, <1>3, <1>4, <2>1, Numbers DEF Fresh, Earned
  <2>3. Story(k, v)'
    BY <1>1, <1>3, <1>4, <2>2 DEF Story, Started, Fresh
  <2> QED BY <1>3, <2>3 DEF ResetInv
<1>5. CASE Session(k, v) /\ clear_st # 4
  <2>1. ~gestureReset' /\ ~partial' /\ clock' >= R!VALID_POWER_ON_TIME
    BY <1>1, <1>2, <1>3, <1>5, InSession, Numbers DEF Session
  <2>2. ASSUME NEW m \in 0 .. 4, First(k, v, m)
        PROVE  Session(k, v)'
    <3>1. clear_st = 2 /\ checkTime = Serial(2 * m + 1) /\ checkTime \in R!Times
      BY <1>1, <2>2, Table DEF First, R!CheckDue, R!Times
    <3>2. clock < checkTime
      BY <1>1, <1>3, <3>1 DEF R!CheckDue, R!TimeReached, R!Times
    <3>3. clock' <= checkTime
      BY <1>2, <3>1, <3>2
    <3>4. First(k, v, m)'
      BY <1>1, <2>2, <3>1, <3>3 DEF First, Counting
    <3> QED BY <2>1, <3>4 DEF Session
  <2>3. ASSUME NEW m \in 0 .. 4, Second(k, v, m), clear_st = 1
        PROVE  Session(k, v)'
    <3>1. checkTime = Serial(2 * m + 2) /\ checkTime \in R!Times
      BY <2>3, Table DEF Second, R!Times
    <3>2. clock < checkTime
      BY <1>1, <1>3, <2>3, <3>1 DEF R!CheckDue, R!TimeReached, R!Times
    <3>3. clock' <= Serial(2 * m + 2)
      BY <1>2, <3>1, <3>2
    <3>4. Fits(clock', m + 1)
      <4>1. 2 * (m + 1) - 1 = 2 * m + 1 /\ 2 * (m + 1) = 2 * m + 2
        OBVIOUS
      <4>2. Serial(2 * m + 1) <= clock /\ Serial(2 * m + 1) \in Nat
        BY <2>3, <4>1, Table DEF Second, Fits
      <4>3. Serial(2 * m + 1) <= clock'
        BY <1>2, <1>3, <4>2
      <4> QED BY <2>1, <3>3, <4>1, <4>3 DEF Fits
    <3>5. Second(k, v, m)'
      BY <1>1, <2>3, <3>4 DEF Second, Counting
    <3> QED BY <2>1, <3>5 DEF Session
  <2>4. ASSUME Lost(k, v), clear_st \in 1 .. 3 PROVE Session(k, v)'
    BY <1>1, <2>1, <2>4 DEF Session, Lost
  <2>5. ASSUME clear_st = 0, v = R!BlankByte, k = idx + 1 PROVE Session(k, v)'
    BY <1>1, <2>1, <2>5 DEF Session
  <2>6. Session(k, v)'
    BY <1>1, <1>5, <2>2, <2>3, <2>4, <2>5, Waiting
  <2> QED BY <1>1, <1>3, <2>1, <2>6, InSessionNext
<1>6. Fresh(v) \/ (Session(k, v) /\ clear_st # 4)
  BY <1>1 DEF Story, Session, First, Second
<1> QED BY <1>4, <1>5, <1>6

\* Only the marks of the reset in progress change.
LEMMA MarksKeep ==
  ASSUME ResetType, NEW k \in 0 .. CleanIdx, NEW v \in Words, Story(k, v),
         UNCHANGED <<cnt, idx, todo, clear_st, checkTime, clock, touched, gesture>>
  PROVE  /\ mode' \in {"off", "run", "erase"} /\ (mode' = "erase" => todo = <<>>) => ResetType'
         /\ Log(cnt', k, v)
         /\ Fresh(v) => Fresh(v)'
         /\ Session(k, v) => Session(k, v)'
         /\ Started(v) => Started(v)'
<1>1. \A m \in 0 .. 4 : /\ First(k, v, m) => First(k, v, m)'
                        /\ Second(k, v, m) => Second(k, v, m)'
  BY DEF First, Second, Counting
<1>2. Lost(k, v) => Lost(k, v)'
  BY DEF Lost
<1>3. Session(k, v) => Session(k, v)'
  BY <1>1, <1>2 DEF Session
<1> QED BY <1>3 DEF Story, Started, Fresh, Earned, ResetType

LEMMA KickOutKeeps ==
  ASSUME ResetType, NEW k \in 0 .. CleanIdx, NEW v \in Words, Story(k, v), R!KickOut
  PROVE  ResetInv'
<1>1. /\ mode = "run" /\ mode' = "erase" /\ todo = <<>> /\ ~gestureReset' /\ partial' = partial
      /\ UNCHANGED <<cnt, idx, todo, clear_st, checkTime, clock, touched, gesture>>
  BY DEF R!KickOut, R!CheckReady, R!counter
<1>2. Story(k, v)' /\ ResetType'
  BY <1>1, MarksKeep DEF Story
<1> QED BY <1>2 DEF ResetInv

LEMMA EraseAreaKeeps ==
  ASSUME ResetType, NEW k \in 0 .. CleanIdx, NEW v \in Words, Story(k, v), R!EraseArea
  PROVE  ResetInv'
<1>1. /\ mode = "erase" /\ mode' = "erase" /\ partial' = (partial \/ gestureReset)
      /\ UNCHANGED <<cnt, idx, todo, clear_st, checkTime, clock, touched, gesture, gestureReset>>
  BY DEF R!EraseArea, R!counter
<1>2. ResetType' /\ Log(cnt', k, v)
  BY <1>1, MarksKeep DEF ResetType
<1>3. Story(k, v)'
  BY <1>1, <1>2, MarksKeep DEF Story
<1> QED BY <1>2, <1>3 DEF ResetInv

LEMMA EraseCounterKeeps ==
  ASSUME ResetType, R!ResetAssumption, R!EraseCounter
  PROVE  ResetInv'
<1>1. /\ cnt' = R!BlankSector /\ mode' = "run" /\ ~gestureReset' /\ ~partial' /\ gesture' = <<>>
      /\ idx' = 0 /\ todo' = <<>> /\ clear_st' = 4 /\ clock' = 0 /\ ~touched'
  BY DEF R!EraseCounter, R!Boot
<1>2. ResetType'
  BY <1>1, BlankLog DEF ResetType, R!Times, R!ResetAssumption
<1>3. Fresh(R!BlankByte)'
  BY <1>1, Numbers DEF Fresh, Earned
<1>4. Log(cnt', 0, R!BlankByte) /\ 0 \in 0 .. CleanIdx /\ R!BlankByte \in Words
  BY <1>1, BlankLog DEF Words, R!ResetAssumption
<1>5. Story(0, R!BlankByte)'
  BY <1>1, <1>3, <1>4 DEF Story
<1> QED BY <1>2, <1>4, <1>5 DEF ResetInv

LEMMA PowerLossKeeps ==
  ASSUME ResetType, NEW k \in 0 .. CleanIdx, NEW v \in Words, Story(k, v), R!PowerLoss
  PROVE  ResetInv'
<1>1. /\ mode # "off" /\ mode' = "off"
      /\ gesture' = IF touched THEN R!LastFive(Append(gesture, clock)) ELSE gesture
      /\ UNCHANGED <<cnt, idx, todo, clear_st, checkTime, clock, touched, gestureReset, partial>>
  BY DEF R!PowerLoss
<1>2. ResetType'
  <2>1. gesture' \in Seq(R!Times) /\ Len(gesture') <= 5
    BY <1>1, LastFiveType DEF ResetType
  <2> QED BY <1>1, <2>1 DEF ResetType
<1>3. Started(v) => Started(v)' /\ Earned(v, gesture')
  <2> SUFFICES ASSUME Started(v) PROVE Started(v)' /\ Earned(v, gesture')
    OBVIOUS
  <2>1. gesture' = gesture /\ ~touched' /\ v = 10 /\ Part(gesture, 5)
    BY <1>1, Numbers DEF Started
  <2>2. \A m \in 1 .. 5 : v = 2 * m => m = 5
    BY <2>1
  <2> QED BY <2>1, <2>2 DEF Started, Earned
<1>4. Earned(v, gesture')
  <2>1. CASE Fresh(v)
    BY <1>1, <2>1 DEF Fresh
  <2>2. CASE Session(k, v)
    BY <1>1, <2>2, SessionEarned
  <2> QED BY <1>1, <1>3, <2>1, <2>2 DEF Story
<1>5. Story(k, v)'
  BY <1>1, <1>3, <1>4 DEF Story
<1> QED BY <1>2, <1>5 DEF ResetInv

LEMMA PowerOnKeeps ==
  ASSUME ResetType, R!ResetAssumption, NEW k \in 0 .. CleanIdx, NEW v \in Words, Story(k, v),
         R!PowerOn
  PROVE  ResetInv'
<1>1. /\ mode = "off" /\ mode' = "run"
      /\ idx' = 0 /\ todo' = <<>> /\ clear_st' = 4 /\ clock' = 0 /\ ~touched'
      /\ UNCHANGED <<cnt, gestureReset, partial, gesture>>
  BY DEF R!PowerOn, R!Boot
<1>2. ResetType'
  BY <1>1 DEF ResetType, R!Times, R!ResetAssumption
<1>3. Fresh(v)' /\ (Started(v) => Started(v)')
  BY <1>1, Numbers DEF Story, Fresh, Started
<1>4. Story(k, v)'
  BY <1>1, <1>3 DEF Story
<1> QED BY <1>2, <1>4 DEF ResetInv

LEMMA ResetStep ==
  ASSUME ResetInv, R!ResetAssumption, [R!Next]_(R!vars)
  PROVE  ResetInv'
<1>1. PICK k \in 0 .. CleanIdx, v \in Words : Story(k, v)
  BY DEF ResetInv
<1>2. ResetType
  BY DEF ResetInv
<1>3. CASE UNCHANGED R!vars
  <2>1. /\ UNCHANGED <<cnt, idx, todo, clear_st, checkTime, clock, touched, gesture>>
        /\ UNCHANGED <<mode, gestureReset, partial>>
    BY <1>3 DEF R!vars
  <2>2. ResetType' /\ Log(cnt', k, v)
    BY <1>1, <1>2, <2>1, MarksKeep DEF ResetType
  <2>3. Story(k, v)'
    BY <1>1, <1>2, <2>1, <2>2, MarksKeep DEF Story
  <2> QED BY <2>2, <2>3 DEF ResetInv
<1> QED
  BY <1>1, <1>2, <1>3, CntStepKeeps, HandleKeeps, SetFirstTimeKeeps, SecondCountKeeps, ClearCountKeeps,
     TickKeeps, KickOutKeeps, EraseAreaKeeps, EraseCounterKeeps, PowerLossKeeps, PowerOnKeeps
  DEF R!Next

LEMMA ResetInit ==
  ASSUME R!ResetAssumption, R!Init
  PROVE  ResetInv
<1>1. ResetType
  BY BlankLog DEF R!Init, ResetType, R!Times, R!ResetAssumption
<1>2. Story(0, R!BlankByte) /\ 0 \in 0 .. CleanIdx /\ R!BlankByte \in Words
  BY BlankLog, Numbers DEF R!Init, Story, Earned, Words, R!ResetAssumption
<1> QED BY <1>1, <1>2 DEF ResetInv

LEMMA ResetInductive == MCSpec => []ResetInv
<1>1. MCInit => ResetInv
  BY FlashAssumption, ResetInit DEF MCInit
<1>2. [MCNext]_all => [R!Next]_(R!vars)
  BY DEF MCNext, all, sector, R!vars
<1>3. ResetInv /\ [MCNext]_all => ResetInv'
  BY <1>2, FlashAssumption, ResetStep
<1> QED BY <1>1, <1>3, PTL DEF MCSpec

\* ResetOnlyByGesture: whatever the size of the sector, and wherever between two
\* flash operations power is lost, the counter starts a reset only after the
\* five sessions factory_reset_serials asks for.
THEOREM OnlyTheGesture == MCSpec => []ResetOnlyByGesture
<1>1. ASSUME ResetInv, mode = "erase", gestureReset
      PROVE  R!IsGesture(gesture)
  <2>1. Part(gesture, 5) /\ gesture \in Seq(R!Times) /\ Len(gesture) <= 5
    BY <1>1 DEF ResetInv, ResetType, Story, Started
  <2>2. Len(gesture) = 5 /\ \A j \in 1 .. 5 : Fits(gesture[j], j)
    <3>1. Len(gesture) \in Nat /\ Len(gesture) >= 5
      BY <2>1 DEF Part
    <3>2. Len(gesture) = 5
      <4>1. \A l \in Nat : l >= 5 /\ l <= 5 => l = 5
        OBVIOUS
      <4> QED BY <2>1, <3>1, <4>1, Zenon
    <3>3. \A j \in 1 .. 5 : 5 - 5 + j = j
      OBVIOUS
    <3> QED BY <2>1, <3>2, <3>3 DEF Part
  <2> QED BY <2>2 DEF Fits, Serial, R!IsGesture
<1>2. ResetInv => ResetOnlyByGesture
  BY <1>1 DEF ResetOnlyByGesture, R!ResetOnlyByGesture
<1> QED BY <1>2, ResetInductive, PTL

\* CutResetIsResumed: after any power loss in a reset by the gesture the counter
\* is still at its trigger value.
THEOREM CutIsResumed == MCSpec => []CutResetIsResumed
<1>1. ASSUME ResetInv, partial
      PROVE  \E i \in 0 .. CntSize - 1 : R!IsCntIdx(i) /\ cnt[i] = R!RESET_TRIGGER_VAL
  <2>1. PICK k \in 0 .. CleanIdx, v \in Words : Story(k, v)
    BY <1>1 DEF ResetInv
  <2>2. v = R!RESET_TRIGGER_VAL /\ Log(cnt, k, v)
    BY <1>1, <2>1 DEF Story, Started
  <2> QED BY <2>2, FirstCount, FlashAssumption
<1>2. ResetInv => CutResetIsResumed
  BY <1>1 DEF CutResetIsResumed, R!CutResetIsResumed
<1> QED BY <1>2, ResetInductive, PTL

\* CounterHasRoom: the bytes from CleanIdx on are never written, so that a scan
\* always ends on a byte to count in.
THEOREM RoomToCount == MCSpec => []CounterHasRoom
<1>1. ASSUME ResetInv, NEW i \in CleanIdx .. CntSize - 1
      PROVE  cnt[i] = R!BlankByte
  <2>1. PICK k \in 0 .. CleanIdx, v \in Words : Log(cnt, k, v)
    BY <1>1 DEF ResetInv, Story
  <2> QED BY <2>1, FlashAssumption DEF Log, R!ResetAssumption
<1>2. ResetInv => CounterHasRoom
  BY <1>1 DEF CounterHasRoom, R!CounterHasRoom
<1> QED BY <1>2, ResetInductive, PTL
================================================================================
