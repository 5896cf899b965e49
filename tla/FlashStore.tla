------------------------------ MODULE FlashStore ------------------------------
(***************************************************************************)
(* One parameter area of the node's flash: the append-only record log that *)
(* mesh_par_store and mesh_par_retrieve (mesh_node.c) keep in one sector,  *)
(* with a power loss possible before, inside and after every flash         *)
(* operation.                                                              *)
(*                                                                         *)
(* A record is a flag word followed by the parameter.  Programming flash   *)
(* only clears bits; a sector is erased as a whole.  A word interrupted    *)
(* while it is programmed holds bits of the old and of the new value: a    *)
(* flag that is neither 0xFF, SAVE_FLAG_PRE nor SAVE_FLAG is "void" (so is *)
(* a cleared flag), a parameter half programmed is Torn.  Erasing a sector *)
(* is one step.                                                            *)
(***************************************************************************)
EXTENDS Integers

CONSTANTS
  Values,      \* contents a parameter can have
  Default,     \* content given by the program's initialisers
  Blank,       \* content of erased flash
  Torn,        \* content of a parameter whose programming was interrupted
  None,        \* "no record"
  SectorSize,  \* FLASH_SECTOR_SIZE
  ParSize,     \* size of the parameter
  FlagSize     \* SIZE_SAVE_FLAG

ASSUME ValuesAssumption ==
  /\ Default \in Values
  /\ Blank \notin Values /\ Torn \notin Values /\ None \notin Values
  /\ Blank # Torn /\ Blank # None /\ Torn # None
ASSUME SizeAssumption ==
  /\ SectorSize \in Nat /\ ParSize \in Nat \ {0} /\ FlagSize \in Nat \ {0}
  /\ ParSize + FlagSize + FlagSize <= SectorSize

VARIABLES
  flag,    \* flag word of each record
  data,    \* parameter of each record
  cursor,  \* *p_adr, as a record number
  par,     \* the parameter in RAM
  pc,      \* next flash operation of mesh_par_store
  inMap,   \* the area is listed in mesh_save_map[]; never changes
  saved    \* history: what the program was last told is in flash

vars == <<flag, data, cursor, par, pc, inMap, saved>>

RecordSize == ParSize + FlagSize                            \* size_save

\* Records whose flag byte lies in the sector; the last may have no room for
\* its parameter.
Slots == {i \in 0 .. SectorSize : i * RecordSize < SectorSize}

Flags == {"blank", "pre", "save", "void"}
Steps == {"off", "ready", "pre", "data", "save", "clear"}

-------------------------------------------------------------------------------
(* Programming flash.                                                      *)

ProgramFlag(old, new) ==
  IF old = "blank" \/ (old = "pre" /\ new = "save") THEN new ELSE "void"

ProgramData(old, new) == IF old = Blank \/ old = new THEN new ELSE Torn

-------------------------------------------------------------------------------
(* mesh_par_retrieve                                                       *)

\* The scan stops at the first 0xFF flag.
Scanned == {i \in Slots : \A j \in 0 .. i : flag[j] # "blank"}

\* Mutant: the first SAVE_FLAG record met counts.
IsNewestFirstMet(i) ==
  /\ i \in Scanned /\ flag[i] = "save"
  /\ \A j \in Scanned : flag[j] = "save" => i <= j

\* The last SAVE_FLAG record met is the one that counts.
IsNewest(i) ==
  /\ i \in Scanned /\ flag[i] = "save"
  /\ \A j \in Scanned : flag[j] = "save" => j <= i

Retrieved ==
  IF \E i \in Scanned : flag[i] = "save"
  THEN data[CHOOSE i \in Slots : IsNewest(i)]
  ELSE None

\* Where the scan leaves *p_adr: at the first blank flag, or at the last
\* record when the sector has none.
IsScanEnd(i) ==
  /\ i \in Slots
  /\ \A j \in Slots : j < i => flag[j] # "blank"
  /\ flag[i] = "blank" \/ i + 1 \notin Slots

MeshParRetrieve ==
  /\ pc = "off"
  /\ \E i \in Slots : IsScanEnd(i) /\ cursor' = i
  /\ par' = IF Retrieved = None THEN Default ELSE Retrieved
  /\ saved' = Retrieved
  /\ pc' = "ready"
  /\ UNCHANGED <<flag, data>>

-------------------------------------------------------------------------------
(* The program changes the parameter and stores it: mesh_common_store, then*)
(* mesh_par_store one flash operation at a time.                           *)

Change(v) ==
  /\ pc = "ready"
  /\ par' = v
  /\ UNCHANGED <<flag, data, cursor, pc, saved>>

\* No room for a record and, after it, the 0xFF that ends the scan.
SectorFull(c) == c * RecordSize > SectorSize - RecordSize - FlagSize

StoreErase ==
  /\ pc = "ready" /\ SectorFull(cursor)
  /\ flag' = [i \in Slots |-> "blank"]
  /\ data' = [i \in Slots |-> Blank]
  /\ cursor' = 0
  /\ pc' = "pre"
  /\ UNCHANGED <<par, saved>>

\* Only areas of mesh_save_map are compared with the record before the cursor.
SameAsLast == inMap /\ cursor > 0 /\ data[cursor - 1] = par

StoreSkip ==
  /\ pc = "ready" /\ ~SectorFull(cursor) /\ SameAsLast
  /\ saved' = par
  /\ UNCHANGED <<flag, data, cursor, par, pc>>

StoreBegin ==
  /\ pc = "ready" /\ ~SectorFull(cursor) /\ ~SameAsLast
  /\ pc' = "pre"
  /\ UNCHANGED <<flag, data, cursor, par, saved>>

WriteFlag(f, at, next) ==
  /\ pc = at /\ pc' = next
  /\ flag' = [flag EXCEPT ![cursor] = ProgramFlag(@, f)]
  /\ UNCHANGED <<data, cursor, par, saved>>

\* Mutants: no SAVE_FLAG_PRE before the parameter; the last record cleared
\* before the new one is complete.
StorePreFlagOmitted == pc = "pre" /\ pc' = "data" /\ UNCHANGED <<flag, data, cursor, par, saved>>
StorePreFlagClearsLast ==
  /\ pc = "pre" /\ pc' = "data"
  /\ flag' = [i \in Slots |-> CASE i = cursor -> "pre" [] i = cursor - 1 -> "void"
                               [] OTHER -> flag[i]]
  /\ UNCHANGED <<data, cursor, par, saved>>

StorePreFlag == WriteFlag("pre", "pre", "data")

StoreData ==
  /\ pc = "data" /\ pc' = "save"
  /\ data' = [data EXCEPT ![cursor] = ProgramData(@, par)]
  /\ UNCHANGED <<flag, cursor, par, saved>>

StoreSaveFlag == WriteFlag("save", "save", "clear")

StoreClearLast ==
  /\ pc = "clear" /\ pc' = "ready"
  /\ flag' = IF cursor > 0 THEN [flag EXCEPT ![cursor - 1] = "void"] ELSE flag
  /\ cursor' = cursor + 1
  /\ saved' = par
  /\ UNCHANGED <<data, par>>

-------------------------------------------------------------------------------
(* Power loss: RAM is lost, and the operation in progress may be half done. *)

PowerOff == pc # "off" /\ pc' = "off" /\ UNCHANGED <<cursor, par, saved>>

PowerLoss == PowerOff /\ UNCHANGED <<flag, data>>

TornFlag ==
  /\ PowerOff /\ pc \in {"pre", "save"}
  /\ flag' = [flag EXCEPT ![cursor] = "void"]
  /\ UNCHANGED data

TornData ==
  /\ PowerOff /\ pc = "data"
  /\ data' = [data EXCEPT ![cursor] = Torn]
  /\ UNCHANGED flag

TornClear ==
  /\ PowerOff /\ pc = "clear" /\ cursor > 0
  /\ flag' = [flag EXCEPT ![cursor - 1] = "void"]
  /\ UNCHANGED data

-------------------------------------------------------------------------------

Init ==
  /\ flag = [i \in Slots |-> "blank"]
  /\ data = [i \in Slots |-> Blank]
  /\ cursor = 0
  /\ par = Default
  /\ pc = "off"
  /\ inMap \in BOOLEAN
  /\ saved = None

Step ==
  \/ MeshParRetrieve
  \/ \E v \in Values : Change(v)
  \/ StoreErase \/ StoreSkip \/ StoreBegin
  \/ StorePreFlag \/ StoreData \/ StoreSaveFlag \/ StoreClearLast
  \/ PowerLoss \/ TornFlag \/ TornData \/ TornClear

Next == Step /\ UNCHANGED inMap

Spec == Init /\ [][Next]_vars

-------------------------------------------------------------------------------
(* Properties                                                              *)

\* The state's types; the cursor is always a record whose flag is in the
\* sector, which is what SectorFull's extra SIZE_SAVE_FLAG is for.
TypeOK ==
  /\ flag \in [Slots -> Flags]
  /\ data \in [Slots -> Values \cup {Blank, Torn}]
  /\ cursor \in Slots
  /\ par \in Values
  /\ pc \in Steps
  /\ saved \in Values \cup {None}

\* A store never programs a record that was programmed before, whatever
\* power losses the area has been through: everything from the cursor on is
\* erased when a store starts, and the sector keeps a 0xFF flag to end the
\* scan.
AppendsToErased ==
  /\ pc \in {"ready", "pre"} =>
       \A i \in Slots : i >= cursor => flag[i] = "blank" /\ data[i] = Blank
  /\ \E i \in Slots : flag[i] = "blank"

\* A record is marked SAVE_FLAG only when all of its parameter is in flash
\* ("when change to the save_flag, the flash must be write already").
SavedIsWhole == \A i \in Slots : flag[i] = "save" => data[i] \in Values

\* What a power-on would retrieve changes only to the parameter being stored,
\* when its SAVE_FLAG is programmed, or to nothing, when the sector is
\* erased: no power loss and no clearing of an old record brings an older
\* value back.
NoRollback ==
  [][ Retrieved' # Retrieved =>
        \/ pc = "save" /\ Retrieved' = par
        \/ pc = "ready" /\ pc' = "pre" /\ Retrieved' = None ]_vars

\* light.c:159 "Save Generic OnOff States for next power-on": once the
\* store the program asked for has returned, a power-on retrieves what was
\* stored.
SavedForNextPowerOn == pc = "ready" => Retrieved = saved

\* It is so in every area that is not compared before it is stored to (the
\* keys and the misc record): the light's setting is the exception.
SavedUnlessCompared == ~inMap => SavedForNextPowerOn

\* The area is a durable register: every state of a store reads, through
\* mesh_par_retrieve, as either the old or the new value or (after the sector
\* was erased) as none, and a store that returned has taken effect.
Phase ==
  CASE pc = "off" -> "off"
    [] pc = "ready" -> "ready"
    [] pc \in {"pre", "data", "save"} -> "storing"
    [] OTHER -> "stored"

Durable == INSTANCE DurablePar WITH durable <- Retrieved, phase <- Phase

ImplementsDurablePar == Durable!Spec

===============================================================================
