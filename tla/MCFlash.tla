-------------------------------- MODULE MCFlash --------------------------------
(***************************************************************************)
(* What a node keeps in flash besides the misc record, in one run: part is *)
(* "store", a parameter area (FlashStore), or "reset", the power-on        *)
(* counter and the erasing it starts (FactoryReset).                       *)
(***************************************************************************)
EXTENDS FlashStore

CONSTANTS CntSize, CleanIdx, NumAreas, MaxCycles            \* FactoryReset

VARIABLES
  part,
  cnt, idx, todo, clear_st, checkTime, clock, mode, erased,
  gestureReset, partial, touched, gesture, cycles

sector == <<cnt, idx, todo, clear_st, checkTime, clock, mode, erased,
            gestureReset, partial, touched, gesture, cycles>>
all    == <<part, vars, sector>>

R == INSTANCE FactoryReset

ASSUME FlashAssumption == R!ResetAssumption

MCInit == Init /\ R!Init /\ part \in {"store", "reset"} /\ (part = "reset" => inMap)

MCNext ==
  \/ part = "store" /\ Next /\ UNCHANGED <<part, sector>>
  \/ part = "reset" /\ R!Next /\ UNCHANGED <<part, vars>>

MCSpec ==
  /\ MCInit /\ [][MCNext]_all
  /\ WF_all(part = "reset" /\ R!Progress /\ UNCHANGED <<part, vars>>)

\* The properties of FactoryReset.
ResetOnlyByGesture == R!ResetOnlyByGesture
CutResetIsResumed  == R!CutResetIsResumed
CounterHasRoom     == R!CounterHasRoom
ResetCompletes     == R!ResetCompletes
================================================================================
