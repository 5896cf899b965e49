----------------------------- MODULE FactoryReset -----------------------------
(***************************************************************************)
(* Factory reset (factory_reset.c): the power-cycle gesture counted in a   *)
(* flash sector, the erasing of the node's areas, and the same erasing     *)
(* started by the NODE_RESET command, with power losses between any two    *)
(* flash operations.                                                       *)
(*                                                                         *)
(* The main loop calls factory_reset_cnt_check far more often than its     *)
(* thresholds, so time advances only when the check has nothing to do.     *)
(***************************************************************************)
EXTENDS Integers, Sequences

CONSTANTS
  CntSize,    \* bytes of the counter sector (4096)
  CleanIdx,   \* index from which the sector is erased before a write (3840)
  NumAreas,   \* sectors factory_reset erases before the counter sector
  MaxCycles   \* bound of the model on power losses

ResetAssumption ==
  /\ CntSize \in Nat /\ CleanIdx \in 1 .. CntSize - 1
  /\ NumAreas \in Nat \ {0} /\ MaxCycles \in Nat

factory_reset_serials == <<0, 3, 0, 3, 0, 3, 3, 30, 3, 30>>        \* seconds
RESET_TRIGGER_VAL == Len(factory_reset_serials)
VALID_POWER_ON_TIME == 50                                          \* ms
RESET_CNT_INVALID == 0
BlankByte == 255
NextByte == -1

\* Instants of a session, in ms, at, between and after the thresholds.
Times == {0, 50, 3000, 10000, 30000}

Bytes == 0 .. RESET_TRIGGER_VAL \cup {BlankByte}

VARIABLES
  cnt,        \* the counter sector
  idx,        \* adr_reset_cnt_idx
  todo,       \* flash writes the counter functions have still to do
  clear_st,   \* progress of factory_reset_cnt_check
  checkTime,  \* reset_check_time, in ms
  clock,      \* ms since power-on
  mode,       \* "off", "run", or "erase" inside factory_reset
  erased,     \* areas factory_reset has erased in this session
  gestureReset, \* history: the reset in progress was started by the counter
  partial,    \* history: a reset started by the counter has erased an area, not all
  touched,    \* history: the counter was written in this session
  gesture,    \* history: lengths of the last sessions that wrote the counter
  cycles      \* power losses so far

counter == <<cnt, idx, todo>>
history == <<gestureReset, partial, touched, gesture, cycles>>
vars == <<cnt, idx, todo, clear_st, checkTime, clock, mode, erased,
          gestureReset, partial, touched, gesture, cycles>>

-------------------------------------------------------------------------------
(* The counter sector.                                                     *)

BlankSector == [i \in 0 .. CntSize - 1 |-> BlankByte]

\* The code programs blank bytes, clears bytes, and writes over cleared ones.
Program(old, new) == IF old = BlankByte THEN new ELSE 0

GetResetCnt == cnt[idx]

\* Mutant: the sector is never erased.
NeedsCleanNever == FALSE

NeedsClean == idx >= CleanIdx                                \* reset_cnt_clean

\* clear_reset_cnt and write_reset_cnt, as writes to do.
Clear == <<RESET_CNT_INVALID>>

\* increase_reset_cnt, given the byte at idx: the current byte is cleared and
\* the count goes on in the next one.  NextByte stands for adr_reset_cnt_idx++.
Increase(c) ==
  IF c \in {BlankByte, RESET_CNT_INVALID} THEN <<1>>
  ELSE Clear \o <<NextByte, c + 1>>

\* One flash operation of write_reset_cnt, or the index increment.
CntStep ==
  /\ mode = "run" /\ todo # <<>>
  /\ \/ /\ Head(todo) = NextByte
        /\ idx' = idx + 1 /\ todo' = Tail(todo) /\ UNCHANGED <<cnt, touched>>
     \/ /\ Head(todo) # NextByte /\ NeedsClean
        /\ cnt' = BlankSector /\ idx' = 0 /\ touched' = TRUE /\ UNCHANGED todo
     \/ /\ Head(todo) # NextByte /\ ~NeedsClean
        /\ cnt' = [cnt EXCEPT ![idx] = Program(@, Head(todo))]
        /\ todo' = Tail(todo) /\ touched' = TRUE /\ UNCHANGED idx
  /\ UNCHANGED <<clear_st, checkTime, clock, mode, erased, gestureReset, partial, gesture, cycles>>

-------------------------------------------------------------------------------
(* factory_reset_cnt_check, one action per value of clear_st.              *)

\* The first byte that is not cleared.
IsCntIdx(i) == cnt[i] # RESET_CNT_INVALID /\ \A j \in 0 .. i - 1 : cnt[j] = RESET_CNT_INVALID

\* Mutant: odd counts, sessions cut before their time, are not discarded.
InvalidCntLarge(c) == c # BlankByte /\ c > RESET_TRIGGER_VAL

InvalidCnt(c) == c # BlankByte /\ (c > RESET_TRIGGER_VAL \/ c % 2 = 1)

CheckReady == mode = "run" /\ todo = <<>>

\* factory_reset_handle.  A discarded byte reads 0 when it is read again.
Handle ==
  /\ CheckReady /\ clear_st = 4 /\ clock >= VALID_POWER_ON_TIME
  /\ clear_st' = 3
  /\ \E i \in 0 .. CntSize - 1 :
       /\ IsCntIdx(i) /\ idx' = i
       /\ IF cnt[i] = RESET_TRIGGER_VAL
          THEN mode' = "erase" /\ gestureReset' = TRUE /\ UNCHANGED todo
          ELSE /\ todo' = IF InvalidCnt(cnt[i]) THEN Clear \o Increase(RESET_CNT_INVALID)
                          ELSE Increase(cnt[i])
               /\ UNCHANGED <<mode, gestureReset>>
  /\ UNCHANGED <<cnt, checkTime, clock, erased, partial, touched, gesture, cycles>>

\* factory_reset_serials[get_reset_cnt() - 1]; outside the array the read
\* yields any byte.
SerialTimes(c) ==
  IF c \in 1 .. RESET_TRIGGER_VAL THEN {factory_reset_serials[c] * 1000}
  ELSE {0, 3000, 30000, 255000}

\* What get_reset_cnt reads after increase_reset_cnt: a cleared byte cannot be
\* programmed again.
CntAfterIncrease(c) == CASE c = BlankByte -> 1 [] c = 0 -> 0 [] OTHER -> c + 1

SetFirstTime ==
  /\ CheckReady /\ clear_st = 3 /\ clear_st' = 2
  /\ checkTime' \in SerialTimes(GetResetCnt)
  /\ UNCHANGED <<counter, clock, mode, erased, history>>

\* Mutant: no waiting between the steps of a session.
TimeReachedAtOnce == TRUE

TimeReached == clock >= checkTime

\* The second increment of a session, then reset_check_time is read again.
SecondCount ==
  /\ CheckReady /\ clear_st = 2 /\ TimeReached
  /\ clear_st' = 1
  /\ todo' = Increase(GetResetCnt)
  /\ checkTime' \in SerialTimes(CntAfterIncrease(GetResetCnt))
  /\ UNCHANGED <<cnt, idx, clock, mode, erased, history>>

\* The session lasted too long: the count starts again.
ClearCount ==
  /\ CheckReady /\ clear_st = 1 /\ TimeReached
  /\ clear_st' = 0
  /\ todo' = Clear
  /\ UNCHANGED <<cnt, idx, checkTime, clock, mode, erased, history>>

CheckDue ==
  \/ clear_st = 4 /\ clock >= VALID_POWER_ON_TIME
  \/ clear_st = 3
  \/ clear_st \in {1, 2} /\ TimeReached

Tick ==
  /\ CheckReady /\ ~CheckDue
  /\ \E t \in Times :
       /\ t > clock /\ \A u \in Times : u > clock => t <= u
       /\ clock' = t
  /\ UNCHANGED <<counter, clear_st, checkTime, mode, erased, history>>

-------------------------------------------------------------------------------
(* factory_reset and its two callers.                                      *)

\* node_reset_start, then proc_node_reset calls kick_out between two passes.
KickOut ==
  /\ CheckReady /\ mode' = "erase" /\ gestureReset' = FALSE
  /\ UNCHANGED <<counter, clear_st, checkTime, clock, erased, partial, touched, gesture, cycles>>

\* Mutant: the counter is erased with the first area.
EraseAreaCounterFirst ==
  /\ mode = "erase" /\ erased < NumAreas
  /\ erased' = erased + 1 /\ cnt' = BlankSector
  /\ partial' = (partial \/ gestureReset)
  /\ UNCHANGED <<idx, todo, clear_st, checkTime, clock, mode, gestureReset, touched, gesture, cycles>>

EraseArea ==
  /\ mode = "erase" /\ erased < NumAreas
  /\ erased' = erased + 1
  /\ partial' = (partial \/ gestureReset)
  /\ UNCHANGED <<counter, clear_st, checkTime, clock, mode, gestureReset, touched, gesture, cycles>>

\* Initialisers of the program's variables.
Boot == /\ idx' = 0 /\ todo' = <<>> /\ clear_st' = 4 /\ checkTime' = 0 /\ clock' = 0
        /\ erased' = 0 /\ touched' = FALSE

\* Mutant: the counter is not erased.
EraseNoCounter ==
  /\ mode = "erase" /\ erased = NumAreas
  /\ mode' = "run" /\ gestureReset' = FALSE /\ partial' = FALSE /\ gesture' = <<>>
  /\ Boot
  /\ UNCHANGED <<cnt, cycles>>

\* The counter sector is erased last, then the node reboots and starts anew.
EraseCounter ==
  /\ mode = "erase" /\ erased = NumAreas
  /\ cnt' = BlankSector
  /\ mode' = "run" /\ gestureReset' = FALSE /\ partial' = FALSE /\ gesture' = <<>>
  /\ Boot
  /\ UNCHANGED cycles

-------------------------------------------------------------------------------
(* Power.                                                                  *)

LastFive(s) == IF Len(s) > 5 THEN Tail(s) ELSE s

PowerLoss ==
  /\ mode # "off" /\ cycles < MaxCycles
  /\ mode' = "off" /\ cycles' = cycles + 1
  /\ gesture' = IF touched THEN LastFive(Append(gesture, clock)) ELSE gesture
  /\ UNCHANGED <<cnt, idx, todo, clear_st, checkTime, clock, erased, gestureReset, partial, touched>>

PowerOn ==
  /\ mode = "off" /\ mode' = "run"
  /\ Boot
  /\ UNCHANGED <<cnt, gestureReset, partial, gesture, cycles>>

-------------------------------------------------------------------------------

Init ==
  /\ cnt = BlankSector /\ idx = 0 /\ todo = <<>> /\ clear_st = 4 /\ checkTime = 0
  /\ clock = 0 /\ mode = "off" /\ erased = 0
  /\ gestureReset = FALSE /\ partial = FALSE /\ touched = FALSE /\ gesture = <<>> /\ cycles = 0

Next ==
  \/ CntStep \/ Handle \/ SetFirstTime \/ SecondCount \/ ClearCount \/ Tick
  \/ KickOut \/ EraseArea \/ EraseCounter
  \/ PowerLoss \/ PowerOn

\* The main loop keeps running while power is on, and power comes back.
Progress ==
  \/ CntStep \/ Handle \/ SetFirstTime \/ SecondCount \/ ClearCount \/ Tick
  \/ EraseArea \/ EraseCounter \/ PowerOn

Spec == Init /\ [][Next]_vars

FairSpec == Spec /\ WF_vars(Progress)

-------------------------------------------------------------------------------
(* Properties                                                              *)

TypeOK ==
  /\ cnt \in [0 .. CntSize - 1 -> Bytes] /\ idx \in 0 .. CntSize - 1
  /\ todo \in Seq({NextByte} \cup (0 .. RESET_TRIGGER_VAL))
  /\ clear_st \in 0 .. 4 /\ checkTime \in Nat /\ clock \in Times
  /\ mode \in {"off", "run", "erase"} /\ erased \in 0 .. NumAreas
  /\ gestureReset \in BOOLEAN /\ partial \in BOOLEAN /\ touched \in BOOLEAN
  /\ gesture \in Seq(Times) /\ Len(gesture) <= 5 /\ cycles \in 0 .. MaxCycles

\* The session lengths the table asks for: sessions of 50 ms to 3 s three
\* times, then of 3 s to 30 s twice.
IsGesture(g) ==
  /\ Len(g) = 5
  /\ \A k \in 1 .. 5 :
       /\ g[k] >= VALID_POWER_ON_TIME
       /\ g[k] >= factory_reset_serials[2 * k - 1] * 1000
       /\ g[k] <= factory_reset_serials[2 * k] * 1000

\* However power losses fall between the flash operations of the counter, the
\* counter starts a factory reset only when the last five sessions that it
\* counted had the lengths of factory_reset_serials, in order.
ResetOnlyByGesture == (mode = "erase" /\ gestureReset) => IsGesture(gesture)

\* "at last should be better, when power off during factory reset erase": a
\* reset started by the gesture and cut short is started again by the next
\* power-on, since the counter is still at its trigger value.
CutResetIsResumed ==
  partial =>
    \E i \in 0 .. CntSize - 1 : IsCntIdx(i) /\ cnt[i] = RESET_TRIGGER_VAL

\* The counter finds a byte to count in at every power-on: bytes from
\* CleanIdx on stay blank, whatever power losses do to the clean-up.
CounterHasRoom == \A i \in CleanIdx .. CntSize - 1 : cnt[i] = BlankByte

\* factory_reset.c:236 "reset cnt value from 1 to 254, 0 is invalid cnt": the
\* count the time table is indexed with is one of its entries.
CountIndexesTable ==
  (clear_st = 3 /\ CheckReady) => GetResetCnt \in 1 .. RESET_TRIGGER_VAL

\* Once the gesture has started a reset, all areas and the counter are erased
\* in the end, if power losses stop.
ResetCompletes ==
  (mode = "erase" /\ gestureReset) ~> (mode = "run" /\ erased = 0 /\ cnt = BlankSector)

===============================================================================
