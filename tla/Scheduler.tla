------------------------------ MODULE Scheduler ------------------------------
(***************************************************************************)
(* The scheduler of a light (scheduler.c) and the mesh time it runs on     *)
(* (time_model.c).  The node does not look at its entries every second: it *)
(* keeps the nearest local time at which entries are due and which ones    *)
(* they are (g_schd_nearest), and recomputes both when something changes.  *)
(*                                                                         *)
(* A minute has Mins seconds, an hour Mins minutes, a day Hours hours: 60  *)
(* and 24 in the code, small numbers when checked.  An entry's year,       *)
(* month, day and week are the set of days they select (see Calendar).     *)
(* mesh_time_proc repeats Tick for every second the main loop was late.    *)
(***************************************************************************)
EXTENDS Integers, FiniteSets

CONSTANTS
  Entries,          \* the 16 entries of every element
  Hours, Mins,      \* hours of a day; minutes of an hour and seconds of a minute
  Every15, Every20, \* the steps of SCHD_MIN_EVERY15 and SCHD_MIN_EVERY20
  Days,             \* number of days modelled
  Zones,            \* time zones, in seconds ahead of UTC
  Times,            \* times TIME_SET may set
  Settings          \* what SCHD_ACTION_SET may set an entry to

HOUR_ANY    == Hours        \* 0x18
HOUR_RANDOM == Hours + 1
MIN_ANY     == Mins         \* 0x3C, and the same for seconds
MIN_EVERY15 == Mins + 1
MIN_EVERY20 == Mins + 2
MIN_RANDOM  == Mins + 3
NO_NEAREST  == Hours + Mins + 4

HourLen == Mins * Mins
DayLen  == Hours * HourLen
PowerOnZone == -64 * Every15 * Mins     \* zone_offset is 0

\* A scheduler_t; alive: it is valid and its action is not SCHD_ACTION_NONE.
Entry == [alive : BOOLEAN, days : SUBSET (0 .. Days), hour : 0 .. HOUR_RANDOM,
          minute : 0 .. MIN_RANDOM, second : 0 .. MIN_RANDOM,
          rand_hour : 0 .. Hours - 1, rand_min : 0 .. Mins - 1, rand_sec : 0 .. Mins - 1]
NoEntry == [alive |-> FALSE, days |-> {}, hour |-> 0, minute |-> 0, second |-> 0,
            rand_hour |-> 0, rand_min |-> 0, rand_sec |-> 0]

ASSUME ClockAssumption ==
  /\ Hours \in Nat \ {0} /\ Mins \in Nat \ {0} /\ Days \in Nat \ {0}
  /\ Every15 \in 1 .. Mins /\ Every20 \in 1 .. Mins
  /\ Mins % Every15 = 0 /\ Mins % Every20 = 0
  /\ Zones \subseteq Int /\ Times \subseteq Nat \ {0} /\ Settings \subseteq Entry

VARIABLES
  TAI,      \* g_TAI_sec, 0 when the time is not known
  zone,     \* mesh_time.time.zone_offset
  schd,     \* g_schd_list
  nearest,  \* g_schd_nearest
  fired,    \* history: the entries acted on by the last step
  stale     \* history: the zone changed after nearest was computed

vars == <<TAI, zone, schd, nearest, fired, stale>>

-------------------------------------------------------------------------------
(* The clock.                                                              *)

HourOf(t) == (t % DayLen) \div HourLen
MinOf(t)  == (t % HourLen) \div Mins
SecOf(t)  == t % Mins
DayOf(t)  == t \div DayLen

get_local_TAI == TAI + zone

-------------------------------------------------------------------------------
(* When an entry matches: the functions is_schd_match_*.                   *)

Multiples(step) == {i * step : i \in 0 .. (Mins \div step) - 1}

is_schd_match_second_or_min(now, set, rand) ==
  \/ now = set
  \/ set = MIN_ANY
  \/ set = MIN_EVERY15 /\ now \in Multiples(Every15)
  \/ set = MIN_EVERY20 /\ now \in Multiples(Every20)
  \/ set = MIN_RANDOM /\ now = rand

is_schd_match_hour(now, set, rand) ==
  \/ now = set
  \/ set = HOUR_ANY
  \/ set = HOUR_RANDOM /\ now = rand

Due(e, t) ==
  /\ e.alive
  /\ DayOf(t) \in e.days
  /\ is_schd_match_hour(HourOf(t), e.hour, e.rand_hour)
  /\ is_schd_match_second_or_min(MinOf(t), e.minute, e.rand_min)
  /\ is_schd_match_second_or_min(SecOf(t), e.second, e.rand_sec)

AllDue(s, t) == {i \in Entries : Due(s[i], t)}

-------------------------------------------------------------------------------
(* The nearest time at which an entry matches.                             *)

Least(S) == IF S = {} THEN NO_NEAREST ELSE CHOOSE x \in S : \A y \in S : x <= y

get_min_sec_step(set) ==
  CASE set = MIN_ANY -> 1 [] set = MIN_EVERY15 -> Every15 [] set = MIN_EVERY20 -> Every20
    [] OTHER -> 0

get_nearest_hour(set, now, rand) ==
  LET at == IF set = HOUR_RANDOM THEN rand ELSE set
  IN  IF set = HOUR_ANY THEN now ELSE Least({at} \cap now .. Hours - 1)

\* Mutant: first is forgotten.
FromNow(set, now, rand, first) ==
  CASE set = MIN_ANY -> now
    [] set = MIN_RANDOM -> Least({rand} \cap now .. Mins - 1)
    [] set = MIN_EVERY15 -> Least(Multiples(Every15) \cap now .. Mins - 1)
    [] set = MIN_EVERY20 -> Least(Multiples(Every20) \cap now .. Mins - 1)
    [] OTHER -> Least({set} \cap now .. Mins - 1)

\* first: the unit above is later than now, so the first match counts.
get_nearest_min_or_sec(set, now, rand, first) ==
  LET from == IF first THEN 0 ELSE now
      at   == CASE set = MIN_ANY     -> {from}
                [] set = MIN_RANDOM  -> {rand}
                [] set = MIN_EVERY15 -> Multiples(Every15)
                [] set = MIN_EVERY20 -> Multiples(Every20)
                [] OTHER             -> {set}
  IN  Least({x \in at : from <= x})

NearestMin(e, now, first) == get_nearest_min_or_sec(e.minute, now, e.rand_min, first)
NearestSec(e, now, first) == get_nearest_min_or_sec(e.second, now, e.rand_sec, first)

\* No second left in minute mm: go on to the next minute of a list.
CheckNextMin(e, mm, ss) ==
  LET step_mm == get_min_sec_step(e.minute)
  IN  IF mm # NO_NEAREST /\ ss = NO_NEAREST /\ step_mm # 0 /\ mm + step_mm < Mins
      THEN <<mm + step_mm, NearestSec(e, 0, TRUE)>>
      ELSE <<mm, ss>>

Never == NO_NEAREST + DayLen

\* No match left in hour hh: go on to the next hour if every hour matches.
CheckNextHour(e, hh, match) ==
  IF match[2] # NO_NEAREST THEN hh * HourLen + match[1] * Mins + match[2]
  ELSE IF e.hour = HOUR_ANY /\ hh + 1 < Hours
       THEN (hh + 1) * HourLen + NearestMin(e, 0, TRUE) * Mins + NearestSec(e, 0, TRUE)
       ELSE Never

\* The second of the day at which e is next due, from t on, or Never.
NearestToday(e, t) ==
  LET hh == get_nearest_hour(e.hour, HourOf(t), e.rand_hour)
      mm == NearestMin(e, MinOf(t), hh > HourOf(t))
      ss == IF mm = NO_NEAREST THEN NO_NEAREST
            ELSE NearestSec(e, SecOf(t), hh > HourOf(t) \/ mm > MinOf(t))
  IN  IF e.alive /\ DayOf(t) \in e.days /\ hh # NO_NEAREST
      THEN CheckNextHour(e, hh, CheckNextMin(e, mm, ss))
      ELSE Never

NoneToday == [TAI_local |-> 0, entry_bit |-> {}]

\* Mutant: entry_bit is not cleared when an earlier time is found.
KeepsBits(s, t) ==
  LET today == {x \in {<<i, NearestToday(s[i], t)>> : i \in Entries} : x[2] < DayLen}
  IN  IF today = {} THEN NoneToday
      ELSE [TAI_local |-> DayOf(t) * DayLen + Least({x[2] : x \in today}),
            entry_bit |-> {x[1] : x \in today}]
update_schd_nearest_TAI_today(s, t) ==
  LET today == {x \in {<<i, NearestToday(s[i], t)>> : i \in Entries} : x[2] < DayLen}
      at    == Least({x[2] : x \in today})
      when  == DayOf(t) * DayLen + at
  IN  IF today = {} \/ when < t THEN NoneToday
      ELSE [TAI_local |-> when, entry_bit |-> {x[1] : x \in {y \in today : y[2] = at}}]

-------------------------------------------------------------------------------
(* Random hours, minutes and seconds are drawn again at the start of the   *)
(* day, the hour and the minute.                                           *)

DrawsSec(e, t) ==
  e.alive /\ t % Mins = 0 /\ e.second = MIN_RANDOM /\ e.minute # MIN_RANDOM /\ e.hour # HOUR_RANDOM
DrawsMin(e, t) ==
  e.alive /\ t % HourLen = 0 /\ e.minute = MIN_RANDOM /\ e.hour # HOUR_RANDOM
DrawsHour(e, t) == e.alive /\ t % DayLen = 0 /\ e.hour = HOUR_RANDOM

Drawn(e, hour, minute, second) ==
  {[e EXCEPT !.rand_hour = h, !.rand_min = m, !.rand_sec = s] :
     h \in IF hour THEN 0 .. Hours - 1 ELSE {e.rand_hour},
     m \in IF minute THEN 0 .. Mins - 1 ELSE {e.rand_min},
     s \in IF second THEN 0 .. Mins - 1 ELSE {e.rand_sec}}

\* What the schd_random_rebuild_* calls of a second may make of e.
Redrawn(e, t) ==
  LET higher == DrawsHour(e, t) \/ DrawsMin(e, t)
  IN  Drawn(e, DrawsHour(e, t), higher /\ e.minute = MIN_RANDOM,
            DrawsSec(e, t) \/ (higher /\ e.second = MIN_RANDOM))

\* The setting with its random fields drawn, the others 0.
SetEntry(set) ==
  Drawn([set EXCEPT !.rand_hour = 0, !.rand_min = 0, !.rand_sec = 0],
        set.hour = HOUR_RANDOM, set.minute = MIN_RANDOM, set.second = MIN_RANDOM)

-------------------------------------------------------------------------------
\* rebulid_schd_nearest_and_check_event(rebuild, local) on the entries s.
CheckEvent(rebuild, s, local) ==
  LET n    == IF rebuild THEN update_schd_nearest_TAI_today(s, local) ELSE nearest
      acts == n.TAI_local # 0 /\ n.TAI_local = local
  IN  /\ fired' = IF acts THEN n.entry_bit ELSE {}
      /\ nearest' = IF acts THEN update_schd_nearest_TAI_today(s, local + 1) ELSE n
      /\ stale' = (stale /\ ~rebuild /\ ~acts)

Init ==
  /\ TAI = 0 /\ zone = PowerOnZone
  /\ schd = [i \in Entries |-> NoEntry]
  /\ nearest = NoneToday
  /\ fired = {} /\ stale = FALSE

\* TIME_SET, and TIME_STATUS while the time is unknown: mesh_time_set.
TimeSet(t, z) ==
  /\ t + z \in 1 .. Days * DayLen - 1
  /\ TAI' = t /\ zone' = z
  /\ CheckEvent(TRUE, schd, t + z)
  /\ UNCHANGED schd

\* TIME_ZONE_SET: the zone changes at once, nearest stays.
TimeZoneSet(z) ==
  /\ TAI # 0 => TAI + z \in 1 .. Days * DayLen - 1
  /\ zone' = z
  /\ stale' = (stale \/ (TAI # 0 /\ z # zone))
  /\ fired' = {}
  /\ UNCHANGED <<TAI, schd, nearest>>

\* SCHD_ACTION_SET
ActionSet(i, set) ==
  /\ \E e \in SetEntry(set) : schd' = [schd EXCEPT ![i] = e]
  /\ IF TAI = 0
     THEN fired' = {} /\ UNCHANGED <<nearest, stale>>
     ELSE CheckEvent(TRUE, schd', get_local_TAI)
  /\ UNCHANGED <<TAI, zone>>

\* Mutant: no rebuild at the start of the day.
NoMidnight ==
  LET local == TAI + 1 + zone
  IN  /\ TAI # 0 /\ local < Days * DayLen
      /\ TAI' = TAI + 1
      /\ CheckEvent(FALSE, schd, local)
      /\ UNCHANGED <<zone, schd>>

\* A second of mesh_time_proc: g_TAI_sec++ and mesh_scheduler_proc.
Tick ==
  LET local == TAI + 1 + zone
  IN  /\ TAI # 0 /\ local < Days * DayLen
      /\ TAI' = TAI + 1
      /\ schd' \in {f \in [Entries -> UNION {Redrawn(schd[i], local) : i \in Entries}] :
                      \A i \in Entries : f[i] \in Redrawn(schd[i], local)}
      /\ CheckEvent(\/ local % DayLen = 0
                    \/ \E i \in Entries : DrawsSec(schd[i], local) \/ DrawsMin(schd[i], local),
                    schd', local)
      /\ UNCHANGED zone

\* The entries are in flash, the time is not.
PowerCycle ==
  /\ TAI' = 0 /\ zone' = PowerOnZone
  /\ nearest' = NoneToday
  /\ fired' = {} /\ stale' = FALSE
  /\ UNCHANGED schd

Next ==
  \/ \E t \in Times, z \in Zones : TimeSet(t, z)
  \/ \E z \in Zones : TimeZoneSet(z)
  \/ \E i \in Entries, set \in Settings : ActionSet(i, set)
  \/ Tick
  \/ PowerCycle

Spec == Init /\ [][Next]_vars

-------------------------------------------------------------------------------
TypeOK ==
  /\ TAI \in Nat /\ zone \in Zones \cup {PowerOnZone}
  /\ TAI # 0 => get_local_TAI \in 1 .. Days * DayLen - 1
  /\ schd \in [Entries -> Entry]
  /\ nearest \in [TAI_local : Nat, entry_bit : SUBSET Entries]
  /\ fired \subseteq Entries /\ stale \in BOOLEAN

\* The next second of the day after t in which an entry is due by the match
\* functions; 0 if there is none.
NextDue(s, t) ==
  LET rest == {u \in t + 1 .. (DayOf(t) + 1) * DayLen - 1 : AllDue(s, u) # {}}
  IN  IF rest = {} THEN 0 ELSE Least(rest)

\* Unless the zone was changed since, g_schd_nearest is the next time today
\* at which an entry is due, with exactly the entries due then: the stepwise
\* computation of update_schd_nearest_TAI_today agrees with looking at every
\* second, and whatever changes an entry or the time recomputes it.  (In the
\* last second of a day it may be of the next day, which recomputes it.)
NearestIsNext ==
  TAI # 0 /\ ~stale /\ (get_local_TAI + 1) % DayLen # 0 =>
    LET next == NextDue(schd, get_local_TAI)
    IN  nearest = [TAI_local |-> next,
                   entry_bit |-> IF next = 0 THEN {} ELSE AllDue(schd, next)]

\* Whenever the clock moves, the entries due at the new time are acted on, no
\* more and no less.  (schd_event_check compares with g_schd_nearest only.)
ActsWhenDue ==
  [][TAI' \notin {0, TAI} /\ ~(stale /\ stale') => fired' = AllDue(schd', get_local_TAI')]_vars

\* However long the zone was wrong for it, g_schd_nearest is right again
\* from the next local midnight on.
RecoversAtMidnight ==
  [][TAI' \notin {0, TAI} /\ get_local_TAI' % DayLen = 0 =>
       /\ fired' = AllDue(schd', get_local_TAI')
       /\ ~stale']_vars
=============================================================================
