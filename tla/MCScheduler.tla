---------------------------- MODULE MCScheduler ----------------------------
(* Values of the constants of Scheduler that a configuration cannot write. *)
EXTENDS Scheduler, TLC

CONSTANT LastDay    \* of Calendar

Set(days, h, m, s) == [NoEntry EXCEPT !.alive = TRUE, !.days = days,
                                      !.hour = h, !.minute = m, !.second = s]

\* Every hour, minute and second field, on every day or on the second one.
AllSettings ==
  {NoEntry} \cup {Set(d, h, m, s) : d \in {{0, 1}, {1}}, h \in 0 .. HOUR_RANDOM,
                                    m \in 0 .. MIN_RANDOM, s \in 0 .. MIN_RANDOM}

\* Entries that meet in one second, follow each other, or draw apart.
SomeSettings ==
  {NoEntry, Set({0, 1}, 0, 1, 0), Set({0, 1}, HOUR_ANY, 1, MIN_EVERY20),
   Set({0, 1}, HOUR_ANY, MIN_RANDOM, 0), Set({1}, 0, 0, 0)}

\* One run looks at the scheduler from three sides.  "commands": clients and
\* power losses at any moment; "fields": one entry with any setting, set in the
\* first second of a clock that then only ticks; "calendar": the calendar that
\* the days of an entry stand for, one day after the other.
VARIABLES part, count, date, hits

calendar == <<count, date, hits>>

Cal == INSTANCE Calendar WITH LastDay <- LastDay

MCInit ==
  /\ Cal!Init
  /\ \/ part = "commands" /\ Init
     \/ part = "calendar" /\ Init
     \/ /\ part = "fields"
        /\ TAI = 1 /\ zone = 0 /\ stale = FALSE
        /\ \E i \in Entries, set \in AllSettings : \E e \in SetEntry(set) :
             schd = [[j \in Entries |-> NoEntry] EXCEPT ![i] = e]
        /\ fired = AllDue(schd, 1)
        /\ nearest = update_schd_nearest_TAI_today(schd, IF fired = {} THEN 1 ELSE 2)

MCNext ==
  /\ UNCHANGED part
  /\ \/ part = "commands" /\ Next /\ UNCHANGED calendar
     \/ part = "fields" /\ Tick /\ UNCHANGED calendar
     \/ part = "calendar" /\ Cal!NextDay /\ UNCHANGED vars

MCSpec == MCInit /\ [][MCNext]_<<vars, part, calendar>>

\* Properties of Calendar.
TaiInvertsUtc == Cal!TaiInvertsUtc
OncePerMonth  == Cal!OncePerMonth

\* Nothing in Scheduler tells entries apart.
EntrySymmetry == Permutations(Entries)

MCZones == {0, Every15 * Mins}
============================================================================
