------------------------------- MODULE Calendar -------------------------------
(***************************************************************************)
(* The calendar arithmetic of time_model.c: from a number of days since    *)
(* 2000/01/01 to a date and back, and the days of a month a scheduler      *)
(* entry selects.  The specification walks through the days one by one,    *)
(* by the rule of the Gregorian calendar, beside the code's arithmetic.    *)
(* The time of day is a plain division and is left out.                    *)
(***************************************************************************)
EXTENDS Integers

CONSTANT LastDay    \* the last day walked to; a u32 of seconds reaches day 49710

YEAR_BASE == 2000
YEAR_MAX  == 2100
WEEK_BASE == 5      \* 0 means monday

VARIABLES
  count,  \* days since 2000/01/01
  date,   \* the date of that day, by the calendar
  hits    \* history: how often each day an entry may name was selected this month

vars == <<count, date, hits>>

-------------------------------------------------------------------------------
is_leap_year(y) == (y % 4 = 0 /\ y % 100 # 0) \/ y % 400 = 0

get_days_one_month(y, m) ==
  CASE m = 2 -> (IF is_leap_year(y) THEN 29 ELSE 28)
    [] m \in {4, 6, 9, 11} -> 30
    [] OTHER -> 31

DAYS_400YEAR == 146097
DAYS_100YEAR(leap) == IF leap THEN 36525 ELSE 36524
DAYS_4YEAR(leap)   == IF leap THEN 1461 ELSE 1460
DAYS_1YEAR(leap)   == IF leap THEN 366 ELSE 365

\* The year of day n, and the days of it before n.
YearOf(n) ==
  LET n400 == n % DAYS_400YEAR
      over100 == n400 >= DAYS_100YEAR(TRUE)
      n100 == IF over100 THEN (n400 - 1) % DAYS_100YEAR(FALSE) ELSE n400
      over4 == n100 >= DAYS_4YEAR(~over100)
      from4 == n100 + (IF over100 THEN 1 ELSE 0)
      n4   == IF over4 THEN from4 % DAYS_4YEAR(TRUE) ELSE n100
      leap4 == ~over100 \/ over4
      first == n4 < DAYS_1YEAR(leap4)
      n1   == IF leap4 THEN n4 - DAYS_1YEAR(TRUE) ELSE n4
  IN  [year |-> YEAR_BASE + (n \div DAYS_400YEAR) * 400
                + (IF over100 THEN ((n400 - 1) \div DAYS_100YEAR(FALSE)) * 100 ELSE 0)
                + (IF over4 THEN (from4 \div DAYS_4YEAR(TRUE)) * 4 ELSE 0)
                + (IF first THEN 0
                   ELSE (IF leap4 THEN 1 ELSE 0) + n1 \div DAYS_1YEAR(FALSE)),
       day |-> IF first THEN n4 ELSE n1 % DAYS_1YEAR(FALSE)]

\* The month and the day of it, n days after the start of year y; left[m] is what
\* is left of the n days when the loop comes to month m.
MonthDay(y, n) ==
  LET left[m \in 1 .. 12] ==
        IF m = 1 THEN n ELSE left[m - 1] - get_days_one_month(y, m - 1)
      month == CHOOSE m \in 1 .. 12 : left[m] \in 0 .. get_days_one_month(y, m) - 1
  IN  <<month, left[month] + 1>>

WeekOf(n) == (n + WEEK_BASE) % 7

get_UTC(n) ==
  LET y  == YearOf(n)
      md == MonthDay(y.year, y.day)
  IN  [year |-> y.year, month |-> md[1], day |-> md[2], week |-> WeekOf(n)]

\* Mutant: the leap day counts from February on.
FromFebruary(y, m) ==
  (CASE m = 1 -> 0 [] m = 2 -> 31 [] m = 3 -> 59 [] m = 4 -> 90 [] m = 5 -> 120 [] m = 6 -> 151
     [] m = 7 -> 181 [] m = 8 -> 212 [] m = 9 -> 243 [] m = 10 -> 273 [] m = 11 -> 304
     [] OTHER -> 334) + (IF is_leap_year(y) /\ m >= 2 THEN 1 ELSE 0)

\* curmonthday: the days of year y before month m.
DaysBefore(y, m) ==
  (CASE m = 1 -> 0 [] m = 2 -> 31 [] m = 3 -> 59 [] m = 4 -> 90 [] m = 5 -> 120 [] m = 6 -> 151
     [] m = 7 -> 181 [] m = 8 -> 212 [] m = 9 -> 243 [] m = 10 -> 273 [] m = 11 -> 304
     [] OTHER -> 334) + (IF is_leap_year(y) /\ m >= 3 THEN 1 ELSE 0)

\* The days get_TAI_sec counts up to utc, a valid date.
get_TAI_day(utc) ==
  LET c400 == utc.year - YEAR_BASE
      c100 == c400 % 400
      c4   == c100 % 100
      c1   == c4 % 4
      leap100 == c100 < 100
      first4  == c4 < 4
  IN  (c400 \div 400) * DAYS_400YEAR
      + (IF leap100 THEN 0 ELSE (c100 \div 100) * DAYS_100YEAR(FALSE) + 1)
      + (IF first4 THEN 0 ELSE (c4 \div 4) * DAYS_4YEAR(TRUE) - (IF leap100 THEN 0 ELSE 1))
      + (IF c1 = 0 THEN 0 ELSE c1 * DAYS_1YEAR(FALSE) + 1 - (IF ~leap100 /\ first4 THEN 1 ELSE 0))
      + DaysBefore(utc.year, utc.month) + utc.day - 1

\* Mutant: a day past the end of the month is never selected.
ExactDay(utc, day) == utc.day = day

\* update_schd_nearest_TAI_today: does an entry for this day of a month, of any
\* year and month, select the date?
DayMatches(utc, day) ==
  LET days_max == get_days_one_month(utc.year, utc.month)
  IN  utc.day = day \/ (day > days_max /\ utc.day = days_max)

-------------------------------------------------------------------------------
Selected(utc) == [d \in 1 .. 31 |-> IF DayMatches(utc, d) THEN 1 ELSE 0]

Init ==
  /\ count = 0
  /\ date = [year |-> 2000, month |-> 1, day |-> 1, week |-> 5]
  /\ hits = Selected(get_UTC(0))

LastOfMonth == date.day = get_days_one_month(date.year, date.month)
NewYear == LastOfMonth /\ date.month = 12

NextDay ==
  /\ count < LastDay
  /\ count' = count + 1
  /\ date' = [year  |-> IF NewYear THEN date.year + 1 ELSE date.year,
              month |-> IF NewYear THEN 1 ELSE IF LastOfMonth THEN date.month + 1 ELSE date.month,
              day   |-> IF LastOfMonth THEN 1 ELSE date.day + 1,
              week  |-> (date.week + 1) % 7]
  /\ hits' = LET s == Selected(get_UTC(count + 1))
             IN  [d \in 1 .. 31 |-> s[d] + (IF LastOfMonth THEN 0 ELSE hits[d])]

Spec == Init /\ [][NextDay]_vars

-------------------------------------------------------------------------------
\* get_UTC agrees with the calendar on every day a u32 of seconds can reach,
\* centuries that are not leap years included, and get_TAI_sec is its inverse
\* over the years it accepts.
TaiInvertsUtc ==
  get_UTC(count) = date /\ (date.year < YEAR_MAX => get_TAI_day(date) = count)

\* A scheduler entry for any day of the month fires in every month, and in no
\* month twice, the short ones included.
OncePerMonth == LastOfMonth => \A d \in 1 .. 31 : hits[d] = 1
=============================================================================
