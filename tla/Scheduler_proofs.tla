--------------------------- MODULE Scheduler_proofs ---------------------------
(***************************************************************************)
(* The nearest time a light keeps (g_schd_nearest) is the next second of   *)
(* the day in which one of its entries is due, for every clock, every      *)
(* setting of the entries and every order of commands, ticks and power     *)
(* losses; entries are therefore acted on exactly when they are due.       *)
(*                                                                         *)
(* The first half is about operators: the search by hour, minute and       *)
(* second, with its carries, finds the first second at which is_schd_match *)
(* holds for all three (FirstOfDay), and the least of these over the       *)
(* entries is the next time any is due (UpdateIs, NextDueIs).  The second  *)
(* half is the invariant: NearestIsNext says nothing in the last second of *)
(* a day or when the zone was changed, so that it lacks what the next      *)
(* event acts on: BitsAreDue, that the bits kept with a nearest time, of   *)
(* whichever day, are the entries due then, and Unknown, that a node       *)
(* without the time keeps none.                                            *)
(*                                                                         *)
(* The last part is the calendar: get_UTC and get_TAI_sec for every day.   *)
(***************************************************************************)
EXTENDS MCScheduler, WellFoundedInduction, TLAPS

-------------------------------------------------------------------------------
(* Division.                                                               *)

LEMMA Product ==
  ASSUME NEW a \in Nat, NEW b \in Nat
  PROVE  a * b \in Nat
  BY SMT

LEMMA ProductGrows ==
  ASSUME NEW a \in Nat, NEW b \in Nat, NEW c \in Nat, b <= c
  PROVE  a * b <= a * c
<1>1. PICK d \in Nat : c = b + d
  <2>1. c - b \in Nat /\ c = b + (c - b)
    OBVIOUS
  <2>2. QED
    BY <2>1
<1>2. a * c = a * b + a * d /\ a * d >= 0
  BY <1>1
<1>3. a * b \in Int /\ a * d \in Int /\ a * c \in Int
  OBVIOUS
<1>4. QED
  BY <1>2, <1>3

LEMMA Division ==
  ASSUME NEW a \in Nat, NEW b \in Nat \ {0}
  PROVE  /\ a \div b \in Nat /\ a % b \in 0 .. b - 1
         /\ a = b * (a \div b) + (a % b)
  BY SMT

\* Quotient and rest are the only ones.
LEMMA DivisionIs ==
  ASSUME NEW a \in Nat, NEW b \in Nat \ {0}, NEW q \in Nat, NEW r \in 0 .. b - 1,
         a = b * q + r
  PROVE  a \div b = q /\ a % b = r
<1> DEFINE p == a \div b
           s == a % b
<1>1. p \in Nat /\ s \in 0 .. b - 1 /\ a = b * p + s
  BY Division
<1> HIDE DEF p, s
<1>2. b * p \in Nat /\ b * q \in Nat
  BY <1>1, Product
<1>3. ASSUME p + 1 <= q PROVE FALSE
  <2>1. b * (p + 1) <= b * q
    BY <1>1, <1>3, ProductGrows
  <2>2. b * (p + 1) = b * p + b
    BY <1>1
  <2>3. QED
    BY <1>1, <1>2, <2>1, <2>2
<1>4. ASSUME q + 1 <= p PROVE FALSE
  <2>1. b * (q + 1) <= b * p
    BY <1>1, <1>4, ProductGrows
  <2>2. b * (q + 1) = b * q + b
    OBVIOUS
  <2>3. QED
    BY <1>1, <1>2, <2>1, <2>2
<1>5. p = q
  BY <1>1, <1>3, <1>4
<1>6. s = r
  BY <1>1, <1>2, <1>5
<1>7. QED
  BY <1>5, <1>6 DEF p, s

-------------------------------------------------------------------------------
(* The least of a set.                                                     *)

Before == {p \in Nat \X Nat : p[1] < p[2]}

LEMMA BeforeIsWellFounded == IsWellFoundedOn(Before, Nat)
<1>1. Before = OpToRel(<, Nat)
  BY DEF OpToRel, Before
<1>2. QED
  BY <1>1, NatLessThanWellFounded

LEMMA LeastIs ==
  ASSUME NEW S \in SUBSET Nat, S # {}
  PROVE  Least(S) \in S /\ \A x \in S : Least(S) <= x
<1>1. PICK l \in S : \A x \in S : ~(<<x, l>> \in Before)
  BY BeforeIsWellFounded, WFMin
<1>2. \A x \in S : l <= x
  <2>1. SUFFICES ASSUME NEW x \in S, x < l PROVE FALSE
    BY <1>1
  <2>2. <<x, l>> \in Before
    BY <1>1, <2>1 DEF Before
  <2>3. QED
    BY <1>1, <2>2
<1>3. Least(S) = CHOOSE x \in S : \A y \in S : x <= y
  BY DEF Least
<1>4. QED
  BY <1>1, <1>2, <1>3

LEMMA LeastWhen ==
  ASSUME NEW S \in SUBSET Nat, NEW l \in S, \A x \in S : l <= x
  PROVE  Least(S) = l
<1>1. Least(S) \in S /\ Least(S) <= l
  BY LeastIs
<1>2. l <= Least(S) /\ l \in Nat /\ Least(S) \in Nat
  BY <1>1
<1>3. QED
  BY <1>1, <1>2

-------------------------------------------------------------------------------
(* The time of day.                                                        *)

LEMMA LengthsAre ==
  /\ Hours \in Nat \ {0} /\ Mins \in Nat \ {0}
  /\ HourLen \in Nat \ {0} /\ DayLen \in Nat \ {0}
  /\ HourLen = Mins * Mins /\ DayLen = Hours * HourLen /\ DayLen = HourLen * Hours
<1>1. Hours \in Nat \ {0} /\ Mins \in Nat \ {0}
  BY ClockAssumption
<1>2. \A a, b \in Nat \ {0} : a * b \in Nat \ {0} /\ a * b = b * a
  BY SMT
<1>3. HourLen \in Nat \ {0}
  BY <1>1, <1>2 DEF HourLen
<1>4. DayLen \in Nat \ {0}
  BY <1>1, <1>2, <1>3 DEF DayLen
<1>5. QED
  BY <1>1, <1>2, <1>3, <1>4 DEF HourLen, DayLen

\* The second of the day at h hours, m minutes and s seconds.
At(h, m, s) == h * HourLen + m * Mins + s

OfDay(h, m, s) == h \in 0 .. Hours - 1 /\ m \in 0 .. Mins - 1 /\ s \in 0 .. Mins - 1

\* A smaller digit makes a smaller number, whatever follows.
LEMMA Digits ==
  ASSUME NEW b \in Nat \ {0}, NEW p \in Nat, NEW q \in Nat, p < q,
         NEW r \in 0 .. b - 1
  PROVE  p * b + r < q * b /\ p * b + r \in Nat /\ q * b \in Nat
<1>1. b * (p + 1) <= b * q
  BY ProductGrows
<1>2. b * (p + 1) = p * b + b /\ b * q = q * b /\ p * b \in Nat /\ q * b \in Nat
  BY Product
<1>3. QED
  BY <1>1, <1>2

LEMMA MinuteFits ==
  ASSUME NEW m \in 0 .. Mins - 1, NEW s \in 0 .. Mins - 1
  PROVE  m * Mins + s \in 0 .. HourLen - 1
<1>1. Mins \in Nat \ {0} /\ HourLen = Mins * Mins
  BY LengthsAre
<1>2. m < Mins /\ m \in Nat
  BY <1>1
<1>3. m * Mins + s < Mins * Mins /\ m * Mins + s \in Nat /\ Mins * Mins \in Nat
  BY <1>1, <1>2, Digits
<1>4. QED
  BY <1>1, <1>3

LEMMA HourFits ==
  ASSUME NEW h, NEW m, NEW s, OfDay(h, m, s)
  PROVE  At(h, m, s) \in 0 .. DayLen - 1
<1>1. m * Mins + s \in 0 .. HourLen - 1
  BY MinuteFits DEF OfDay
<1>2. HourLen \in Nat \ {0} /\ DayLen = Hours * HourLen /\ h \in Nat /\ Hours \in Nat /\ h < Hours
  BY LengthsAre DEF OfDay
<1> DEFINE r == m * Mins + s
<1>3. At(h, m, s) = h * HourLen + r
  <2>1. h * HourLen \in Int /\ m * Mins \in Int /\ s \in Int
    BY <1>2, LengthsAre DEF OfDay
  <2>2. QED
    BY <2>1 DEF At
<1> HIDE DEF r
<1>4. h * HourLen + r < Hours * HourLen /\ h * HourLen + r \in Nat /\ Hours * HourLen \in Nat
  <2>1. r \in 0 .. HourLen - 1
    BY <1>1 DEF r
  <2>2. QED
    BY <1>2, <2>1, Digits
<1>5. QED
  BY <1>2, <1>3, <1>4

\* Hours, minutes and seconds of a day d.
LEMMA ClockShows ==
  ASSUME NEW d \in Nat, NEW h, NEW m, NEW s, OfDay(h, m, s),
         NEW t, t = d * DayLen + At(h, m, s)
  PROVE  /\ t \in Nat /\ DayOf(t) = d /\ t % DayLen = At(h, m, s)
         /\ HourOf(t) = h /\ MinOf(t) = m /\ SecOf(t) = s
<1> DEFINE a == At(h, m, s)
           r == m * Mins + s
<1>1. /\ Hours \in Nat \ {0} /\ Mins \in Nat \ {0}
      /\ HourLen \in Nat \ {0} /\ DayLen \in Nat \ {0}
      /\ HourLen = Mins * Mins /\ DayLen = HourLen * Hours
      /\ h \in Nat /\ m \in Nat /\ s \in Nat
  BY LengthsAre DEF OfDay
<1>2. a \in 0 .. DayLen - 1 /\ r \in 0 .. HourLen - 1
  BY HourFits, MinuteFits DEF OfDay
<1>3. a = HourLen * h + r /\ r = Mins * m + s
  <2>1. h * HourLen = HourLen * h /\ m * Mins = Mins * m /\ h * HourLen \in Nat /\ m * Mins \in Nat
    BY <1>1, Product
  <2>2. QED
    BY <1>1, <2>1 DEF At
<1> HIDE DEF a, r
<1>4. t = DayLen * d + a /\ t \in Nat /\ DayLen * d \in Nat
  <2>1. d * DayLen = DayLen * d /\ d * DayLen \in Nat
    BY <1>1, Product
  <2>2. QED
    BY <1>1, <1>2, <2>1 DEF a
<1>5. t \div DayLen = d /\ t % DayLen = a
  BY <1>1, <1>2, <1>4, DivisionIs
<1>6. t = HourLen * (Hours * d + h) + r /\ Hours * d + h \in Nat
  <2>1. DayLen * d = HourLen * (Hours * d)
    BY <1>1
  <2>2. Hours * d \in Nat
    BY <1>1, Product
  <2>3. HourLen * (Hours * d + h) = HourLen * (Hours * d) + HourLen * h
    BY <1>1, <2>2
  <2>4. HourLen * (Hours * d) \in Nat /\ HourLen * h \in Nat
    BY <1>1, <2>2, Product
  <2>5. QED
    BY <1>1, <1>2, <1>3, <1>4, <2>1, <2>2, <2>3, <2>4
<1>7. t % HourLen = r
  <2> DEFINE k == Hours * d + h
  <2>1. t = HourLen * k + r /\ k \in Nat
    BY <1>6
  <2> HIDE DEF k
  <2>2. t \in Nat /\ HourLen \in Nat \ {0} /\ r \in 0 .. HourLen - 1
    BY <1>1, <1>2, <1>4
  <2>3. QED
    BY <2>1, <2>2, DivisionIs
<1>8. t = Mins * (Mins * (Hours * d + h) + m) + s /\ Mins * (Hours * d + h) + m \in Nat
  <2> DEFINE k == Hours * d + h
  <2>1. k \in Nat
    BY <1>6
  <2> HIDE DEF k
  <2>2. HourLen * k = Mins * (Mins * k) /\ Mins * k \in Nat
    BY <1>1, <2>1, Product
  <2>3. Mins * (Mins * k + m) = Mins * (Mins * k) + Mins * m
    BY <1>1, <2>2
  <2>4. Mins * (Mins * k) \in Nat /\ Mins * m \in Nat
    BY <1>1, <2>2, Product
  <2>5. t = Mins * (Mins * k + m) + s
    <3>1. t = HourLen * k + r
      BY <1>6 DEF k
    <3>2. QED
      BY <1>1, <1>3, <2>2, <2>3, <2>4, <3>1
  <2>6. QED
    BY <1>1, <2>2, <2>5 DEF k
<1>9. t % Mins = s
  <2> DEFINE k == Mins * (Hours * d + h) + m
  <2>1. t = Mins * k + s /\ k \in Nat /\ s \in 0 .. Mins - 1
    BY <1>8 DEF OfDay
  <2> HIDE DEF k
  <2>2. QED
    BY <1>1, <1>4, <2>1, DivisionIs, ZenonT(40)
<1>10. a \div HourLen = h
  BY <1>1, <1>2, <1>3, DivisionIs
<1>11. r \div Mins = m
  <2>1. s \in 0 .. Mins - 1 /\ r \in Nat
    BY <1>1, <1>2 DEF OfDay
  <2>2. QED
    BY <1>1, <1>3, <2>1, DivisionIs
<1>12. QED
  BY <1>4, <1>5, <1>7, <1>9, <1>10, <1>11 DEF DayOf, HourOf, MinOf, SecOf, a

\* Every time is shown by the clock.
LEMMA ClockIs ==
  ASSUME NEW t \in Nat
  PROVE  /\ DayOf(t) \in Nat /\ OfDay(HourOf(t), MinOf(t), SecOf(t))
         /\ t = DayOf(t) * DayLen + At(HourOf(t), MinOf(t), SecOf(t))
         /\ t % DayLen = At(HourOf(t), MinOf(t), SecOf(t))
<1> DEFINE d == t \div DayLen
           a == t % DayLen
           h == a \div HourLen
           r == a % HourLen
           m == r \div Mins
           s == r % Mins
<1>1. /\ Hours \in Nat \ {0} /\ Mins \in Nat \ {0}
      /\ HourLen \in Nat \ {0} /\ DayLen \in Nat \ {0}
      /\ HourLen = Mins * Mins /\ DayLen = HourLen * Hours
  BY LengthsAre
<1>2. d \in Nat /\ a \in 0 .. DayLen - 1 /\ t = DayLen * d + a
  BY <1>1, Division
<1>3. h \in Nat /\ r \in 0 .. HourLen - 1 /\ a = HourLen * h + r
  <2>1. a \in Nat
    BY <1>1, <1>2
  <2>2. QED
    BY <1>1, <2>1, Division
<1>4. m \in Nat /\ s \in 0 .. Mins - 1 /\ r = Mins * m + s
  <2>1. r \in Nat
    BY <1>1, <1>3
  <2>2. QED
    BY <1>1, <2>1, Division
<1> HIDE DEF d, a, h, r, m, s
<1>5. HourLen * h \in Nat /\ Mins * m \in Nat /\ h * HourLen = HourLen * h
      /\ m * Mins = Mins * m /\ d * DayLen = DayLen * d /\ DayLen * d \in Nat
  BY <1>1, <1>2, <1>3, <1>4, Product
<1>6. h <= Hours - 1
  <2>1. SUFFICES ASSUME Hours <= h PROVE FALSE
    BY <1>1, <1>3
  <2>2. HourLen * Hours <= HourLen * h
    BY <1>1, <1>3, <2>1, ProductGrows
  <2>3. QED
    BY <1>1, <1>2, <1>3, <1>5, <2>2
<1>7. m <= Mins - 1
  <2>1. SUFFICES ASSUME Mins <= m PROVE FALSE
    BY <1>1, <1>4
  <2>2. Mins * Mins <= Mins * m
    BY <1>1, <1>4, <2>1, ProductGrows
  <2>3. QED
    BY <1>1, <1>3, <1>4, <1>5, <2>2
<1>8. OfDay(h, m, s)
  BY <1>1, <1>3, <1>4, <1>6, <1>7 DEF OfDay
<1>9. a = At(h, m, s)
  BY <1>1, <1>2, <1>3, <1>4, <1>5 DEF At
<1>10. t = d * DayLen + At(h, m, s)
  BY <1>2, <1>5, <1>9
<1>11. /\ DayOf(t) = d /\ t % DayLen = At(h, m, s)
       /\ HourOf(t) = h /\ MinOf(t) = m /\ SecOf(t) = s
  BY <1>2, <1>8, <1>10, ClockShows
<1>12. QED
  BY <1>2, <1>8, <1>10, <1>11

\* The order of times is that of their digits.
NotBefore(h, m, s, h2, m2, s2) == h2 > h \/ (h2 = h /\ (m2 > m \/ (m2 = m /\ s2 >= s)))

LEMMA Ordered ==
  ASSUME NEW h, NEW m, NEW s, NEW h2, NEW m2, NEW s2, OfDay(h, m, s), OfDay(h2, m2, s2)
  PROVE  /\ NotBefore(h, m, s, h2, m2, s2) <=> At(h, m, s) <= At(h2, m2, s2)
         /\ NotBefore(h, m, s, h2, m2, s2) \/ NotBefore(h2, m2, s2, h, m, s)
<1>1. ASSUME NEW i, NEW j, NEW k, NEW i2, NEW j2, NEW k2, OfDay(i, j, k), OfDay(i2, j2, k2)
      PROVE  /\ At(i, j, k) \in Nat
             /\ (i < i2 \/ (i = i2 /\ j < j2) \/ (i = i2 /\ j = j2 /\ k < k2))
                  => At(i, j, k) < At(i2, j2, k2)
  <2> DEFINE r == j * Mins + k
             r2 == j2 * Mins + k2
  <2>1. /\ Mins \in Nat \ {0} /\ HourLen \in Nat \ {0}
        /\ i \in Nat /\ j \in Nat /\ k \in Nat /\ k < Mins
        /\ i2 \in Nat /\ j2 \in Nat /\ k2 \in Nat
    BY <1>1, LengthsAre DEF OfDay
  <2>2. r \in 0 .. HourLen - 1 /\ r2 \in 0 .. HourLen - 1
    BY <1>1, MinuteFits DEF OfDay
  <2>3. j * Mins \in Nat /\ j2 * Mins \in Nat /\ i * HourLen \in Nat /\ i2 * HourLen \in Nat
    BY <2>1, Product
  <2>4. At(i, j, k) = i * HourLen + r /\ At(i2, j2, k2) = i2 * HourLen + r2
    BY <2>1, <2>3 DEF At
  <2>5. j < j2 => j * Mins + k < j2 * Mins
    <3>1. k \in 0 .. Mins - 1
      BY <2>1
    <3>2. QED
      BY <2>1, <3>1, Digits
  <2>6. j < j2 => r < r2
    BY <2>1, <2>3, <2>5
  <2>7. j = j2 /\ k < k2 => r < r2
    BY <2>1, <2>3
  <2> HIDE DEF r, r2
  <2>8. i < i2 => i * HourLen + r < i2 * HourLen
    BY <2>1, <2>2, Digits
  <2>9. QED
    BY <2>1, <2>2, <2>3, <2>4, <2>6, <2>7, <2>8
<1>2. At(h, m, s) \in Nat /\ At(h2, m2, s2) \in Nat
  BY <1>1
<1>3. /\ (h < h2 \/ (h = h2 /\ m < m2) \/ (h = h2 /\ m = m2 /\ s < s2))
           => At(h, m, s) < At(h2, m2, s2)
      /\ (h2 < h \/ (h2 = h /\ m2 < m) \/ (h2 = h /\ m2 = m /\ s2 < s))
           => At(h2, m2, s2) < At(h, m, s)
  BY <1>1
<1>4. h \in Int /\ m \in Int /\ s \in Int /\ h2 \in Int /\ m2 \in Int /\ s2 \in Int
  BY LengthsAre DEF OfDay
<1>5. QED
  BY <1>2, <1>3, <1>4 DEF NotBefore

-------------------------------------------------------------------------------
(* The values of one field that match, and the first of them.              *)

Matches(set, rand) == {x \in 0 .. Mins - 1 : is_schd_match_second_or_min(x, set, rand)}

Minutes(e) == Matches(e.minute, e.rand_min)
Seconds(e) == Matches(e.second, e.rand_sec)
HoursOf(e) == {x \in 0 .. Hours - 1 : is_schd_match_hour(x, e.hour, e.rand_hour)}

\* r is the first of S from now on, if there is one.
IsFirst(S, now, r) ==
  \/ r \in S /\ now <= r /\ \A x \in S : now <= x => r <= x
  \/ r = NO_NEAREST /\ \A x \in S : x < now

LEMMA Codes ==
  /\ MIN_ANY = Mins /\ MIN_EVERY15 = Mins + 1 /\ MIN_EVERY20 = Mins + 2 /\ MIN_RANDOM = Mins + 3
  /\ HOUR_ANY = Hours /\ HOUR_RANDOM = Hours + 1 /\ NO_NEAREST = Hours + Mins + 4
  BY DEF MIN_ANY, MIN_EVERY15, MIN_EVERY20, MIN_RANDOM, HOUR_ANY, HOUR_RANDOM, NO_NEAREST

LEMMA LeastIsFirst ==
  ASSUME NEW S \in SUBSET Nat, NEW now \in Nat
  PROVE  IsFirst(S, now, Least({x \in S : now <= x}))
<1> DEFINE L == {x \in S : now <= x}
<1>1. CASE L = {}
  BY <1>1 DEF IsFirst, Least
<1>2. CASE L # {}
  <2>1. Least(L) \in L /\ \A x \in L : Least(L) <= x
    BY <1>2, LeastIs
  <2>2. QED
    BY <2>1 DEF IsFirst
<1>3. QED
  BY <1>1, <1>2

\* The multiples of a step that divides the hour.
LEMMA MultiplesAre ==
  ASSUME NEW k \in 1 .. Mins, Mins % k = 0
  PROVE  /\ Multiples(k) \subseteq 0 .. Mins - 1 /\ 0 \in Multiples(k)
         /\ \A x \in Multiples(k) :
              /\ x + k < Mins => x + k \in Multiples(k)
              /\ \A y \in Multiples(k) : y <= x \/ x + k <= y
<1> DEFINE n == Mins \div k
<1>1. Mins \in Nat \ {0} /\ k \in Nat \ {0}
  BY LengthsAre
<1>2. n \in Nat /\ Mins = k * n
  <2>1. Mins \in Nat /\ Mins = k * (Mins \div k) + (Mins % k) /\ Mins \div k \in Nat
    BY <1>1, Division
  <2>2. k * (Mins \div k) \in Nat
    BY <1>1, <2>1, Product
  <2>3. QED
    BY <2>1, <2>2
<1>3. Multiples(k) = {i * k : i \in 0 .. n - 1}
  BY DEF Multiples
<1> HIDE DEF n
<1>4. n # 0
  BY <1>1, <1>2
<1>5. \A i \in 0 .. n - 1 : i * k \in 0 .. Mins - 1
  <2> SUFFICES ASSUME NEW i \in 0 .. n - 1 PROVE i * k \in 0 .. Mins - 1
    OBVIOUS
  <2>1. k * (i + 1) <= k * n /\ k * (i + 1) = i * k + k /\ i * k \in Nat
    BY <1>1, <1>2, ProductGrows, Product
  <2>2. QED
    BY <1>1, <1>2, <2>1
<1>6. 0 \in Multiples(k)
  <2>1. 0 \in 0 .. n - 1 /\ 0 = 0 * k
    BY <1>1, <1>2, <1>4
  <2>2. QED
    BY <1>3, <2>1
<1>7. ASSUME NEW i \in 0 .. n - 1, i * k + k < Mins
      PROVE  i * k + k \in Multiples(k)
  <2>1. (i + 1) * k = i * k + k /\ k * (i + 1) = i * k + k
    BY <1>1
  <2>2. i + 1 < n
    <3>1. SUFFICES ASSUME n <= i + 1 PROVE FALSE
      BY <1>2
    <3>2. k * n <= k * (i + 1)
      BY <1>1, <1>2, <3>1, ProductGrows
    <3>3. i * k \in Nat
      BY <1>1, Product
    <3>4. QED
      BY <1>1, <1>2, <1>7, <2>1, <3>2, <3>3
  <2>3. i + 1 \in 0 .. n - 1
    BY <1>2, <2>2
  <2>4. QED
    BY <1>3, <2>1, <2>3
<1>8. ASSUME NEW i \in 0 .. n - 1, NEW j \in 0 .. n - 1
      PROVE  j * k <= i * k \/ i * k + k <= j * k
  <2>1. i * k = k * i /\ j * k = k * j /\ k * (i + 1) = i * k + k /\ i * k \in Nat /\ j * k \in Nat
    BY <1>1, Product
  <2>2. CASE j <= i
    BY <1>1, <2>1, <2>2, ProductGrows
  <2>3. CASE i + 1 <= j
    BY <1>1, <2>1, <2>3, ProductGrows
  <2>4. QED
    BY <2>2, <2>3
<1>9. QED
  BY <1>3, <1>5, <1>6, <1>7, <1>8

\* What each value of a minute or second field matches.
LEMMA MatchesAre ==
  ASSUME NEW set \in 0 .. MIN_RANDOM, NEW rand \in 0 .. Mins - 1
  PROVE  /\ set = MIN_ANY => Matches(set, rand) = 0 .. Mins - 1
         /\ set = MIN_EVERY15 => Matches(set, rand) = Multiples(Every15)
         /\ set = MIN_EVERY20 => Matches(set, rand) = Multiples(Every20)
         /\ set = MIN_RANDOM => Matches(set, rand) = {rand}
         /\ set < Mins => Matches(set, rand) = {set}
         /\ set \in {MIN_ANY, MIN_EVERY15, MIN_EVERY20, MIN_RANDOM} \/ set < Mins
<1>1. /\ Every15 \in 1 .. Mins /\ Mins % Every15 = 0
      /\ Every20 \in 1 .. Mins /\ Mins % Every20 = 0 /\ Mins \in Nat \ {0}
  BY ClockAssumption
<1>2. Multiples(Every15) \subseteq 0 .. Mins - 1 /\ Multiples(Every20) \subseteq 0 .. Mins - 1
  BY <1>1, MultiplesAre
<1>3. set \in 0 .. Mins + 3
  BY Codes
<1>4. QED
  BY <1>1, <1>2, <1>3, Codes DEF Matches, is_schd_match_second_or_min

LEMMA SomeMatch ==
  ASSUME NEW set \in 0 .. MIN_RANDOM, NEW rand \in 0 .. Mins - 1
  PROVE  Matches(set, rand) \subseteq 0 .. Mins - 1 /\ Matches(set, rand) # {}
<1>1. /\ Every15 \in 1 .. Mins /\ Mins % Every15 = 0
      /\ Every20 \in 1 .. Mins /\ Mins % Every20 = 0 /\ Mins \in Nat \ {0}
  BY ClockAssumption
<1>2. 0 \in Multiples(Every15) /\ 0 \in Multiples(Every20) /\ 0 \in 0 .. Mins - 1
  BY <1>1, MultiplesAre
<1>3. Matches(set, rand) # {}
  BY <1>2, MatchesAre
<1>4. QED
  BY <1>3 DEF Matches

\* get_nearest_min_or_sec finds the first match.
LEMMA FirstMatch ==
  ASSUME NEW set \in 0 .. MIN_RANDOM, NEW rand \in 0 .. Mins - 1, NEW now \in 0 .. Mins - 1,
         NEW first \in BOOLEAN
  PROVE  LET r == get_nearest_min_or_sec(set, now, rand, first)
         IN  /\ IsFirst(Matches(set, rand), IF first THEN 0 ELSE now, r)
             /\ first => r \in Matches(set, rand)
<1> DEFINE from == IF first THEN 0 ELSE now
           r == get_nearest_min_or_sec(set, now, rand, first)
           S == Matches(set, rand)
<1>1. from \in Nat /\ from \in 0 .. Mins - 1 /\ (first => from = 0)
  BY ClockAssumption
<1>2. S \subseteq 0 .. Mins - 1 /\ S # {} /\ S \in SUBSET Nat
  BY SomeMatch
<1>3. IsFirst(S, from, r)
  <2>1. CASE set = MIN_ANY
    <3> DEFINE at == CASE set = MIN_ANY     -> {from}
                       [] set = MIN_RANDOM  -> {rand}
                       [] set = MIN_EVERY15 -> Multiples(Every15)
                       [] set = MIN_EVERY20 -> Multiples(Every20)
                       [] OTHER             -> {set}
    <3>a. r = Least({x \in at : from <= x})
      BY DEF get_nearest_min_or_sec
    <3>b. at = {from}
      BY <2>1, Codes, ClockAssumption
    <3>1. r = Least({x \in {from} : from <= x})
      BY <3>a, <3>b
    <3>2. {x \in {from} : from <= x} = {from} /\ {from} \in SUBSET Nat
      BY <1>1
    <3>3. r = from
      BY <1>1, <3>1, <3>2, LeastWhen
    <3>4. S = 0 .. Mins - 1
      BY <2>1, MatchesAre
    <3>5. QED
      BY <1>1, <3>3, <3>4 DEF IsFirst
  <2>2. CASE set # MIN_ANY
    <3>1. r = Least({x \in S : from <= x})
      BY <2>2, MatchesAre, Codes, ClockAssumption DEF get_nearest_min_or_sec
    <3>2. QED
      BY <1>1, <1>2, <3>1, LeastIsFirst
  <2>3. QED
    BY <2>1, <2>2
<1>4. ASSUME first PROVE r \in S
  <2>1. PICK x \in S : x \in Nat /\ from = 0
    BY <1>1, <1>2, <1>4
  <2>2. ~(x < from)
    BY <2>1
  <2> HIDE DEF from, r, S
  <2>3. QED
    BY <1>3, <2>1, <2>2 DEF IsFirst
<1>5. QED
  BY <1>3, <1>4

\* The minute after a match is get_min_sec_step later, if there is one.
LEMMA NextMatch ==
  ASSUME NEW set \in 0 .. MIN_RANDOM, NEW rand \in 0 .. Mins - 1, NEW x \in Matches(set, rand)
  PROVE  LET k == get_min_sec_step(set)
         IN  /\ k \in Nat /\ x \in 0 .. Mins - 1
             /\ k # 0 /\ x + k < Mins =>
                  /\ x + k \in Matches(set, rand)
                  /\ \A y \in Matches(set, rand) : y <= x \/ x + k <= y
             /\ ~(k # 0 /\ x + k < Mins) => \A y \in Matches(set, rand) : y <= x
<1> DEFINE k == get_min_sec_step(set)
           S == Matches(set, rand)
<1>1. /\ Every15 \in 1 .. Mins /\ Mins % Every15 = 0
      /\ Every20 \in 1 .. Mins /\ Mins % Every20 = 0 /\ Mins \in Nat \ {0}
  BY ClockAssumption
<1>2. S \subseteq 0 .. Mins - 1 /\ x \in 0 .. Mins - 1
  BY SomeMatch
<1>3. ASSUME NEW j \in 1 .. Mins, Mins % j = 0, k = j, S = Multiples(j)
      PROVE  /\ x + j < Mins => x + j \in S
             /\ \A y \in S : y <= x \/ x + j <= y
  BY <1>3, MultiplesAre
<1>4. CASE set = MIN_ANY
  <2>1. k = 1 /\ S = 0 .. Mins - 1
    BY <1>4, MatchesAre, Codes, <1>1 DEF get_min_sec_step
  <2>2. QED
    BY <1>1, <1>2, <2>1
<1>5. CASE set = MIN_EVERY15
  <2>1. k = Every15 /\ S = Multiples(Every15)
    BY <1>5, MatchesAre, Codes, <1>1 DEF get_min_sec_step
  <2>2. QED
    BY <1>1, <1>2, <1>3, <2>1
<1>6. CASE set = MIN_EVERY20
  <2>1. k = Every20 /\ S = Multiples(Every20)
    BY <1>6, MatchesAre, Codes, <1>1 DEF get_min_sec_step
  <2>2. QED
    BY <1>1, <1>2, <1>3, <2>1
<1>7. CASE set = MIN_RANDOM \/ set < Mins
  <2>1. k = 0 /\ S \in {{rand}, {set}}
    BY <1>7, MatchesAre, Codes, <1>1 DEF get_min_sec_step
  <2>2. QED
    BY <1>2, <2>1
<1>8. QED
  BY <1>4, <1>5, <1>6, <1>7, MatchesAre

LEMMA FirstHour ==
  ASSUME NEW e \in Entry, NEW now \in 0 .. Hours - 1
  PROVE  /\ IsFirst(HoursOf(e), now, get_nearest_hour(e.hour, now, e.rand_hour))
         /\ HoursOf(e) \subseteq 0 .. Hours - 1
         /\ e.hour = HOUR_ANY => HoursOf(e) = 0 .. Hours - 1
         /\ e.hour # HOUR_ANY => \E x \in 0 .. Hours - 1 : HoursOf(e) = {x}
<1> DEFINE S == HoursOf(e)
           at == IF e.hour = HOUR_RANDOM THEN e.rand_hour ELSE e.hour
           r == get_nearest_hour(e.hour, now, e.rand_hour)
<1>1. e.hour \in 0 .. Hours + 1 /\ e.rand_hour \in 0 .. Hours - 1 /\ Hours \in Nat \ {0}
  BY ClockAssumption, Codes DEF Entry
<1>2. CASE e.hour = HOUR_ANY
  <2>1. r = now
    BY <1>2 DEF get_nearest_hour
  <2>2. S = 0 .. Hours - 1
    BY <1>1, <1>2, Codes DEF HoursOf, is_schd_match_hour
  <2>3. QED
    BY <1>1, <1>2, <2>1, <2>2 DEF IsFirst
<1>3. CASE e.hour # HOUR_ANY
  <2>1. at \in 0 .. Hours - 1
    BY <1>1, <1>3, Codes
  <2>2. r = Least({at} \cap now .. Hours - 1)
    BY <1>3 DEF get_nearest_hour
  <2>3. S = {at}
    BY <1>1, <1>3, Codes DEF HoursOf, is_schd_match_hour
  <2> HIDE DEF at
  <2>4. {at} \cap now .. Hours - 1 = {x \in S : now <= x}
    BY <2>1, <2>3
  <2>5. IsFirst(S, now, r)
    <3>1. S \in SUBSET Nat /\ now \in Nat
      BY <2>1, <2>3
    <3>2. r = Least({x \in S : now <= x})
      BY <2>2, <2>4
    <3>3. QED
      BY <3>1, <3>2, LeastIsFirst
  <2>6. QED
    BY <1>3, <2>1, <2>3, <2>5
<1>4. QED
  BY <1>2, <1>3

-------------------------------------------------------------------------------
(* The first time of the day at which an entry matches.                    *)

Later(m, s, m2, s2) == m2 > m \/ (m2 = m /\ s2 >= s)

\* Within an hour: the first minute and second from m, s on, or from the start
\* of the hour (first).
LEMMA FirstOfHour ==
  ASSUME NEW e \in Entry, NEW m \in 0 .. Mins - 1, NEW s \in 0 .. Mins - 1, NEW first \in BOOLEAN,
         NEW mm, mm = NearestMin(e, m, first),
         NEW ss, ss = IF mm = NO_NEAREST THEN NO_NEAREST ELSE NearestSec(e, s, first \/ mm > m)
  PROVE  LET p    == CheckNextMin(e, mm, ss)
             m0   == IF first THEN 0 ELSE m
             s0   == IF first THEN 0 ELSE s
         IN  \/ /\ p[1] \in Minutes(e) /\ p[2] \in Seconds(e) /\ p[2] # NO_NEAREST
                /\ Later(m0, s0, p[1], p[2])
                /\ \A m2 \in Minutes(e), s2 \in Seconds(e) :
                     Later(m0, s0, m2, s2) => Later(p[1], p[2], m2, s2)
             \/ /\ p[2] = NO_NEAREST
                /\ \A m2 \in Minutes(e), s2 \in Seconds(e) : ~Later(m0, s0, m2, s2)
<1> DEFINE p  == CheckNextMin(e, mm, ss)
           m0 == IF first THEN 0 ELSE m
           s0 == IF first THEN 0 ELSE s
           step == get_min_sec_step(e.minute)
           next == NearestSec(e, 0, TRUE)
<1>1. /\ e.minute \in 0 .. MIN_RANDOM /\ e.second \in 0 .. MIN_RANDOM
      /\ e.rand_min \in 0 .. Mins - 1 /\ e.rand_sec \in 0 .. Mins - 1
      /\ Mins \in Nat \ {0} /\ Hours \in Nat \ {0} /\ NO_NEAREST = Hours + Mins + 4
  BY ClockAssumption, Codes DEF Entry
<1>2. /\ Minutes(e) \subseteq 0 .. Mins - 1 /\ Seconds(e) \subseteq 0 .. Mins - 1
      /\ m0 \in 0 .. Mins - 1 /\ s0 \in 0 .. Mins - 1 /\ 0 \in 0 .. Mins - 1
      /\ NO_NEAREST \notin 0 .. Mins - 1
  BY <1>1, SomeMatch DEF Minutes, Seconds
<1>3. IsFirst(Minutes(e), m0, mm)
  BY <1>1, FirstMatch DEF NearestMin, Minutes
<1>4. mm # NO_NEAREST => IsFirst(Seconds(e), IF first \/ mm > m THEN 0 ELSE s, ss)
  <2>1. ASSUME mm # NO_NEAREST
        PROVE  ss = get_nearest_min_or_sec(e.second, s, e.rand_sec, first \/ mm > m)
    BY <2>1 DEF NearestSec
  <2> DEFINE f == first \/ mm > m
  <2>3. IsFirst(Matches(e.second, e.rand_sec), IF f THEN 0 ELSE s,
                get_nearest_min_or_sec(e.second, s, e.rand_sec, f))
    <3>1. f \in BOOLEAN
      OBVIOUS
    <3> HIDE DEF f
    <3>2. QED
      BY <1>1, <3>1, FirstMatch
  <2>4. QED
    BY <2>1, <2>3 DEF Seconds
<1>5. next \in Seconds(e) /\ \A s2 \in Seconds(e) : next <= s2
  <2>1. IsFirst(Seconds(e), 0, next) /\ next \in Seconds(e)
    BY <1>1, <1>2, FirstMatch DEF NearestSec, Seconds
  <2> HIDE DEF next
  <2>2. ASSUME NEW s2 \in Seconds(e) PROVE next <= s2
    <3>1. s2 \in Nat /\ next \in Nat /\ next # NO_NEAREST /\ ~(s2 < 0) /\ 0 <= s2
      BY <1>2, <2>1
    <3>2. QED
      BY <2>1, <3>1 DEF IsFirst
  <2>3. QED
    BY <2>1, <2>2
<1>6. p = IF mm # NO_NEAREST /\ ss = NO_NEAREST /\ step # 0 /\ mm + step < Mins
          THEN <<mm + step, next>> ELSE <<mm, ss>>
  BY DEF CheckNextMin
<1> HIDE DEF p, m0, s0, step, next
<1>7. CASE mm = NO_NEAREST
  <2>1. p[2] = NO_NEAREST
    BY <1>6, <1>7
  <2>2. \A m2 \in Minutes(e) : m2 < m0
    BY <1>2, <1>3, <1>7 DEF IsFirst
  <2>3. QED
    BY <1>2, <2>1, <2>2 DEF Later, p, m0, s0
<1>8. CASE mm # NO_NEAREST
  <2>1. mm \in Minutes(e) /\ m0 <= mm /\ \A m2 \in Minutes(e) : m0 <= m2 => mm <= m2
    BY <1>3, <1>8 DEF IsFirst
  <2>2. CASE ss # NO_NEAREST
    <3>1. p[1] = mm /\ p[2] = ss
      BY <1>6, <2>2
    <3>2. /\ ss \in Seconds(e)
          /\ (IF first \/ mm > m THEN 0 ELSE s) <= ss
          /\ \A s2 \in Seconds(e) : (IF first \/ mm > m THEN 0 ELSE s) <= s2 => ss <= s2
      BY <1>4, <1>8, <2>2 DEF IsFirst
    <3>3. Later(m0, s0, mm, ss)
      BY <1>2, <2>1, <3>2 DEF Later, m0, s0
    <3>4. ASSUME NEW m2 \in Minutes(e), NEW s2 \in Seconds(e), Later(m0, s0, m2, s2)
          PROVE  Later(mm, ss, m2, s2)
      BY <1>2, <2>1, <3>2, <3>4 DEF Later, m0, s0
    <3>5. QED
      BY <2>1, <2>2, <3>1, <3>2, <3>3, <3>4 DEF p, m0, s0
  <2>3. CASE ss = NO_NEAREST
    <3>1. ~first /\ mm = m /\ m0 = m /\ s0 = s /\ \A s2 \in Seconds(e) : s2 < s
      <4>1. \A s2 \in Seconds(e) : s2 < (IF first \/ mm > m THEN 0 ELSE s)
        BY <1>2, <1>4, <1>8, <2>3 DEF IsFirst
      <4>2. ~(first \/ mm > m)
        BY <1>2, <1>5, <4>1
      <4>3. QED
        BY <1>2, <2>1, <4>1, <4>2 DEF m0, s0
    <3>2. /\ step \in Nat
          /\ step # 0 /\ mm + step < Mins =>
               /\ mm + step \in Minutes(e)
               /\ \A y \in Minutes(e) : y <= mm \/ mm + step <= y
          /\ ~(step # 0 /\ mm + step < Mins) => \A y \in Minutes(e) : y <= mm
      BY <1>1, <2>1, NextMatch DEF Minutes, step
    <3>3. CASE step # 0 /\ mm + step < Mins
      <4>1. p[1] = mm + step /\ p[2] = next
        BY <1>6, <1>8, <2>3, <3>3
      <4>2. Later(m0, s0, mm + step, next)
        BY <1>2, <2>1, <3>1, <3>2, <3>3 DEF Later
      <4>3. ASSUME NEW m2 \in Minutes(e), NEW s2 \in Seconds(e), Later(m0, s0, m2, s2)
            PROVE  Later(mm + step, next, m2, s2)
        BY <1>2, <1>5, <2>1, <3>1, <3>2, <3>3, <4>3 DEF Later
      <4>4. QED
        BY <1>2, <1>5, <3>2, <3>3, <4>1, <4>2, <4>3 DEF p, m0, s0
    <3>4. CASE ~(step # 0 /\ mm + step < Mins)
      <4>1. p[2] = NO_NEAREST
        BY <1>6, <2>3, <3>4
      <4>2. ASSUME NEW m2 \in Minutes(e), NEW s2 \in Seconds(e)
            PROVE  ~Later(m0, s0, m2, s2)
        BY <1>2, <2>1, <3>1, <3>2, <3>4 DEF Later
      <4>3. QED
        BY <4>1, <4>2 DEF p, m0, s0
    <3>5. QED
      BY <3>3, <3>4
  <2>4. QED
    BY <2>2, <2>3
<1>9. QED
  BY <1>7, <1>8

\* Of a day that the entry selects.
LEMMA FirstOfDay ==
  ASSUME NEW e \in Entry, NEW t \in Nat, e.alive, DayOf(t) \in e.days
  PROVE  LET now(h, m, s) == NotBefore(HourOf(t), MinOf(t), SecOf(t), h, m, s)
         IN  \/ \E h \in HoursOf(e), m \in Minutes(e), s \in Seconds(e) :
                  /\ NearestToday(e, t) = At(h, m, s) /\ now(h, m, s)
                  /\ \A h2 \in HoursOf(e), m2 \in Minutes(e), s2 \in Seconds(e) :
                       now(h2, m2, s2) => NotBefore(h, m, s, h2, m2, s2)
             \/ /\ NearestToday(e, t) = Never
                /\ \A h2 \in HoursOf(e), m2 \in Minutes(e), s2 \in Seconds(e) : ~now(h2, m2, s2)
<1> DEFINE h0 == HourOf(t)
           m0 == MinOf(t)
           s0 == SecOf(t)
           hh == get_nearest_hour(e.hour, h0, e.rand_hour)
           mm == NearestMin(e, m0, hh > h0)
           ss == IF mm = NO_NEAREST THEN NO_NEAREST ELSE NearestSec(e, s0, hh > h0 \/ mm > m0)
           p  == CheckNextMin(e, mm, ss)
           m1 == NearestMin(e, 0, TRUE)
           s1 == NearestSec(e, 0, TRUE)
           v  == NearestToday(e, t)
<1>1. /\ e.minute \in 0 .. MIN_RANDOM /\ e.second \in 0 .. MIN_RANDOM
      /\ e.rand_min \in 0 .. Mins - 1 /\ e.rand_sec \in 0 .. Mins - 1
      /\ Mins \in Nat \ {0} /\ Hours \in Nat \ {0} /\ NO_NEAREST = Hours + Mins + 4
  BY ClockAssumption, Codes DEF Entry
<1>2. h0 \in 0 .. Hours - 1 /\ m0 \in 0 .. Mins - 1 /\ s0 \in 0 .. Mins - 1
  BY ClockIs DEF OfDay
<1>3. /\ Minutes(e) \subseteq 0 .. Mins - 1 /\ Seconds(e) \subseteq 0 .. Mins - 1
      /\ Minutes(e) # {} /\ Seconds(e) # {}
      /\ 0 \in 0 .. Mins - 1 /\ NO_NEAREST \notin 0 .. Hours - 1
  <2>1. 0 \in 0 .. Mins - 1 /\ NO_NEAREST \notin 0 .. Hours - 1
    BY <1>1
  <2>2. QED
    BY <1>1, <2>1, SomeMatch DEF Minutes, Seconds
<1>4. /\ IsFirst(HoursOf(e), h0, hh) /\ HoursOf(e) \subseteq 0 .. Hours - 1
      /\ e.hour = HOUR_ANY => HoursOf(e) = 0 .. Hours - 1
      /\ e.hour # HOUR_ANY => \E x \in 0 .. Hours - 1 : HoursOf(e) = {x}
  BY <1>2, FirstHour
<1>5. /\ m1 \in Minutes(e) /\ \A m2 \in Minutes(e) : m1 <= m2
      /\ s1 \in Seconds(e) /\ \A s2 \in Seconds(e) : s1 <= s2
  <2>1. IsFirst(Minutes(e), 0, m1) /\ m1 \in Minutes(e)
    BY <1>1, <1>3, FirstMatch DEF NearestMin, Minutes
  <2>2. IsFirst(Seconds(e), 0, s1) /\ s1 \in Seconds(e)
    BY <1>1, <1>3, FirstMatch DEF NearestSec, Seconds
  <2> HIDE DEF m1, s1
  <2>3. ASSUME NEW S, S \subseteq 0 .. Mins - 1, NEW r \in S, IsFirst(S, 0, r), NEW x \in S
        PROVE  r <= x
    <3>1. x \in Nat /\ r \in Nat /\ 0 <= x /\ ~(x < 0)
      BY <1>1, <2>3
    <3>2. QED
      BY <2>3, <3>1 DEF IsFirst
  <2>4. QED
    BY <1>3, <2>1, <2>2, <2>3
<1>6. v = IF hh # NO_NEAREST THEN CheckNextHour(e, hh, p) ELSE Never
  BY DEF NearestToday
<1>7. LET a == IF hh > h0 THEN 0 ELSE m0
          b == IF hh > h0 THEN 0 ELSE s0
      IN  \/ /\ p[1] \in Minutes(e) /\ p[2] \in Seconds(e) /\ p[2] # NO_NEAREST
             /\ Later(a, b, p[1], p[2])
             /\ \A m2 \in Minutes(e), s2 \in Seconds(e) :
                  Later(a, b, m2, s2) => Later(p[1], p[2], m2, s2)
          \/ /\ p[2] = NO_NEAREST
             /\ \A m2 \in Minutes(e), s2 \in Seconds(e) : ~Later(a, b, m2, s2)
  <2> DEFINE f == hh > h0
  <2>1. f \in BOOLEAN /\ mm = NearestMin(e, m0, f)
        /\ ss = IF mm = NO_NEAREST THEN NO_NEAREST ELSE NearestSec(e, s0, f \/ mm > m0)
    OBVIOUS
  <2> HIDE DEF f, mm, ss
  <2>2. LET a == IF f THEN 0 ELSE m0
            b == IF f THEN 0 ELSE s0
        IN  \/ /\ p[1] \in Minutes(e) /\ p[2] \in Seconds(e) /\ p[2] # NO_NEAREST
               /\ Later(a, b, p[1], p[2])
               /\ \A m2 \in Minutes(e), s2 \in Seconds(e) :
                    Later(a, b, m2, s2) => Later(p[1], p[2], m2, s2)
            \/ /\ p[2] = NO_NEAREST
               /\ \A m2 \in Minutes(e), s2 \in Seconds(e) : ~Later(a, b, m2, s2)
    BY <1>2, <2>1, FirstOfHour
  <2>3. QED
    BY <2>2 DEF f
<1>8. p[2] # NO_NEAREST => CheckNextHour(e, hh, p) = At(hh, p[1], p[2])
  BY DEF CheckNextHour, At
<1>9. p[2] = NO_NEAREST =>
        CheckNextHour(e, hh, p) = IF e.hour = HOUR_ANY /\ hh + 1 < Hours
                                  THEN At(hh + 1, m1, s1) ELSE Never
  BY DEF CheckNextHour, At
<1> HIDE DEF h0, m0, s0, hh, mm, ss, p, m1, s1, v
<1>10. CASE hh = NO_NEAREST
  <2>1. v = Never /\ \A h2 \in HoursOf(e) : h2 < h0
    BY <1>3, <1>4, <1>6, <1>10 DEF IsFirst
  <2>2. ASSUME NEW h2 \in HoursOf(e), NEW m2, NEW s2 PROVE ~NotBefore(h0, m0, s0, h2, m2, s2)
    BY <1>2, <1>4, <2>1 DEF NotBefore
  <2>3. QED
    BY <2>1, <2>2 DEF h0, m0, s0, v
<1>11. CASE hh # NO_NEAREST
  <2>1. hh \in HoursOf(e) /\ h0 <= hh /\ \A h2 \in HoursOf(e) : h0 <= h2 => hh <= h2
    BY <1>4, <1>11 DEF IsFirst
  <2>2. h0 \in Nat /\ hh \in Nat
    BY <1>2, <1>4, <2>1
  <2>3. CASE p[2] # NO_NEAREST
    <3>1. v = At(hh, p[1], p[2])
      BY <1>6, <1>8, <1>11, <2>3
    <3>2. p[1] \in Minutes(e) /\ p[2] \in Seconds(e)
      BY <1>7, <2>3
    <3>3. NotBefore(h0, m0, s0, hh, p[1], p[2])
      BY <1>7, <2>1, <2>2, <2>3 DEF NotBefore, Later
    <3>4. ASSUME NEW h2 \in HoursOf(e), NEW m2 \in Minutes(e), NEW s2 \in Seconds(e),
                 NotBefore(h0, m0, s0, h2, m2, s2)
          PROVE  NotBefore(hh, p[1], p[2], h2, m2, s2)
      <4>1. h2 \in Nat /\ m2 \in Nat /\ s2 \in Nat /\ h0 <= h2 /\ hh <= h2
        BY <1>3, <1>4, <2>1, <2>2, <3>4 DEF NotBefore
      <4>2. h2 = hh => Later(IF hh > h0 THEN 0 ELSE m0, IF hh > h0 THEN 0 ELSE s0, m2, s2)
        BY <2>1, <2>2, <3>4, <4>1 DEF NotBefore, Later
      <4>3. h2 = hh => Later(p[1], p[2], m2, s2)
        BY <1>7, <2>3, <4>2
      <4>4. QED
        BY <2>2, <4>1, <4>3 DEF NotBefore, Later
    <3>5. QED
      BY <2>1, <3>1, <3>2, <3>3, <3>4 DEF h0, m0, s0, v
  <2>4. CASE p[2] = NO_NEAREST
    <3>1. hh = h0 /\ \A m2 \in Minutes(e), s2 \in Seconds(e) : ~Later(m0, s0, m2, s2)
      <4>1. ASSUME hh > h0 PROVE FALSE
        <5>1. \A m2 \in Minutes(e), s2 \in Seconds(e) : ~Later(0, 0, m2, s2)
          BY <1>3, <1>7, <2>4, <4>1
        <5>2. PICK m2 \in Minutes(e), s2 \in Seconds(e) : m2 \in Nat /\ s2 \in Nat
          BY <1>3
        <5>3. QED
          BY <5>1, <5>2 DEF Later
      <4>2. hh = h0
        BY <2>1, <2>2, <4>1
      <4>3. QED
        BY <1>7, <2>2, <2>4, <4>2
    <3>2. ASSUME NEW h2 \in HoursOf(e), NEW m2 \in Minutes(e), NEW s2 \in Seconds(e),
                 NotBefore(h0, m0, s0, h2, m2, s2)
          PROVE  hh < h2 /\ h2 \in 0 .. Hours - 1
      BY <1>4, <2>2, <3>1, <3>2 DEF NotBefore, Later
    <3>3. CASE e.hour = HOUR_ANY /\ hh + 1 < Hours
      <4>1. v = At(hh + 1, m1, s1)
        BY <1>6, <1>9, <1>11, <2>4, <3>3
      <4>2. hh + 1 \in HoursOf(e)
        BY <1>1, <1>4, <2>2, <3>3
      <4>3. NotBefore(h0, m0, s0, hh + 1, m1, s1)
        BY <2>2, <3>1 DEF NotBefore
      <4>4. ASSUME NEW h2 \in HoursOf(e), NEW m2 \in Minutes(e), NEW s2 \in Seconds(e),
                   NotBefore(h0, m0, s0, h2, m2, s2)
            PROVE  NotBefore(hh + 1, m1, s1, h2, m2, s2)
        <5>1. hh < h2 /\ h2 \in Nat /\ m1 <= m2 /\ s1 <= s2 /\ m1 \in Nat /\ m2 \in Nat
              /\ s1 \in Nat /\ s2 \in Nat
          BY <1>3, <1>5, <3>2, <4>4
        <5>2. QED
          BY <2>2, <5>1 DEF NotBefore
      <4>5. QED
        BY <1>5, <4>1, <4>2, <4>3, <4>4 DEF h0, m0, s0, v
    <3>4. CASE ~(e.hour = HOUR_ANY /\ hh + 1 < Hours)
      <4>1. v = Never
        BY <1>6, <1>9, <1>11, <2>4, <3>4
      <4>2. \A h2 \in HoursOf(e) : h2 <= hh
        BY <1>1, <1>4, <2>1, <2>2, <3>4
      <4>3. ASSUME NEW h2 \in HoursOf(e), NEW m2 \in Minutes(e), NEW s2 \in Seconds(e)
            PROVE  ~NotBefore(h0, m0, s0, h2, m2, s2)
        BY <2>2, <3>2, <4>2
      <4>4. QED
        BY <4>1, <4>3 DEF h0, m0, s0, v
    <3>5. QED
      BY <3>3, <3>4
  <2>5. QED
    BY <2>3, <2>4
<1>12. QED
  BY <1>10, <1>11

-------------------------------------------------------------------------------
(* g_schd_nearest.                                                         *)

\* An entry is due when all its fields match.
LEMMA DueAt ==
  ASSUME NEW e, NEW d \in Nat, NEW h, NEW m, NEW s, OfDay(h, m, s)
  PROVE  Due(e, d * DayLen + At(h, m, s)) <=>
           /\ e.alive /\ d \in e.days
           /\ h \in HoursOf(e) /\ m \in Minutes(e) /\ s \in Seconds(e)
<1> DEFINE u == d * DayLen + At(h, m, s)
<1>1. DayOf(u) = d /\ HourOf(u) = h /\ MinOf(u) = m /\ SecOf(u) = s
  BY ClockShows
<1> HIDE DEF u
<1>2. Due(e, u) <=>
        /\ e.alive /\ d \in e.days
        /\ h \in HoursOf(e) /\ m \in Minutes(e) /\ s \in Seconds(e)
  BY <1>1 DEF Due, HoursOf, Minutes, Seconds, Matches, OfDay
<1>3. QED
  BY <1>2 DEF u

LEMMA OfEntry ==
  ASSUME NEW e \in Entry, NEW h \in HoursOf(e), NEW m \in Minutes(e), NEW s \in Seconds(e)
  PROVE  OfDay(h, m, s)
  BY DEF HoursOf, Minutes, Seconds, Matches, OfDay

\* For one entry the stepwise search finds what a search of the whole day would.
LEMMA TodayIs ==
  ASSUME NEW e \in Entry, NEW t \in Nat
  PROVE  LET v == NearestToday(e, t)
         IN  /\ v \in Nat
             /\ v < DayLen => t % DayLen <= v /\ Due(e, DayOf(t) * DayLen + v)
             /\ \A u \in Nat : DayOf(u) = DayOf(t) /\ t <= u /\ Due(e, u) => v <= u % DayLen
<1> DEFINE v == NearestToday(e, t)
           d == DayOf(t)
           now(h, m, s) == NotBefore(HourOf(t), MinOf(t), SecOf(t), h, m, s)
<1>1. /\ d \in Nat /\ OfDay(HourOf(t), MinOf(t), SecOf(t)) /\ d * DayLen \in Nat
      /\ t % DayLen = At(HourOf(t), MinOf(t), SecOf(t))
      /\ t = d * DayLen + (t % DayLen)
  BY ClockIs, LengthsAre, Product
<1>2. Never \in Nat /\ DayLen <= Never /\ DayLen \in Nat
  BY LengthsAre, Codes, ClockAssumption DEF Never
<1>3. CASE ~(e.alive /\ d \in e.days)
  <2>1. v = Never
    BY <1>3 DEF NearestToday
  <2>2. \A u \in Nat : DayOf(u) = d => ~Due(e, u)
    BY <1>3 DEF Due
  <2>3. QED
    BY <1>2, <2>1, <2>2
<1>4. CASE e.alive /\ d \in e.days
  <2>1. ASSUME NEW u \in Nat, DayOf(u) = d, t <= u, Due(e, u)
        PROVE  \E h2 \in HoursOf(e), m2 \in Minutes(e), s2 \in Seconds(e) :
                 now(h2, m2, s2) /\ u % DayLen = At(h2, m2, s2)
    <3> DEFINE h2 == HourOf(u)
               m2 == MinOf(u)
               s2 == SecOf(u)
    <3>1. OfDay(h2, m2, s2) /\ u = d * DayLen + At(h2, m2, s2) /\ u % DayLen = At(h2, m2, s2)
      BY <2>1, ClockIs
    <3>2. h2 \in HoursOf(e) /\ m2 \in Minutes(e) /\ s2 \in Seconds(e)
      BY <1>1, <2>1, <3>1, DueAt
    <3> HIDE DEF h2, m2, s2
    <3>3. At(HourOf(t), MinOf(t), SecOf(t)) <= At(h2, m2, s2)
      <4>1. At(h2, m2, s2) \in Nat /\ At(HourOf(t), MinOf(t), SecOf(t)) \in Nat
        BY <1>1, <3>1, HourFits, LengthsAre
      <4>2. QED
        BY <1>1, <2>1, <3>1, <4>1
    <3>4. now(h2, m2, s2)
      BY <1>1, <3>1, <3>3, Ordered
    <3>5. QED
      BY <3>1, <3>2, <3>4
  <2>2. \/ \E h \in HoursOf(e), m \in Minutes(e), s \in Seconds(e) :
             /\ v = At(h, m, s) /\ now(h, m, s)
             /\ \A h2 \in HoursOf(e), m2 \in Minutes(e), s2 \in Seconds(e) :
                  now(h2, m2, s2) => NotBefore(h, m, s, h2, m2, s2)
        \/ /\ v = Never
           /\ \A h2 \in HoursOf(e), m2 \in Minutes(e), s2 \in Seconds(e) : ~now(h2, m2, s2)
    BY <1>4, FirstOfDay
  <2> HIDE DEF v
  <2>3. ASSUME NEW h \in HoursOf(e), NEW m \in Minutes(e), NEW s \in Seconds(e),
               v = At(h, m, s), now(h, m, s),
               \A h2 \in HoursOf(e), m2 \in Minutes(e), s2 \in Seconds(e) :
                 now(h2, m2, s2) => NotBefore(h, m, s, h2, m2, s2)
        PROVE  /\ v \in Nat
               /\ t % DayLen <= v /\ Due(e, d * DayLen + v)
               /\ \A u \in Nat : DayOf(u) = d /\ t <= u /\ Due(e, u) => v <= u % DayLen
    <3>1. OfDay(h, m, s) /\ v \in Nat
      <4>1. OfDay(h, m, s)
        BY OfEntry
      <4>2. QED
        BY <2>3, <4>1, HourFits, LengthsAre
    <3>2. t % DayLen <= v
      BY <1>1, <2>3, <3>1, Ordered
    <3>3. Due(e, d * DayLen + v)
      BY <1>1, <1>4, <2>3, <3>1, DueAt
    <3>4. ASSUME NEW u \in Nat, DayOf(u) = d, t <= u, Due(e, u) PROVE v <= u % DayLen
      <4>1. PICK h2 \in HoursOf(e), m2 \in Minutes(e), s2 \in Seconds(e) :
              now(h2, m2, s2) /\ u % DayLen = At(h2, m2, s2)
        BY <2>1, <3>4
      <4>2. OfDay(h2, m2, s2) /\ NotBefore(h, m, s, h2, m2, s2)
        BY <2>3, <4>1, OfEntry
      <4>3. QED
        BY <2>3, <3>1, <4>1, <4>2, Ordered
    <3>5. QED
      BY <3>1, <3>2, <3>3, <3>4
  <2>4. ASSUME v = Never,
               \A h2 \in HoursOf(e), m2 \in Minutes(e), s2 \in Seconds(e) : ~now(h2, m2, s2)
        PROVE  \A u \in Nat : ~(DayOf(u) = d /\ t <= u /\ Due(e, u))
    BY <2>1, <2>4
  <2>5. QED
    BY <1>2, <2>2, <2>3, <2>4 DEF v
<1>5. QED
  BY <1>3, <1>4

\* The seconds from t to the end of its day at which an entry is due.
Rest(s, t) == {u \in t .. (DayOf(t) + 1) * DayLen - 1 : AllDue(s, u) # {}}

LEMMA SameDay ==
  ASSUME NEW t \in Nat
  PROVE  /\ (DayOf(t) + 1) * DayLen \in Nat /\ t < (DayOf(t) + 1) * DayLen
         /\ \A u \in t .. (DayOf(t) + 1) * DayLen - 1 :
              /\ DayOf(u) = DayOf(t) /\ u \in Nat
              /\ u = DayOf(t) * DayLen + (u % DayLen) /\ u % DayLen \in 0 .. DayLen - 1
<1> DEFINE d == DayOf(t)
<1>1. /\ d \in Nat /\ DayLen \in Nat \ {0}
      /\ t = DayLen * d + (t % DayLen) /\ t % DayLen \in 0 .. DayLen - 1
  BY LengthsAre, Division DEF DayOf
<1> HIDE DEF d
<1>2. d * DayLen = DayLen * d /\ (d + 1) * DayLen = DayLen * d + DayLen /\ DayLen * d \in Nat
  BY <1>1, Product
<1>3. t < (d + 1) * DayLen /\ (d + 1) * DayLen \in Nat
  BY <1>1, <1>2
<1>4. ASSUME NEW u \in t .. (d + 1) * DayLen - 1
      PROVE  /\ DayOf(u) = d /\ u \in Nat
             /\ u = d * DayLen + (u % DayLen) /\ u % DayLen \in 0 .. DayLen - 1
  <2> DEFINE r == u - DayLen * d
  <2>1. u \in Nat /\ r \in 0 .. DayLen - 1 /\ u = DayLen * d + r
    BY <1>1, <1>2
  <2> HIDE DEF r
  <2>2. u \div DayLen = d /\ u % DayLen = r
    BY <1>1, <2>1, DivisionIs
  <2>3. QED
    BY <1>2, <2>1, <2>2 DEF DayOf
<1>5. QED
  BY <1>3, <1>4 DEF d

LEMMA NextSecond ==
  ASSUME NEW t \in Nat, (t + 1) % DayLen # 0
  PROVE  DayOf(t + 1) = DayOf(t)
<1> DEFINE q == DayOf(t) + 1
<1>1. DayLen \in Nat \ {0} /\ q \in Nat /\ t + 1 \in Nat
  BY LengthsAre, ClockIs
<1>2. ASSUME t + 1 = q * DayLen PROVE FALSE
  <2> HIDE DEF q
  <2>1. q * DayLen = DayLen * q /\ DayLen * q \in Nat
    BY <1>1, Product
  <2>2. t + 1 = DayLen * q + 0 /\ 0 \in 0 .. DayLen - 1
    BY <1>1, <1>2, <2>1
  <2>3. QED
    BY <1>1, <2>2, DivisionIs
<1>3. t + 1 \in t .. (DayOf(t) + 1) * DayLen - 1
  <2>1. (DayOf(t) + 1) * DayLen \in Nat /\ t < (DayOf(t) + 1) * DayLen
    BY SameDay
  <2>2. QED
    BY <1>2, <2>1
<1>4. QED
  BY <1>3, SameDay

\* update_schd_nearest_TAI_today agrees with looking at every second left of
\* the day.
LEMMA UpdateIs ==
  ASSUME NEW s \in [Entries -> Entry], NEW t \in Nat
  PROVE  update_schd_nearest_TAI_today(s, t) =
           IF Rest(s, t) = {} THEN NoneToday
           ELSE [TAI_local |-> Least(Rest(s, t)), entry_bit |-> AllDue(s, Least(Rest(s, t)))]
<1> DEFINE N(i) == NearestToday(s[i], t)
           today == {x \in {<<i, NearestToday(s[i], t)>> : i \in Entries} : x[2] < DayLen}
           V     == {x[2] : x \in today}
           at    == Least(V)
           d     == DayOf(t)
           when  == d * DayLen + at
           bits  == {x[1] : x \in {y \in today : y[2] = at}}
<1>1. update_schd_nearest_TAI_today(s, t) =
        IF today = {} \/ when < t THEN NoneToday ELSE [TAI_local |-> when, entry_bit |-> bits]
  BY DEF update_schd_nearest_TAI_today
<1>2. \A i \in Entries :
        /\ N(i) \in Nat
        /\ N(i) < DayLen => t % DayLen <= N(i) /\ Due(s[i], d * DayLen + N(i))
        /\ \A u \in Nat : DayOf(u) = d /\ t <= u /\ Due(s[i], u) => N(i) <= u % DayLen
  BY TodayIs
<1> HIDE DEF N
<1>3. /\ today = {} <=> \A i \in Entries : ~(N(i) < DayLen)
      /\ V = {v \in Nat : v < DayLen /\ \E i \in Entries : N(i) = v}
      /\ bits = {i \in Entries : N(i) < DayLen /\ N(i) = at}
  <2>1. today = {x \in {<<i, N(i)>> : i \in Entries} : x[2] < DayLen}
    BY DEF N
  <2> HIDE DEF today, at
  <2>2. \A i \in Entries : <<i, N(i)>> \in today <=> N(i) < DayLen
    BY <2>1
  <2>3. \A x \in today : \E i \in Entries : x = <<i, N(i)>> /\ N(i) < DayLen
    BY <2>1
  <2>4. today = {} <=> \A i \in Entries : ~(N(i) < DayLen)
    BY <2>2, <2>3
  <2>5. V = {v \in Nat : v < DayLen /\ \E i \in Entries : N(i) = v}
    <3>1. \A v \in V : v \in Nat /\ v < DayLen /\ \E i \in Entries : N(i) = v
      BY <1>2, <2>3
    <3>2. ASSUME NEW i \in Entries, N(i) < DayLen PROVE N(i) \in V
      <4>1. PICK x \in today : x = <<i, N(i)>>
        BY <2>2, <3>2
      <4>2. x[2] = N(i)
        BY <4>1
      <4>3. QED
        BY <4>1, <4>2
    <3> HIDE DEF V
    <3>3. QED
      BY <3>1, <3>2
  <2>6. bits = {i \in Entries : N(i) < DayLen /\ N(i) = at}
    <3>1. \A i \in bits : i \in Entries /\ N(i) < DayLen /\ N(i) = at
      BY <2>3
    <3>2. ASSUME NEW i \in Entries, N(i) < DayLen, N(i) = at PROVE i \in bits
      <4>1. PICK x \in today : x = <<i, N(i)>>
        BY <2>2, <3>2
      <4>2. x[1] = i /\ x[2] = at
        BY <3>2, <4>1
      <4>3. QED
        BY <4>1, <4>2
    <3> HIDE DEF bits
    <3>3. QED
      BY <3>1, <3>2
  <2>7. QED
    BY <2>4, <2>5, <2>6
<1>4. /\ (d + 1) * DayLen \in Nat /\ t < (d + 1) * DayLen
      /\ \A u \in t .. (d + 1) * DayLen - 1 :
           /\ DayOf(u) = d /\ u \in Nat
           /\ u = d * DayLen + (u % DayLen) /\ u % DayLen \in 0 .. DayLen - 1
  BY SameDay
<1>5. d \in Nat /\ DayLen \in Nat \ {0} /\ d * DayLen \in Nat
      /\ (d + 1) * DayLen = d * DayLen + DayLen
      /\ t = d * DayLen + (t % DayLen) /\ t % DayLen \in 0 .. DayLen - 1
  <2>1. d \in Nat /\ DayLen \in Nat \ {0}
    BY ClockIs, LengthsAre
  <2>2. t \in t .. (d + 1) * DayLen - 1
    BY <1>4
  <2>3. QED
    BY <1>4, <2>1, <2>2, Product
<1> HIDE DEF d, today, V, bits
<1>6. \A u \in Rest(s, t) :
        \E i \in Entries : Due(s[i], u) /\ N(i) <= u % DayLen /\ N(i) < DayLen
  <2> SUFFICES ASSUME NEW u \in Rest(s, t)
               PROVE  \E i \in Entries : Due(s[i], u) /\ N(i) <= u % DayLen /\ N(i) < DayLen
    OBVIOUS
  <2>1. u \in t .. (d + 1) * DayLen - 1 /\ AllDue(s, u) # {}
    BY DEF Rest, d
  <2>2. PICK i \in Entries : Due(s[i], u)
    BY <2>1 DEF AllDue
  <2>3. N(i) <= u % DayLen /\ N(i) \in Nat
    BY <1>2, <1>4, <1>5, <2>1, <2>2
  <2>4. QED
    BY <1>4, <1>5, <2>1, <2>2, <2>3
<1>7. CASE today = {}
  BY <1>1, <1>3, <1>6, <1>7
<1>8. CASE today # {}
  <2>1. V \in SUBSET Nat /\ V # {}
    BY <1>2, <1>3, <1>8
  <2>2. at \in V /\ \A v \in V : at <= v
    BY <2>1, LeastIs
  <2>3. at \in Nat /\ at < DayLen
    BY <1>3, <2>2
  <2>4. PICK i \in Entries : N(i) = at
    BY <1>3, <2>2
  <2> HIDE DEF at
  <2>5. when \in t .. (d + 1) * DayLen - 1 /\ Due(s[i], when)
    <3>1. t % DayLen <= at /\ Due(s[i], when)
      BY <1>2, <2>3, <2>4
    <3>2. QED
      BY <1>4, <1>5, <2>3, <3>1
  <2>6. when \in Rest(s, t)
    BY <2>5 DEF Rest, AllDue, d
  <2>7. ASSUME NEW u \in Rest(s, t) PROVE when <= u
    <3>1. PICK j \in Entries : N(j) <= u % DayLen /\ N(j) < DayLen
      BY <1>6
    <3>2. N(j) \in V /\ N(j) \in Nat
      BY <1>2, <1>3, <3>1
    <3>3. at <= N(j) /\ u \in t .. (d + 1) * DayLen - 1
      BY <2>2, <3>2 DEF Rest, d
    <3>4. QED
      BY <1>4, <1>5, <2>3, <3>1, <3>2, <3>3
  <2>8. Rest(s, t) \in SUBSET Nat
    BY <1>4 DEF Rest, d
  <2>9. Least(Rest(s, t)) = when
    BY <2>6, <2>7, <2>8, LeastWhen
  <2>10. when % DayLen = at
    <3>1. when = d * DayLen + (when % DayLen) /\ when % DayLen \in 0 .. DayLen - 1
      BY <1>4, <2>5
    <3>2. QED
      BY <1>5, <2>3, <3>1
  <2>11. bits = AllDue(s, when)
    <3>1. ASSUME NEW j \in bits PROVE j \in AllDue(s, when)
      BY <1>2, <1>3, <3>1 DEF AllDue
    <3>2. ASSUME NEW j \in AllDue(s, when) PROVE j \in bits
      <4>1. j \in Entries /\ Due(s[j], when)
        BY DEF AllDue
      <4>2. N(j) <= at /\ N(j) \in Nat
        BY <1>2, <1>4, <2>5, <2>10, <4>1
      <4>3. N(j) \in V
        BY <1>3, <1>5, <2>3, <4>1, <4>2
      <4>4. N(j) = at
        BY <2>2, <2>3, <4>2, <4>3
      <4>5. QED
        BY <1>3, <2>3, <4>1, <4>4
    <3>3. QED
      BY <3>1, <3>2
  <2>12. ~(when < t)
    BY <1>4, <2>5
  <2>13. QED
    BY <1>1, <1>8, <2>6, <2>9, <2>11, <2>12
<1>9. QED
  BY <1>7, <1>8

\* So it is of this second exactly when something is due now.
LEMMA UpdateNow ==
  ASSUME NEW s \in [Entries -> Entry], NEW t \in Nat \ {0},
         NEW n, n = update_schd_nearest_TAI_today(s, t)
  PROVE  /\ n \in [TAI_local : Nat, entry_bit : SUBSET Entries]
         /\ n.TAI_local # 0 => n.entry_bit = AllDue(s, n.TAI_local)
         /\ AllDue(s, t) # {} => n.TAI_local = t
<1> DEFINE R == Rest(s, t)
<1>1. t \in t .. (DayOf(t) + 1) * DayLen - 1 /\ R \in SUBSET Nat /\ \A u \in R : t <= u
  BY SameDay DEF Rest
<1>2. AllDue(s, t) # {} => t \in R
  BY <1>1 DEF Rest
<1>3. n = IF R = {} THEN NoneToday
          ELSE [TAI_local |-> Least(R), entry_bit |-> AllDue(s, Least(R))]
  BY UpdateIs
<1> HIDE DEF R
<1>4. CASE R = {}
  BY <1>2, <1>3, <1>4 DEF NoneToday
<1>5. CASE R # {}
  <2>1. Least(R) \in R /\ \A x \in R : Least(R) <= x
    BY <1>1, <1>5, LeastIs
  <2>2. t \in R => Least(R) = t
    <3>1. Least(R) \in Nat /\ t \in Nat /\ t <= Least(R)
      BY <1>1, <2>1
    <3>2. QED
      BY <2>1, <3>1
  <2>3. n.TAI_local = Least(R) /\ n.entry_bit = AllDue(s, Least(R))
        /\ AllDue(s, Least(R)) \subseteq Entries
        /\ n = [TAI_local |-> Least(R), entry_bit |-> AllDue(s, Least(R))]
    BY <1>3, <1>5 DEF AllDue
  <2>4. QED
    BY <1>1, <1>2, <2>1, <2>2, <2>3
<1>6. QED
  BY <1>4, <1>5

\* A second in which nothing is due is no reason to look again.
LEMMA UpdateNext ==
  ASSUME NEW s \in [Entries -> Entry], NEW t \in Nat, (t + 1) % DayLen # 0, AllDue(s, t) = {}
  PROVE  update_schd_nearest_TAI_today(s, t + 1) = update_schd_nearest_TAI_today(s, t)
<1>1. DayOf(t + 1) = DayOf(t) /\ t + 1 \in Nat
  BY NextSecond
<1>2. Rest(s, t + 1) = Rest(s, t)
  <2>1. (DayOf(t) + 1) * DayLen \in Nat
    BY SameDay
  <2>2. \A u \in Rest(s, t) : u \in t + 1 .. (DayOf(t) + 1) * DayLen - 1
    BY <2>1 DEF Rest
  <2>3. QED
    BY <1>1, <2>1, <2>2 DEF Rest
<1>3. QED
  BY <1>1, <1>2, UpdateIs

\* NextDue, which the property compares with, is what an update would find in
\* the next second.
LEMMA NextDueIs ==
  ASSUME NEW s \in [Entries -> Entry], NEW t \in Nat, (t + 1) % DayLen # 0
  PROVE  LET next == NextDue(s, t)
         IN  update_schd_nearest_TAI_today(s, t + 1) =
               [TAI_local |-> next, entry_bit |-> IF next = 0 THEN {} ELSE AllDue(s, next)]
<1> DEFINE R == Rest(s, t + 1)
<1>1. DayOf(t + 1) = DayOf(t)
  BY NextSecond
<1>2. NextDue(s, t) = IF R = {} THEN 0 ELSE Least(R)
  BY <1>1 DEF NextDue, Rest
<1>3. R # {} => Least(R) # 0
  <2>1. R \in SUBSET Nat /\ \A x \in R : x # 0
    BY SameDay DEF Rest
  <2>2. QED
    BY <2>1, LeastIs
<1>4. t + 1 \in Nat
  OBVIOUS
<1> HIDE DEF R
<1>5. update_schd_nearest_TAI_today(s, t + 1) =
        IF R = {} THEN NoneToday
        ELSE [TAI_local |-> Least(R), entry_bit |-> AllDue(s, Least(R))]
  BY <1>4, UpdateIs DEF R
<1>6. QED
  BY <1>2, <1>3, <1>5 DEF NoneToday

-------------------------------------------------------------------------------
(* The random fields.                                                      *)

LEMMA DrawnIs ==
  ASSUME NEW e \in Entry, NEW h \in BOOLEAN, NEW m \in BOOLEAN, NEW s \in BOOLEAN
  PROVE  /\ Drawn(e, h, m, s) \subseteq Entry /\ Drawn(e, h, m, s) # {}
         /\ ~h /\ ~m /\ ~s => Drawn(e, h, m, s) = {e}
<1> DEFINE W(i, j, k) == [e EXCEPT !.rand_hour = i, !.rand_min = j, !.rand_sec = k]
           A == IF h THEN 0 .. Hours - 1 ELSE {e.rand_hour}
           B == IF m THEN 0 .. Mins - 1 ELSE {e.rand_min}
           C == IF s THEN 0 .. Mins - 1 ELSE {e.rand_sec}
<1>1. \A i \in 0 .. Hours - 1, j \in 0 .. Mins - 1, k \in 0 .. Mins - 1 : W(i, j, k) \in Entry
  BY DEF Entry
<1>2. e.rand_hour \in 0 .. Hours - 1 /\ e.rand_min \in 0 .. Mins - 1 /\ e.rand_sec \in 0 .. Mins - 1
  BY DEF Entry
<1>3. W(e.rand_hour, e.rand_min, e.rand_sec) = e
  BY DEF Entry
<1>4. Drawn(e, h, m, s) = {W(i, j, k) : i \in A, j \in B, k \in C}
  BY DEF Drawn
<1> HIDE DEF W
<1>5. /\ A \subseteq 0 .. Hours - 1 /\ B \subseteq 0 .. Mins - 1 /\ C \subseteq 0 .. Mins - 1
      /\ e.rand_hour \in A /\ e.rand_min \in B /\ e.rand_sec \in C
      /\ ~h => A = {e.rand_hour}
      /\ ~m => B = {e.rand_min}
      /\ ~s => C = {e.rand_sec}
  BY <1>2
<1> HIDE DEF A, B, C
<1>6. QED
  BY <1>1, <1>3, <1>4, <1>5

LEMMA RedrawnIs ==
  ASSUME NEW e \in Entry, NEW t \in Nat
  PROVE  /\ Redrawn(e, t) \subseteq Entry
         /\ ~DrawsHour(e, t) /\ ~DrawsMin(e, t) /\ ~DrawsSec(e, t) => Redrawn(e, t) = {e}
<1> DEFINE h == DrawsHour(e, t)
           m == (DrawsHour(e, t) \/ DrawsMin(e, t)) /\ e.minute = MIN_RANDOM
           s == DrawsSec(e, t) \/ ((DrawsHour(e, t) \/ DrawsMin(e, t)) /\ e.second = MIN_RANDOM)
<1>1. Redrawn(e, t) = Drawn(e, h, m, s)
  BY DEF Redrawn
<1>2. h \in BOOLEAN /\ m \in BOOLEAN /\ s \in BOOLEAN
  BY DEF DrawsHour, Entry
<1>3. ~DrawsHour(e, t) /\ ~DrawsMin(e, t) /\ ~DrawsSec(e, t) => ~h /\ ~m /\ ~s
  OBVIOUS
<1> HIDE DEF h, m, s
<1>4. QED
  BY <1>1, <1>2, <1>3, DrawnIs

LEMMA SetEntryIs ==
  ASSUME NEW e \in Entry
  PROVE  SetEntry(e) \subseteq Entry
<1> DEFINE z == [e EXCEPT !.rand_hour = 0, !.rand_min = 0, !.rand_sec = 0]
           h == e.hour = HOUR_RANDOM
           m == e.minute = MIN_RANDOM
           s == e.second = MIN_RANDOM
<1>1. z \in Entry
  <2>1. 0 \in 0 .. Hours - 1 /\ 0 \in 0 .. Mins - 1
    BY ClockAssumption
  <2>2. QED
    BY <2>1 DEF Entry
<1>2. SetEntry(e) = Drawn(z, h, m, s) /\ h \in BOOLEAN /\ m \in BOOLEAN /\ s \in BOOLEAN
  BY DEF SetEntry
<1> HIDE DEF z, h, m, s
<1>3. QED
  BY <1>1, <1>2, DrawnIs

-------------------------------------------------------------------------------
(* The invariant.                                                          *)

\* Without a time there is no next one.
Unknown == TAI = 0 => nearest = NoneToday /\ ~stale

\* Even when the zone has made it late or early, the entries of g_schd_nearest
\* are those due at its time: no entry changes without an update.
BitsAreDue == nearest.TAI_local # 0 => nearest.entry_bit = AllDue(schd, nearest.TAI_local)

IInv == TypeOK /\ Unknown /\ BitsAreDue /\ NearestIsNext

\* NearestIsNext, as a step uses it.
LEMMA NextIs ==
  ASSUME IInv, TAI # 0
  PROVE  /\ get_local_TAI \in Nat \ {0} /\ get_local_TAI + 1 \in Nat \ {0}
         /\ ~stale /\ (get_local_TAI + 1) % DayLen # 0 =>
              nearest = update_schd_nearest_TAI_today(schd, get_local_TAI + 1)
<1>1. get_local_TAI \in Nat \ {0} /\ schd \in [Entries -> Entry]
  <2>1. get_local_TAI \in 1 .. Days * DayLen - 1
    BY DEF IInv, TypeOK
  <2>2. QED
    BY <2>1 DEF IInv, TypeOK
<1> DEFINE l == get_local_TAI
<1>2. ASSUME ~stale, (l + 1) % DayLen # 0
      PROVE  nearest = update_schd_nearest_TAI_today(schd, l + 1)
  <2>1. nearest = [TAI_local |-> NextDue(schd, l),
                   entry_bit |-> IF NextDue(schd, l) = 0 THEN {}
                                 ELSE AllDue(schd, NextDue(schd, l))]
    BY <1>2 DEF IInv, NearestIsNext
  <2> HIDE DEF l
  <2>2. l \in Nat
    BY <1>1 DEF l
  <2>3. QED
    BY <1>1, <1>2, <2>1, <2>2, NextDueIs
<1>3. QED
  BY <1>1, <1>2

\* rebulid_schd_nearest_and_check_event: what is due now is acted on, and
\* nearest is right for the seconds after it, if it was rebuilt or right before.
LEMMA EventChecked ==
  ASSUME IInv, NEW s \in [Entries -> Entry], NEW l \in Nat \ {0}, NEW r \in BOOLEAN,
         CheckEvent(r, s, l),
         ~r => s = schd /\ (~stale => nearest = update_schd_nearest_TAI_today(schd, l))
  PROVE  /\ nearest' \in [TAI_local : Nat, entry_bit : SUBSET Entries]
         /\ fired' \subseteq Entries /\ stale' \in BOOLEAN
         /\ nearest'.TAI_local # 0 => nearest'.entry_bit = AllDue(s, nearest'.TAI_local)
         /\ ~stale' /\ (l + 1) % DayLen # 0 => nearest' = update_schd_nearest_TAI_today(s, l + 1)
         /\ ~(stale /\ stale') => fired' = AllDue(s, l)
         /\ r => ~stale'
<1> DEFINE n    == IF r THEN update_schd_nearest_TAI_today(s, l) ELSE nearest
           acts == n.TAI_local # 0 /\ n.TAI_local = l
<1>1. /\ fired' = IF acts THEN n.entry_bit ELSE {}
      /\ nearest' = IF acts THEN update_schd_nearest_TAI_today(s, l + 1) ELSE n
      /\ stale' = (stale /\ ~r /\ ~acts)
  BY DEF CheckEvent
<1>2. n \in [TAI_local : Nat, entry_bit : SUBSET Entries]
      /\ (n.TAI_local # 0 => n.entry_bit = AllDue(s, n.TAI_local))
  <2>1. CASE r
    BY <2>1, UpdateNow
  <2>2. CASE ~r
    BY <2>2 DEF IInv, TypeOK, BitsAreDue
  <2>3. QED
    BY <2>1, <2>2
<1>3. r \/ ~stale => n = update_schd_nearest_TAI_today(s, l)
  OBVIOUS
<1> HIDE DEF n
<1>4. l + 1 \in Nat \ {0}
  OBVIOUS
<1>5. stale \in BOOLEAN
  BY DEF IInv, TypeOK
<1>6. CASE acts
  <2>1. fired' = AllDue(s, l) /\ ~stale' /\ nearest' = update_schd_nearest_TAI_today(s, l + 1)
    BY <1>1, <1>2, <1>6
  <2>2. fired' \subseteq Entries
    BY <2>1 DEF AllDue
  <2> HIDE DEF acts
  <2>3. /\ nearest' \in [TAI_local : Nat, entry_bit : SUBSET Entries]
        /\ nearest'.TAI_local # 0 => nearest'.entry_bit = AllDue(s, nearest'.TAI_local)
    BY <1>4, <2>1, UpdateNow
  <2>4. stale' \in BOOLEAN
    BY <1>1, <1>6
  <2>5. QED
    BY <2>1, <2>2, <2>3, <2>4
<1>7. CASE ~acts
  <2>1. fired' = {} /\ nearest' = n /\ (stale' <=> stale /\ ~r) /\ stale' \in BOOLEAN
    BY <1>1, <1>5, <1>7
  <2>2. ASSUME ~stale' PROVE AllDue(s, l) = {} /\ n = update_schd_nearest_TAI_today(s, l)
    <3>1. n = update_schd_nearest_TAI_today(s, l)
      BY <1>3, <2>1, <2>2
    <3>2. AllDue(s, l) # {} => n.TAI_local = l
      BY <3>1, UpdateNow
    <3>3. QED
      BY <1>7, <3>1, <3>2
  <2>3. ASSUME ~stale', (l + 1) % DayLen # 0
        PROVE  nearest' = update_schd_nearest_TAI_today(s, l + 1)
    BY <2>1, <2>2, <2>3, UpdateNext
  <2> HIDE DEF acts
  <2>4. QED
    BY <1>2, <2>1, <2>2, <2>3
<1>8. QED
  BY <1>6, <1>7

\* What a step that checks for events, at the new time, has to show.
LEMMA AfterEvent ==
  ASSUME IInv, schd' \in [Entries -> Entry], TAI' \in Nat \ {0}, zone' \in Zones \cup {PowerOnZone},
         get_local_TAI' \in 1 .. Days * DayLen - 1, NEW r \in BOOLEAN,
         CheckEvent(r, schd', get_local_TAI'),
         ~r => /\ schd' = schd
               /\ ~stale => nearest = update_schd_nearest_TAI_today(schd, get_local_TAI')
  PROVE  /\ IInv'
         /\ ~(stale /\ stale') => fired' = AllDue(schd', get_local_TAI')
         /\ r => ~stale'
<1> DEFINE l == get_local_TAI'
<1>1. l \in Nat \ {0}
  OBVIOUS
<1>2. /\ nearest' \in [TAI_local : Nat, entry_bit : SUBSET Entries]
      /\ fired' \subseteq Entries /\ stale' \in BOOLEAN
      /\ nearest'.TAI_local # 0 => nearest'.entry_bit = AllDue(schd', nearest'.TAI_local)
      /\ ~stale' /\ (l + 1) % DayLen # 0 => nearest' = update_schd_nearest_TAI_today(schd', l + 1)
      /\ ~(stale /\ stale') => fired' = AllDue(schd', l)
      /\ r => ~stale'
  BY <1>1, EventChecked
<1>3. TypeOK' /\ Unknown' /\ BitsAreDue'
  BY <1>2 DEF TypeOK, Unknown, BitsAreDue
<1>4. NearestIsNext'
  <2>1. ASSUME ~stale', (l + 1) % DayLen # 0
        PROVE  nearest' = [TAI_local |-> NextDue(schd', l),
                           entry_bit |-> IF NextDue(schd', l) = 0 THEN {}
                                         ELSE AllDue(schd', NextDue(schd', l))]
    <3>1. nearest' = update_schd_nearest_TAI_today(schd', l + 1) /\ l \in Nat
      BY <1>1, <1>2, <2>1
    <3> HIDE DEF l
    <3>2. QED
      BY <2>1, <3>1, NextDueIs
  <2>2. QED
    BY <2>1 DEF NearestIsNext
<1>5. QED
  BY <1>2, <1>3, <1>4 DEF IInv

\* The two action properties, of one step.
Acts == TAI' \notin {0, TAI} /\ ~(stale /\ stale') => fired' = AllDue(schd', get_local_TAI')

Recovers ==
  TAI' \notin {0, TAI} /\ get_local_TAI' % DayLen = 0 =>
    fired' = AllDue(schd', get_local_TAI') /\ ~stale'

LEMMA InitInv == Init => IInv
<1>1. NoEntry \in Entry
  <2>1. /\ 0 \in 0 .. Hours - 1 /\ 0 \in 0 .. Mins - 1
        /\ 0 \in 0 .. HOUR_RANDOM /\ 0 \in 0 .. MIN_RANDOM
    BY ClockAssumption, Codes
  <2>2. QED
    BY <2>1 DEF NoEntry, Entry
<1>2. NoneToday \in [TAI_local : Nat, entry_bit : SUBSET Entries] /\ NoneToday.TAI_local = 0
  BY DEF NoneToday
<1>3. Init => TypeOK
  BY <1>1, <1>2 DEF Init, TypeOK
<1>4. QED
  BY <1>2, <1>3 DEF Init, IInv, Unknown, BitsAreDue, NearestIsNext

LEMMA TimeSetInv ==
  ASSUME IInv, NEW t \in Times, NEW z \in Zones, TimeSet(t, z)
  PROVE  IInv' /\ Acts /\ Recovers
<1>1. /\ TAI' = t /\ zone' = z /\ schd' = schd /\ t \in Nat \ {0}
      /\ t + z \in 1 .. Days * DayLen - 1 /\ CheckEvent(TRUE, schd, t + z)
  BY ClockAssumption DEF TimeSet
<1>2. get_local_TAI' = t + z
  BY <1>1 DEF get_local_TAI
<1>3. schd' \in [Entries -> Entry] /\ CheckEvent(TRUE, schd', get_local_TAI')
  BY <1>1, <1>2 DEF IInv, TypeOK
<1>4. /\ IInv' /\ ~stale'
      /\ ~(stale /\ stale') => fired' = AllDue(schd', get_local_TAI')
  BY <1>1, <1>2, <1>3, AfterEvent
<1>5. QED
  BY <1>4 DEF Acts, Recovers

\* Only a known time makes the next one wrong.
LEMMA TimeZoneSetInv ==
  ASSUME IInv, NEW z \in Zones, TimeZoneSet(z)
  PROVE  IInv' /\ Acts /\ Recovers
<1>1. /\ TAI' = TAI /\ schd' = schd /\ nearest' = nearest /\ zone' = z /\ fired' = {}
      /\ TAI # 0 => TAI + z \in 1 .. Days * DayLen - 1
      /\ stale' = (stale \/ (TAI # 0 /\ z # zone))
  BY DEF TimeZoneSet
<1>2. TypeOK'
  BY <1>1 DEF IInv, TypeOK, get_local_TAI
<1>3. Unknown' /\ BitsAreDue'
  BY <1>1 DEF IInv, TypeOK, Unknown, BitsAreDue
<1>4. NearestIsNext'
  <2>1. TAI # 0 /\ ~stale' => zone' = zone /\ ~stale
    BY <1>1 DEF IInv, TypeOK
  <2>2. QED
    BY <1>1, <2>1 DEF IInv, NearestIsNext, get_local_TAI
<1>5. QED
  BY <1>1, <1>2, <1>3, <1>4 DEF IInv, Acts, Recovers

LEMMA ActionSetInv ==
  ASSUME IInv, NEW i \in Entries, NEW set \in Settings, ActionSet(i, set)
  PROVE  IInv' /\ Acts /\ Recovers
<1>1. /\ TAI' = TAI /\ zone' = zone /\ \E e \in SetEntry(set) : schd' = [schd EXCEPT ![i] = e]
      /\ get_local_TAI' = get_local_TAI
  BY DEF ActionSet, get_local_TAI
<1>2. schd' \in [Entries -> Entry]
  <2>1. SetEntry(set) \subseteq Entry
    BY ClockAssumption, SetEntryIs
  <2>2. QED
    BY <1>1, <2>1 DEF IInv, TypeOK
<1>3. CASE TAI = 0
  <2>1. fired' = {} /\ nearest' = nearest /\ stale' = stale
    BY <1>3 DEF ActionSet
  <2>2. TypeOK'
    BY <1>1, <1>2, <1>3, <2>1 DEF IInv, TypeOK
  <2>3. QED
    BY <1>1, <1>3, <2>1, <2>2
       DEF IInv, Unknown, BitsAreDue, NearestIsNext, NoneToday, Acts, Recovers
<1>4. CASE TAI # 0
  <2>1. CheckEvent(TRUE, schd', get_local_TAI')
    BY <1>1, <1>4 DEF ActionSet
  <2>2. TAI' \in Nat \ {0} /\ zone' \in Zones \cup {PowerOnZone}
        /\ get_local_TAI' \in 1 .. Days * DayLen - 1
    BY <1>1, <1>4 DEF IInv, TypeOK
  <2>3. IInv'
    BY <1>2, <2>1, <2>2, AfterEvent
  <2>4. QED
    BY <1>1, <2>3 DEF Acts, Recovers
<1>5. QED
  BY <1>3, <1>4

\* An entry is drawn again only in a second that rebuilds the next time.
LEMMA TickInv ==
  ASSUME IInv, Tick
  PROVE  IInv' /\ Acts /\ Recovers
<1> DEFINE l == TAI + 1 + zone
           r == \/ l % DayLen = 0
                \/ \E i \in Entries : DrawsSec(schd[i], l) \/ DrawsMin(schd[i], l)
<1>1. /\ TAI # 0 /\ l < Days * DayLen /\ TAI' = TAI + 1 /\ zone' = zone
      /\ schd' \in [Entries -> UNION {Redrawn(schd[i], l) : i \in Entries}]
      /\ \A i \in Entries : schd'[i] \in Redrawn(schd[i], l)
      /\ CheckEvent(r, schd', l)
  BY DEF Tick
<1>2. /\ TAI \in Nat \ {0} /\ zone \in Int /\ schd \in [Entries -> Entry]
      /\ get_local_TAI \in Nat \ {0} /\ l = get_local_TAI + 1 /\ get_local_TAI' = l
      /\ zone \in Zones \cup {PowerOnZone}
  <2>1. TAI \in Nat \ {0} /\ zone \in Int /\ schd \in [Entries -> Entry]
        /\ zone \in Zones \cup {PowerOnZone}
    <3>1. PowerOnZone \in Int
      BY ClockAssumption DEF PowerOnZone
    <3>2. QED
      BY <1>1, <3>1, ClockAssumption DEF IInv, TypeOK
  <2>2. get_local_TAI \in Nat \ {0}
    BY <1>1, NextIs
  <2>3. QED
    BY <1>1, <2>1, <2>2 DEF get_local_TAI
<1>3. r \in BOOLEAN
  OBVIOUS
<1>4. ~r => l % DayLen # 0 /\ \A i \in Entries : ~DrawsSec(schd[i], l) /\ ~DrawsMin(schd[i], l)
  OBVIOUS
<1>5. l % DayLen = 0 => r
  OBVIOUS
<1> HIDE DEF l, r
<1>6. l \in Nat \ {0} /\ l \in 1 .. Days * DayLen - 1 /\ Days * DayLen \in Nat
  <2>1. Days * DayLen \in Nat
    BY ClockAssumption, LengthsAre, Product
  <2>2. QED
    BY <1>1, <1>2, <2>1
<1>7. schd' \in [Entries -> Entry]
  <2>1. \A i \in Entries : Redrawn(schd[i], l) \subseteq Entry
    BY <1>2, <1>6, RedrawnIs
  <2>2. QED
    BY <1>1, <2>1
<1>8. ASSUME ~r PROVE schd' = schd
  <2>1. \A i \in Entries : ~DrawsHour(schd[i], l)
    BY <1>4, <1>8 DEF DrawsHour
  <2>2. \A i \in Entries : Redrawn(schd[i], l) = {schd[i]}
    BY <1>2, <1>4, <1>6, <1>8, <2>1, RedrawnIs
  <2>3. \A i \in Entries : schd'[i] = schd[i]
    BY <1>1, <2>2
  <2>4. QED
    BY <1>2, <1>7, <2>3
<1>9. ~r /\ ~stale => nearest = update_schd_nearest_TAI_today(schd, l)
  BY <1>1, <1>2, <1>4, NextIs
<1>10. TAI' \in Nat \ {0} /\ zone' \in Zones \cup {PowerOnZone}
  BY <1>1, <1>2
<1>11. /\ IInv' /\ r => ~stale'
       /\ IInv'
       /\ ~(stale /\ stale') => fired' = AllDue(schd', get_local_TAI')
  BY <1>1, <1>2, <1>3, <1>6, <1>7, <1>8, <1>9, <1>10, AfterEvent
<1>12. QED
  BY <1>2, <1>5, <1>11 DEF Acts, Recovers

LEMMA PowerCycleInv ==
  ASSUME IInv, PowerCycle
  PROVE  IInv' /\ Acts /\ Recovers
<1>1. /\ TAI' = 0 /\ zone' = PowerOnZone /\ nearest' = NoneToday
      /\ fired' = {} /\ stale' = FALSE /\ schd' = schd
  BY DEF PowerCycle
<1>2. NoneToday \in [TAI_local : Nat, entry_bit : SUBSET Entries] /\ NoneToday.TAI_local = 0
  BY DEF NoneToday
<1>3. TypeOK'
  BY <1>1, <1>2 DEF IInv, TypeOK
<1>4. QED
  BY <1>1, <1>2, <1>3 DEF IInv, Unknown, BitsAreDue, NearestIsNext, Acts, Recovers

LEMMA StepInv ==
  ASSUME IInv, [Next]_vars
  PROVE  IInv' /\ (Next => Acts /\ Recovers)
<1>1. CASE Next
  BY <1>1, TimeSetInv, TimeZoneSetInv, ActionSetInv, TickInv, PowerCycleInv DEF Next
<1>2. CASE UNCHANGED vars /\ ~Next
  <2>1. UNCHANGED <<TAI, zone, schd, nearest, fired, stale>>
    BY <1>2 DEF vars
  <2>2. QED
    BY <1>2, <2>1 DEF IInv, TypeOK, Unknown, BitsAreDue, NearestIsNext, get_local_TAI
<1>3. QED
  BY <1>1, <1>2

LEMMA Inductive == Spec => []IInv
<1>1. IInv /\ [Next]_vars => IInv'
  BY StepInv
<1>2. QED
  BY <1>1, InitInv, PTL DEF Spec

-------------------------------------------------------------------------------
(* The properties of the scheduler.                                        *)

\* TypeOK: entries stay entries however they are set and drawn, and the local
\* time, once known, stays above zero.
THEOREM SchedulerType == Spec => []TypeOK
<1>1. IInv => TypeOK
  BY DEF IInv
<1>2. QED
  BY <1>1, Inductive, PTL

\* NearestIsNext: for every length of the units, every setting and every draw,
\* the search of update_schd_nearest_TAI_today by hours, minutes and seconds
\* finds the next second of the day at which an entry is due, with all the
\* entries due then; whatever changes an entry or the time but the zone
\* searches again.
THEOREM NearestTimeIsRight == Spec => []NearestIsNext
<1>1. IInv => NearestIsNext
  BY DEF IInv
<1>2. QED
  BY <1>1, Inductive, PTL

\* ActsWhenDue: in every second schd_event_check acts on the entries due in it,
\* no more and no less, but while the zone has left the nearest time stale.
THEOREM DueEntriesAct == Spec => ActsWhenDue
<1>1. IInv /\ [Next]_vars => [Acts]_vars
  BY StepInv
<1>2. QED
  BY <1>1, Inductive, PTL DEF Spec, ActsWhenDue, Acts

\* RecoversAtMidnight: the first second of a local day makes the nearest time
\* right again.
THEOREM MidnightRecovers == Spec => RecoversAtMidnight
<1>1. IInv /\ [Next]_vars => [Recovers]_vars
  BY StepInv
<1>2. QED
  BY <1>1, Inductive, PTL DEF Spec, RecoversAtMidnight, Recovers

-------------------------------------------------------------------------------
(* The calendar: years of 365 and 366 days, cycles of 4, 100 and 400 years. *)

Leap(y) == Cal!is_leap_year(y)
YearLen(y) == IF Leap(y) THEN 366 ELSE 365

\* The years before one, in centuries of 400, 100, 4 and single years.
Split(y, a, b, c, e) ==
  /\ a \in Nat /\ b \in 0 .. 3 /\ c \in 0 .. 24 /\ e \in 0 .. 3
  /\ y = 2000 + 400 * a + 100 * b + 4 * c + e

\* The days before year y.
Start(y) ==
  LET k == y - 2000
  IN  365 * k + (k + 3) \div 4 - (k + 99) \div 100 + (k + 399) \div 400

LEMMA Splits ==
  ASSUME NEW y \in Nat, y >= 2000
  PROVE  \E a \in Nat, b \in 0 .. 3, c \in 0 .. 24, e \in 0 .. 3 : Split(y, a, b, c, e)
<1> DEFINE k == y - 2000
           q == k % 400
           r == q % 100
           a == k \div 400
           b == q \div 100
           c == r \div 4
           e == r % 4
<1>1. a \in Nat /\ q \in 0 .. 399 /\ k = 400 * a + q
  BY SMT
<1> HIDE DEF a, q
<1>2. b \in 0 .. 3 /\ r \in 0 .. 99 /\ q = 100 * b + r
  BY <1>1, SMT
<1> HIDE DEF b, r
<1>3. c \in 0 .. 24 /\ e \in 0 .. 3 /\ r = 4 * c + e
  BY <1>2, SMT
<1> HIDE DEF c, e
<1>4. y = 2000 + 400 * a + 100 * b + 4 * c + e
  BY <1>1, <1>2, <1>3
<1>5. QED
  BY <1>1, <1>2, <1>3, <1>4 DEF Split

LEMMA LeapIs ==
  ASSUME NEW y \in Nat, NEW a \in Nat, NEW b \in Nat, NEW c \in Nat, NEW e \in Nat,
         Split(y, a, b, c, e)
  PROVE  Leap(y) <=> e = 0 /\ (c = 0 => b = 0)
<1>1. y % 4 = e /\ y % 100 = 4 * c + e /\ y % 400 = 100 * b + 4 * c + e
  <2>1. y = 4 * (500 + 100 * a + 25 * b + c) + e /\ y = 100 * (20 + 4 * a + b) + (4 * c + e)
        /\ y = 400 * (5 + a) + (100 * b + 4 * c + e)
    BY DEF Split
  <2>2. e \in 0 .. 3 /\ 4 * c + e \in 0 .. 99 /\ 100 * b + 4 * c + e \in 0 .. 399
    BY DEF Split
  <2>3. QED
    BY <2>1, <2>2, SMT
<1>2. e \in 0 .. 3 /\ c \in 0 .. 24 /\ b \in 0 .. 3
  BY DEF Split
<1>3. QED
  BY <1>1, <1>2 DEF Leap, Cal!is_leap_year

LEMMA StartIs ==
  ASSUME NEW y \in Nat, NEW a \in Nat, NEW b \in Nat, NEW c \in Nat, NEW e \in Nat,
         Split(y, a, b, c, e)
  PROVE  Start(y) = 146097 * a
                    + (IF b = 0 THEN 0 ELSE 36524 * b + 1)
                    + (IF c = 0 THEN 0 ELSE 1461 * c - (IF b = 0 THEN 0 ELSE 1))
                    + (IF e = 0 THEN 0 ELSE 365 * e + 1 - (IF b # 0 /\ c = 0 THEN 1 ELSE 0))
<1> DEFINE k == 400 * a + 100 * b + 4 * c + e
<1>1. y - 2000 = k /\ k \in Nat /\ b \in 0 .. 3 /\ c \in 0 .. 24 /\ e \in 0 .. 3
  BY DEF Split
<1>2. (k + 3) \div 4 = 100 * a + 25 * b + c + (IF e = 0 THEN 0 ELSE 1)
  BY <1>1, SMT
<1>3. (k + 99) \div 100 = 4 * a + b + (IF c = 0 /\ e = 0 THEN 0 ELSE 1)
  BY <1>1, SMT
<1>4. (k + 399) \div 400 = a + (IF b = 0 /\ c = 0 /\ e = 0 THEN 0 ELSE 1)
  BY <1>1, SMT
<1>5. Start(y) = 365 * k + (k + 3) \div 4 - (k + 99) \div 100 + (k + 399) \div 400
  BY <1>1 DEF Start
<1>6. QED
  BY <1>1, <1>2, <1>3, <1>4, <1>5, SMT


\* The days before a year that follow the last whole century, or four years.
OfYears(b, c, e) == IF e = 0 THEN 0 ELSE 365 * e + 1 - (IF b # 0 /\ c = 0 THEN 1 ELSE 0)
OfFours(b, c)    == IF c = 0 THEN 0 ELSE 1461 * c - (IF b = 0 THEN 0 ELSE 1)

\* Quotient and rest of the four cycles.
LEMMA Cycles ==
  ASSUME NEW q \in Nat, NEW r \in Nat
  PROVE  /\ r < 146097 => (146097 * q + r) \div 146097 = q /\ (146097 * q + r) % 146097 = r
         /\ r < 36524 => (36524 * q + r) \div 36524 = q /\ (36524 * q + r) % 36524 = r
         /\ r < 1461 => (1461 * q + r) \div 1461 = q /\ (1461 * q + r) % 1461 = r
         /\ r < 365 => (365 * q + r) \div 365 = q /\ (365 * q + r) % 365 = r
<1>1. r < 146097 => (146097 * q + r) \div 146097 = q /\ (146097 * q + r) % 146097 = r
  BY SMT
<1>2. r < 36524 => (36524 * q + r) \div 36524 = q /\ (36524 * q + r) % 36524 = r
  BY SMT
<1>3. r < 1461 => (1461 * q + r) \div 1461 = q /\ (1461 * q + r) % 1461 = r
  BY SMT
<1>4. r < 365 => (365 * q + r) \div 365 = q /\ (365 * q + r) % 365 = r
  BY SMT
<1>5. QED
  BY <1>1, <1>2, <1>3, <1>4

LEMMA YearOfIs ==
  ASSUME NEW y \in Nat, NEW a \in Nat, NEW b \in Nat, NEW c \in Nat, NEW e \in Nat,
         Split(y, a, b, c, e), NEW d \in 0 .. YearLen(y) - 1
  PROVE  Start(y) + d \in Nat /\ Cal!YearOf(Start(y) + d) = [year |-> y, day |-> d]
<1> DEFINE n    == Start(y) + d
           E    == OfYears(b, c, e)
           C    == OfFours(b, c)
           X    == C + E + d
           n400 == n % Cal!DAYS_400YEAR
           over100 == n400 >= Cal!DAYS_100YEAR(TRUE)
           n100 == IF over100 THEN (n400 - 1) % Cal!DAYS_100YEAR(FALSE) ELSE n400
           over4 == n100 >= Cal!DAYS_4YEAR(~over100)
           from4 == n100 + (IF over100 THEN 1 ELSE 0)
           n4   == IF over4 THEN from4 % Cal!DAYS_4YEAR(TRUE) ELSE n100
           leap4 == ~over100 \/ over4
           first == n4 < Cal!DAYS_1YEAR(leap4)
           n1   == IF leap4 THEN n4 - Cal!DAYS_1YEAR(TRUE) ELSE n4
<1> HIDE DEF n, E, C, X, n400, over100, n100, over4, from4, n4, leap4, first, n1
<1>1. /\ b \in 0 .. 3 /\ c \in 0 .. 24 /\ e \in 0 .. 3
      /\ y = 2000 + 400 * a + 100 * b + 4 * c + e
  BY DEF Split
<1>2. d \in Nat /\ d < (IF e = 0 /\ (c = 0 => b = 0) THEN 366 ELSE 365)
  BY LeapIs DEF YearLen
<1>3. /\ E \in Nat /\ E + d \in Nat /\ E + d < (IF b # 0 /\ c = 0 THEN 1460 ELSE 1461)
      /\ E + d < (IF b # 0 /\ c = 0 THEN 365 ELSE 366) <=> e = 0
  BY <1>1, <1>2 DEF OfYears, E
<1>4. C \in Nat /\ C <= 1461 * 24 /\ C = IF c = 0 THEN 0 ELSE 1461 * c - (IF b = 0 THEN 0 ELSE 1)
  BY <1>1 DEF OfFours, C
<1>5. n = 146097 * a + ((IF b = 0 THEN 0 ELSE 36524 * b + 1) + X)
  <2>1. Start(y) = 146097 * a + (IF b = 0 THEN 0 ELSE 36524 * b + 1) + C + E
    BY StartIs DEF OfYears, OfFours, C, E
  <2>2. (IF b = 0 THEN 0 ELSE 36524 * b + 1) \in Nat
    BY <1>1
  <2>3. QED
    BY <2>1, <2>2, <1>2, <1>3, <1>4 DEF n, X
<1>6. X \in Nat /\ X < (IF b = 0 THEN 36525 ELSE 36524) /\ (c = 0 => X = E + d)
  BY <1>1, <1>2, <1>3, <1>4 DEF X
<1>7. /\ n \in Nat /\ n \div Cal!DAYS_400YEAR = a
      /\ n400 = (IF b = 0 THEN 0 ELSE 36524 * b + 1) + X
  <2> DEFINE r == (IF b = 0 THEN 0 ELSE 36524 * b + 1) + X
  <2>1. r \in Nat /\ r < 146097
    BY <1>1, <1>6
  <2>2. n = 146097 * a + r
    BY <1>5
  <2> HIDE DEF r
  <2>3. n \in Nat
    BY <2>1, <2>2
  <2>4. n \div 146097 = a /\ n % 146097 = r
    BY <2>1, <2>2, Cycles
  <2>5. QED
    BY <2>3, <2>4 DEF Cal!DAYS_400YEAR, n400, r
<1>8. /\ over100 <=> b # 0
      /\ over100 => (n400 - 1) \div Cal!DAYS_100YEAR(FALSE) = b
      /\ n100 = X
  <2>1. over100 <=> b # 0
    BY <1>1, <1>6, <1>7 DEF over100, Cal!DAYS_100YEAR
  <2>2. CASE b = 0
    <3>1. n100 = n400
      BY <2>1, <2>2, Zenon DEF n100
    <3>2. n100 = X
      BY <2>2, <3>1, <1>7, <1>6
    <3>3. QED
      BY <2>1, <2>2, <3>2, Zenon
  <2>3. CASE b # 0
    <3>1. n400 - 1 = 36524 * b + X /\ X \in Nat /\ X < 36524
      BY <1>1, <1>6, <1>7, <2>3
    <3>2. (n400 - 1) \div 36524 = b /\ (n400 - 1) % 36524 = X
      BY <3>1, Cycles
    <3>3. QED
      BY <3>2, <2>1, <2>3 DEF n100, Cal!DAYS_100YEAR
  <2>4. QED
    BY <2>2, <2>3
<1>9. /\ over4 <=> c # 0
      /\ over4 => from4 \div Cal!DAYS_4YEAR(TRUE) = c
      /\ n4 = E + d
  <2>1. over4 <=> c # 0
    <3>1. over4 <=> X >= (IF b = 0 THEN 1461 ELSE 1460)
      BY <1>8 DEF over4, Cal!DAYS_4YEAR
    <3>2. QED
      BY <3>1, <1>1, <1>2, <1>3, <1>4, <1>6 DEF X
  <2>2. CASE c = 0
    <3>1. n4 = n100
      BY <2>1, <2>2, Zenon DEF n4
    <3>2. n4 = E + d
      BY <2>2, <3>1, <1>8, <1>6
    <3>3. QED
      BY <2>1, <2>2, <3>2, Zenon
  <2>3. CASE c # 0
    <3>1. from4 = X + (IF b = 0 THEN 0 ELSE 1)
      BY <1>8 DEF from4
    <3>2. from4 = 1461 * c + (E + d) /\ E + d \in Nat /\ E + d < 1461
      BY <3>1, <1>1, <1>2, <1>3, <1>4, <2>3 DEF X
    <3>3. from4 \div 1461 = c /\ from4 % 1461 = E + d
      BY <3>2, Cycles
    <3>4. QED
      BY <3>3, <2>1, <2>3 DEF n4, Cal!DAYS_4YEAR
  <2>4. QED
    BY <2>2, <2>3
<1>10. (leap4 <=> ~(b # 0 /\ c = 0)) /\ (first <=> e = 0)
  BY <1>8, <1>9, <1>3 DEF leap4, first, Cal!DAYS_1YEAR
<1>11. ~first => /\ (IF leap4 THEN 1 ELSE 0) + n1 \div Cal!DAYS_1YEAR(FALSE) = e
                 /\ n1 % Cal!DAYS_1YEAR(FALSE) = d
  <2> SUFFICES ASSUME e # 0
               PROVE  (IF leap4 THEN 1 ELSE 0) + n1 \div 365 = e /\ n1 % 365 = d
    BY <1>10 DEF Cal!DAYS_1YEAR
  <2> DEFINE q == IF leap4 THEN e - 1 ELSE e
  <2>1. d \in Nat /\ d < 365
    BY <1>2
  <2>2. E = 365 * e + 1 - (IF leap4 THEN 0 ELSE 1)
    BY <1>1, <1>10 DEF OfYears, E
  <2>3. n1 = 365 * q + d /\ q \in Nat
    BY <1>9, <1>1, <1>10, <2>1, <2>2 DEF n1, Cal!DAYS_1YEAR
  <2> HIDE DEF q
  <2>4. n1 \div 365 = q /\ n1 % 365 = d
    BY <2>1, <2>3, Cycles
  <2>5. QED
    BY <2>4, <1>1 DEF q
<1>12. e = 0 => n4 = d
  BY <1>9, <1>2 DEF OfYears, E
<1> DEFINE by100 == IF over100 THEN ((n400 - 1) \div Cal!DAYS_100YEAR(FALSE)) * 100 ELSE 0
           by4 == IF over4 THEN (from4 \div Cal!DAYS_4YEAR(TRUE)) * 4 ELSE 0
           by1 == IF first THEN 0 ELSE (IF leap4 THEN 1 ELSE 0) + n1 \div Cal!DAYS_1YEAR(FALSE)
           day1 == IF first THEN n4 ELSE n1 % Cal!DAYS_1YEAR(FALSE)
<1> HIDE DEF by100, by4, by1, day1
<1>13. y = 2000 + (n \div Cal!DAYS_400YEAR) * 400 + by100 + by4 + by1 /\ d = day1
  <2>1. n \div Cal!DAYS_400YEAR = a
    BY <1>7
  <2>2. by100 = b * 100
    <3>1. CASE b = 0
      <4>1. by100 = 0
        BY <3>1, <1>8, Zenon DEF by100
      <4>2. QED
        BY <4>1, <3>1
    <3>2. CASE b # 0
      BY <3>2, <1>8, Zenon DEF by100
    <3>3. QED
      BY <3>1, <3>2
  <2>3. by4 = c * 4
    <3>1. CASE c = 0
      <4>1. by4 = 0
        BY <3>1, <1>9, Zenon DEF by4
      <4>2. QED
        BY <4>1, <3>1
    <3>2. CASE c # 0
      BY <3>2, <1>9, Zenon DEF by4
    <3>3. QED
      BY <3>1, <3>2
  <2>4. by1 = e
    <3>1. CASE e = 0
      BY <3>1, <1>10, Zenon DEF by1
    <3>2. CASE e # 0
      BY <3>2, <1>10, <1>11, Zenon DEF by1
    <3>3. QED
      BY <3>1, <3>2
  <2>5. d = day1
    <3>1. CASE e = 0
      BY <3>1, <1>10, <1>12, Zenon DEF day1
    <3>2. CASE e # 0
      BY <3>2, <1>10, <1>11, Zenon DEF day1
    <3>3. QED
      BY <3>1, <3>2
  <2>6. QED
    BY <2>1, <2>2, <2>3, <2>4, <2>5, <1>1
<1>14. QED
  <2>1. Cal!YearOf(n) =
          [year |-> 2000 + (n \div Cal!DAYS_400YEAR) * 400 + by100 + by4 + by1, day |-> day1]
    BY Zenon DEF Cal!YearOf, Cal!YEAR_BASE, over100, over4, n400, n100, from4, n4, leap4, first,
           n1, by100, by4, by1, day1
  <2>2. n \in Nat /\ Cal!YearOf(n) = [year |-> y, day |-> d]
    BY <2>1, <1>13, <1>7
  <2>3. QED
    BY <2>2, Zenon DEF n

\* What get_TAI_sec counts for a year is the days before it, and the day of it.
LEMMA TaiIs ==
  ASSUME NEW y \in Nat, y >= 2000, NEW utc, utc.year = y, utc.day \in Nat
  PROVE  Cal!get_TAI_day(utc) = Start(y) + Cal!DaysBefore(y, utc.month) + utc.day - 1
<1> DEFINE before == Cal!DaysBefore(utc.year, utc.month)
           c400 == utc.year - Cal!YEAR_BASE
           c100 == c400 % 400
           c4   == c100 % 100
           c1   == c4 % 4
           days400 == (c400 \div 400) * Cal!DAYS_400YEAR
           days100 == IF c100 < 100 THEN 0 ELSE (c100 \div 100) * Cal!DAYS_100YEAR(FALSE) + 1
           days4 == IF c4 < 4 THEN 0
                    ELSE (c4 \div 4) * Cal!DAYS_4YEAR(TRUE) - (IF c100 < 100 THEN 0 ELSE 1)
           days1 == IF c1 = 0 THEN 0
                    ELSE c1 * Cal!DAYS_1YEAR(FALSE) + 1
                         - (IF ~(c100 < 100) /\ c4 < 4 THEN 1 ELSE 0)
<1> HIDE DEF c400, c100, c4, c1, days400, days100, days4, days1
<1>1. before \in Nat
  BY DEF Cal!DaysBefore
<1>2. PICK a \in Nat, b \in 0 .. 3, c \in 0 .. 24, e \in 0 .. 3 : Split(y, a, b, c, e)
  BY Splits
<1>3. c400 = 400 * a + 100 * b + 4 * c + e
  BY <1>2 DEF Split, Cal!YEAR_BASE, c400
<1>4. c400 \div 400 = a /\ c100 = 100 * b + 4 * c + e
  BY <1>3, SMT DEF c100
<1>5. c100 \div 100 = b /\ c4 = 4 * c + e
  BY <1>4, SMT DEF c4
<1>6. c4 \div 4 = c /\ c1 = e
  BY <1>5, SMT DEF c1
<1>7. Cal!get_TAI_day(utc) = days400 + days100 + days4 + days1 + before + utc.day - 1
  BY DEF Cal!get_TAI_day, c400, c100, c4, c1, days400, days100, days4, days1, before
<1>8. Start(y) = days400 + days100 + days4 + days1
  <2>1. Start(y) = 146097 * a
                   + (IF b = 0 THEN 0 ELSE 36524 * b + 1)
                   + (IF c = 0 THEN 0 ELSE 1461 * c - (IF b = 0 THEN 0 ELSE 1))
                   + (IF e = 0 THEN 0 ELSE 365 * e + 1 - (IF b # 0 /\ c = 0 THEN 1 ELSE 0))
    <3>1. b \in Nat /\ c \in Nat /\ e \in Nat
      OBVIOUS
    <3>2. QED
      BY <1>2, <3>1, StartIs
  <2>2. days400 = 146097 * a
    BY <1>4 DEF days400, Cal!DAYS_400YEAR
  <2>3. days100 = IF b = 0 THEN 0 ELSE 36524 * b + 1
    BY <1>4, <1>5 DEF days100, Cal!DAYS_100YEAR
  <2>4. days4 = IF c = 0 THEN 0 ELSE 1461 * c - (IF b = 0 THEN 0 ELSE 1)
    BY <1>4, <1>5, <1>6 DEF days4, Cal!DAYS_4YEAR
  <2>5. days1 = IF e = 0 THEN 0 ELSE 365 * e + 1 - (IF b # 0 /\ c = 0 THEN 1 ELSE 0)
    BY <1>4, <1>5, <1>6 DEF days1, Cal!DAYS_1YEAR
  <2>6. QED
    BY <2>1, <2>2, <2>3, <2>4, <2>5
<1>9. Start(y) \in Int
  BY DEF Start
<1>10. QED
  BY <1>1, <1>7, <1>8, <1>9

LEMMA Months ==
  ASSUME NEW y \in Nat, NEW m \in 1 .. 12
  PROVE  /\ Cal!get_days_one_month(y, m) \in 28 .. 31
         /\ Cal!DaysBefore(y, m) \in 0 .. 335
         /\ m # 12 => Cal!DaysBefore(y, m + 1) = Cal!DaysBefore(y, m) + Cal!get_days_one_month(y, m)
         /\ m = 1 => Cal!DaysBefore(y, m) = 0
         /\ m = 12 => Cal!DaysBefore(y, m) + Cal!get_days_one_month(y, m) = YearLen(y)
  BY DEF Cal!get_days_one_month, Cal!DaysBefore, YearLen, Leap

LEMMA YearEnds ==
  ASSUME NEW y \in Nat, y >= 2000
  PROVE  Start(y) \in Nat /\ Start(y + 1) = Start(y) + YearLen(y) /\ YearLen(y) \in {365, 366}
<1>1. PICK a \in Nat, b \in 0 .. 3, c \in 0 .. 24, e \in 0 .. 3 : Split(y, a, b, c, e)
  BY Splits
<1>2. Start(y) = 146097 * a
                 + (IF b = 0 THEN 0 ELSE 36524 * b + 1)
                 + (IF c = 0 THEN 0 ELSE 1461 * c - (IF b = 0 THEN 0 ELSE 1))
                 + (IF e = 0 THEN 0 ELSE 365 * e + 1 - (IF b # 0 /\ c = 0 THEN 1 ELSE 0))
  <2>1. b \in Nat /\ c \in Nat /\ e \in Nat
    OBVIOUS
  <2>2. QED
    BY <1>1, <2>1, StartIs
<1>3. PICK a2 \in Nat, b2 \in 0 .. 3, c2 \in 0 .. 24, e2 \in 0 .. 3 :
        /\ Split(y + 1, a2, b2, c2, e2)
        /\ \/ e # 3 /\ a2 = a /\ b2 = b /\ c2 = c /\ e2 = e + 1
           \/ e = 3 /\ c # 24 /\ a2 = a /\ b2 = b /\ c2 = c + 1 /\ e2 = 0
           \/ e = 3 /\ c = 24 /\ b # 3 /\ a2 = a /\ b2 = b + 1 /\ c2 = 0 /\ e2 = 0
           \/ e = 3 /\ c = 24 /\ b = 3 /\ a2 = a + 1 /\ b2 = 0 /\ c2 = 0 /\ e2 = 0
  <2>1. CASE e # 3
    <3>1. Split(y + 1, a, b, c, e + 1)
      BY <1>1, <2>1 DEF Split
    <3>2. QED
      BY <3>1, <2>1
  <2>2. CASE e = 3 /\ c # 24
    <3>1. Split(y + 1, a, b, c + 1, 0)
      BY <1>1, <2>2 DEF Split
    <3>2. QED
      BY <3>1, <2>2
  <2>3. CASE e = 3 /\ c = 24 /\ b # 3
    <3>1. Split(y + 1, a, b + 1, 0, 0)
      BY <1>1, <2>3 DEF Split
    <3>2. QED
      BY <3>1, <2>3
  <2>4. CASE e = 3 /\ c = 24 /\ b = 3
    <3>1. Split(y + 1, a + 1, 0, 0, 0)
      BY <1>1, <2>4 DEF Split
    <3>2. QED
      BY <3>1, <2>4
  <2>5. QED
    BY <2>1, <2>2, <2>3, <2>4
<1>4. Start(y + 1) = 146097 * a2
                     + (IF b2 = 0 THEN 0 ELSE 36524 * b2 + 1)
                     + (IF c2 = 0 THEN 0 ELSE 1461 * c2 - (IF b2 = 0 THEN 0 ELSE 1))
                     + (IF e2 = 0 THEN 0
                        ELSE 365 * e2 + 1 - (IF b2 # 0 /\ c2 = 0 THEN 1 ELSE 0))
  BY <1>3, StartIs
<1>5. Leap(y) <=> e = 0 /\ (c = 0 => b = 0)
  BY <1>1, LeapIs
<1>6. YearLen(y) = IF e = 0 /\ (c = 0 => b = 0) THEN 366 ELSE 365
  BY <1>5 DEF YearLen
<1>7. Start(y) \in Nat
  BY <1>2
<1>8. QED
  BY <1>2, <1>3, <1>4, <1>6, <1>7

LEMMA MonthsAscend ==
  ASSUME NEW y \in Nat, NEW m \in 1 .. 12, NEW k \in 1 .. 12, m < k
  PROVE  Cal!DaysBefore(y, m) + Cal!get_days_one_month(y, m) <= Cal!DaysBefore(y, k)
  BY DEF Cal!get_days_one_month, Cal!DaysBefore

\* The month loop of get_UTC goes on by the days of each month.
LEMMA MonthDayIs ==
  ASSUME NEW y \in Nat, NEW m \in 1 .. 12, NEW d \in 1 .. Cal!get_days_one_month(y, m)
  PROVE  Cal!MonthDay(y, Cal!DaysBefore(y, m) + d - 1) = <<m, d>>
<1> DEFINE n == Cal!DaysBefore(y, m) + d - 1
           DaysOf(k) == Cal!get_days_one_month(y, k)
           Behind(k) == Cal!DaysBefore(y, k)
           G == [k \in 1 .. 12 |-> n - Behind(k)]
           left[k \in 1 .. 12] == IF k = 1 THEN n ELSE left[k - 1] - DaysOf(k - 1)
           Here(k) == left[k] \in 0 .. DaysOf(k) - 1
<1> HIDE DEF n, DaysOf, Behind, Here, left
<1>1. /\ \A k \in 1 .. 12 : DaysOf(k) \in 28 .. 31 /\ Behind(k) \in 0 .. 335
      /\ \A k \in 1 .. 11 : Behind(k + 1) = Behind(k) + DaysOf(k)
      /\ Behind(1) = 0
  BY Months DEF DaysOf, Behind
<1>2. \A j, k \in 1 .. 12 : j < k => Behind(j) + DaysOf(j) <= Behind(k)
  BY MonthsAscend DEF DaysOf, Behind
<1>3. n \in Nat /\ n = Behind(m) + d - 1 /\ d \in 1 .. DaysOf(m)
  BY <1>1, SMTT(30) DEF n, DaysOf, Behind
<1>4. left = [k \in 1 .. 12 |-> IF k = 1 THEN n ELSE left[k - 1] - DaysOf(k - 1)]
  <2>1. ASSUME NEW k \in 1 .. 12
        PROVE  G[k] = IF k = 1 THEN n ELSE G[k - 1] - DaysOf(k - 1)
    <3>1. CASE k = 1
      BY <3>1, <1>1, <1>3
    <3>2. CASE k # 1
      <4>1. k - 1 \in 1 .. 11 /\ k - 1 \in 1 .. 12 /\ (k - 1) + 1 = k
        BY <3>2
      <4>2. Behind(k) = Behind(k - 1) + DaysOf(k - 1)
        BY <4>1, <1>1
      <4>3. QED
        BY <3>2, <4>1, <4>2, <1>1, <1>3, SMTT(30)
    <3>3. QED
      BY <3>1, <3>2
  <2>2. G = [k \in 1 .. 12 |-> IF k = 1 THEN n ELSE G[k - 1] - DaysOf(k - 1)]
    BY <2>1
  <2> HIDE DEF G
  <2>3. left = CHOOSE f : f = [k \in 1 .. 12 |-> IF k = 1 THEN n ELSE f[k - 1] - DaysOf(k - 1)]
    BY DEF left
  <2>4. QED
    BY <2>2, <2>3, Zenon
<1>5. \A k \in 1 .. 12 : left[k] = n - Behind(k)
  <2> DEFINE wrong == {k \in 1 .. 12 : left[k] # n - Behind(k)}
  <2>1. SUFFICES ASSUME wrong # {} PROVE FALSE
    OBVIOUS
  <2>2. wrong \in SUBSET Nat
    OBVIOUS
  <2> DEFINE k == Least(wrong)
  <2>3. k \in wrong /\ \A j \in wrong : k <= j
    BY <2>1, <2>2, LeastIs
  <2> HIDE DEF k
  <2>4. k \in 1 .. 12 /\ left[k] # n - Behind(k)
    BY <2>3
  <2>5. left[k] = IF k = 1 THEN n ELSE left[k - 1] - DaysOf(k - 1)
    BY <1>4, <2>4
  <2>6. k # 1
    BY <2>4, <2>5, <1>1, <1>3
  <2>7. k - 1 \in 1 .. 11 /\ k - 1 \in 1 .. 12 /\ (k - 1) + 1 = k /\ ~(k <= k - 1)
    BY <2>4, <2>6
  <2>8. left[k - 1] = n - Behind(k - 1)
    BY <2>3, <2>7
  <2>9. Behind(k) = Behind(k - 1) + DaysOf(k - 1)
    BY <2>7, <1>1
  <2>10. QED
    BY <2>4, <2>5, <2>6, <2>7, <2>8, <2>9, <1>1, <1>3
<1>6. Here(m)
  <2>1. left[m] = d - 1
    <3>1. left[m] = n - Behind(m) /\ Behind(m) \in Nat
      BY <1>1, <1>5, SMTT(30)
    <3>2. QED
      BY <3>1, <1>3
  <2>2. QED
    BY <2>1, <1>1, <1>3 DEF Here
<1>7. \A k \in 1 .. 12 : Here(k) => k = m
  <2> SUFFICES ASSUME NEW k \in 1 .. 12, Here(k), k # m PROVE FALSE
    OBVIOUS
  <2>1. /\ n \in Int /\ \A j \in 1 .. 12 : Behind(j) \in Int /\ DaysOf(j) \in Int
    BY <1>1, <1>3
  <2>2. /\ Behind(k) <= n /\ n < Behind(k) + DaysOf(k)
        /\ Behind(m) <= n /\ n < Behind(m) + DaysOf(m)
    <3>1. left[k] = n - Behind(k) /\ left[m] = n - Behind(m)
      BY <1>5
    <3>2. left[k] \in 0 .. DaysOf(k) - 1 /\ left[m] \in 0 .. DaysOf(m) - 1
      BY <1>6 DEF Here
    <3>3. QED
      BY <3>1, <3>2, <2>1
  <2>3. CASE k < m
    BY <2>1, <2>2, <2>3, <1>2
  <2>4. CASE m < k
    BY <2>1, <2>2, <2>4, <1>2
  <2>5. QED
    BY <2>3, <2>4
<1> DEFINE month == CHOOSE k \in 1 .. 12 : Here(k)
<1>8. month = m
  BY <1>6, <1>7
<1>9. Cal!MonthDay(y, n) = <<month, left[month] + 1>>
  BY Zenon DEF Cal!MonthDay, Here, left, DaysOf
<1> HIDE DEF month
<1>10. left[m] + 1 = d
  BY <1>1, <1>3, <1>5, SMTT(30)
<1>11. Cal!MonthDay(y, n) = <<m, d>>
  BY <1>8, <1>9, <1>10
<1>12. QED
  BY <1>11, Zenon DEF n

LEMMA UtcIs ==
  ASSUME NEW y \in Nat, y >= 2000, NEW m \in 1 .. 12,
         NEW d \in 1 .. Cal!get_days_one_month(y, m),
         NEW n, n = Start(y) + Cal!DaysBefore(y, m) + d - 1
  PROVE  /\ n \in Nat
         /\ Cal!get_UTC(n) = [year |-> y, month |-> m, day |-> d, week |-> Cal!WeekOf(n)]
<1> DEFINE x == Cal!DaysBefore(y, m) + d - 1
<1>1. x \in 0 .. YearLen(y) - 1
  <2>1. /\ Cal!get_days_one_month(y, m) \in 28 .. 31 /\ Cal!DaysBefore(y, m) \in 0 .. 335
        /\ Cal!get_days_one_month(y, 12) \in 28 .. 31 /\ Cal!DaysBefore(y, 12) \in 0 .. 335
        /\ Cal!DaysBefore(y, 12) + Cal!get_days_one_month(y, 12) = YearLen(y)
    BY Months, SMTT(30)
  <2>2. m # 12 => Cal!DaysBefore(y, m) + Cal!get_days_one_month(y, m) <= Cal!DaysBefore(y, 12)
    BY MonthsAscend
  <2>3. Cal!DaysBefore(y, m) + Cal!get_days_one_month(y, m) <= YearLen(y) /\ YearLen(y) \in Nat
    <3>1. CASE m = 12
      BY <2>1, <3>1
    <3>2. CASE m # 12
      <4> DEFINE p == Cal!DaysBefore(y, m) + Cal!get_days_one_month(y, m)
                 q == Cal!DaysBefore(y, 12)
                 r == Cal!get_days_one_month(y, 12)
      <4>1. p \in Nat /\ q \in Nat /\ r \in Nat /\ q + r = YearLen(y)
        BY <2>1
      <4>2. p <= q
        BY <2>2, <3>2
      <4> HIDE DEF p, q, r
      <4>3. p <= YearLen(y) /\ YearLen(y) \in Nat
        BY <4>1, <4>2
      <4>4. QED
        BY <4>3 DEF p
    <3>3. QED
      BY <3>1, <3>2
  <2>4. QED
    BY <2>1, <2>3
<1>2. n = Start(y) + x /\ Start(y) \in Nat
  <2>1. Start(y) \in Nat
    BY YearEnds
  <2>2. Cal!DaysBefore(y, m) \in 0 .. 335
    BY Months, SMTT(30)
  <2>3. QED
    BY <2>1, <2>2
<1>3. n \in Nat /\ Cal!YearOf(n) = [year |-> y, day |-> x]
  <2> HIDE DEF x
  <2>1. PICK a \in Nat, b \in 0 .. 3, c \in 0 .. 24, e \in 0 .. 3 : Split(y, a, b, c, e)
    BY Splits
  <2>2. b \in Nat /\ c \in Nat /\ e \in Nat
    OBVIOUS
  <2>3. QED
    BY <1>1, <1>2, <2>1, <2>2, YearOfIs, SMTT(30)
<1>4. Cal!MonthDay(y, x) = <<m, d>>
  BY MonthDayIs
<1> HIDE DEF x
<1>5. Cal!get_UTC(n) =
        [year |-> Cal!YearOf(n).year,
         month |-> Cal!MonthDay(Cal!YearOf(n).year, Cal!YearOf(n).day)[1],
         day |-> Cal!MonthDay(Cal!YearOf(n).year, Cal!YearOf(n).day)[2],
         week |-> Cal!WeekOf(n)]
  BY DEF Cal!get_UTC
<1>6. Cal!YearOf(n).year = y /\ Cal!YearOf(n).day = x
  BY <1>3
<1>7. Cal!MonthDay(y, x)[1] = m /\ Cal!MonthDay(y, x)[2] = d
  BY <1>4
<1>8. QED
  BY <1>3, <1>5, <1>6, <1>7

-------------------------------------------------------------------------------
(* The walk through the days.                                              *)

\* The date is that of the day counted.
DateIsCount ==
  /\ count \in Nat
  /\ date = [year |-> date.year, month |-> date.month, day |-> date.day, week |-> date.week]
  /\ date.year \in Nat /\ date.year >= 2000 /\ date.month \in 1 .. 12
  /\ date.day \in 1 .. Cal!get_days_one_month(date.year, date.month)
  /\ count = Start(date.year) + Cal!DaysBefore(date.year, date.month) + date.day - 1
  /\ date.week = Cal!WeekOf(count)

\* Each day of an entry was selected once by its date, the last date of a month
\* selects those the month lacks.
HitsSoFar ==
  hits = [d \in 1 .. 31 |-> IF d <= date.day \/ Cal!LastOfMonth THEN 1 ELSE 0]

CalendarInv == DateIsCount /\ HitsSoFar

LEMMA DateIs ==
  ASSUME DateIsCount
  PROVE  /\ Cal!get_UTC(count) = date
         /\ Cal!get_TAI_day(date) = count
<1> DEFINE y == date.year
           m == date.month
           d == date.day
<1>1. /\ y \in Nat /\ y >= 2000 /\ m \in 1 .. 12 /\ d \in 1 .. Cal!get_days_one_month(y, m)
      /\ count = Start(y) + Cal!DaysBefore(y, m) + d - 1
      /\ date = [year |-> y, month |-> m, day |-> d, week |-> Cal!WeekOf(count)]
  BY DEF DateIsCount
<1>2. d \in Nat
  BY <1>1, Months
<1>3. Cal!get_TAI_day(date) = Start(y) + Cal!DaysBefore(y, m) + d - 1
  BY <1>1, <1>2, TaiIs
<1> HIDE DEF y, m, d
<1>4. Cal!get_UTC(count) = [year |-> y, month |-> m, day |-> d, week |-> Cal!WeekOf(count)]
  BY <1>1, UtcIs
<1>5. QED
  BY <1>1, <1>3, <1>4

LEMMA CalendarInit == Cal!Init => CalendarInv
<1> SUFFICES ASSUME Cal!Init PROVE CalendarInv
  OBVIOUS
<1>1. /\ count = 0 /\ date = [year |-> 2000, month |-> 1, day |-> 1, week |-> 5]
      /\ hits = Cal!Selected(Cal!get_UTC(0))
  BY DEF Cal!Init
<1>2. Start(2000) = 0 /\ Cal!DaysBefore(2000, 1) = 0 /\ Cal!get_days_one_month(2000, 1) = 31
  BY DEF Start, Cal!DaysBefore, Cal!get_days_one_month
<1>3. Cal!WeekOf(0) = 5
  BY DEF Cal!WeekOf, Cal!WEEK_BASE
<1>4. DateIsCount
  BY <1>1, <1>2, <1>3 DEF DateIsCount
<1>5. Cal!get_UTC(0) = date
  BY <1>1, <1>4, DateIs
<1>6. HitsSoFar
  BY <1>1, <1>2, <1>5 DEF HitsSoFar, Cal!Selected, Cal!DayMatches, Cal!LastOfMonth
<1>7. QED
  BY <1>4, <1>6 DEF CalendarInv

LEMMA NextDayInv == CalendarInv /\ Cal!NextDay => CalendarInv'
<1> SUFFICES ASSUME CalendarInv, Cal!NextDay PROVE CalendarInv'
  OBVIOUS
<1> DEFINE y == date.year
           m == date.month
           d == date.day
           len == Cal!get_days_one_month(y, m)
<1>1. /\ count \in Nat /\ y \in Nat /\ y >= 2000 /\ m \in 1 .. 12 /\ d \in 1 .. len
      /\ count = Start(y) + Cal!DaysBefore(y, m) + d - 1 /\ date.week = Cal!WeekOf(count)
  BY DEF CalendarInv, DateIsCount
<1>2. /\ count' = count + 1
      /\ date'.year = IF d = len /\ m = 12 THEN y + 1 ELSE y
      /\ date'.month = IF d = len THEN (IF m = 12 THEN 1 ELSE m + 1) ELSE m
      /\ date'.day = IF d = len THEN 1 ELSE d + 1
      /\ date'.week = (date.week + 1) % 7
      /\ date' = [year |-> date'.year, month |-> date'.month, day |-> date'.day,
                  week |-> date'.week]
  BY DEF Cal!NextDay, Cal!NewYear, Cal!LastOfMonth
<1> DEFINE y2 == date'.year
           m2 == date'.month
           d2 == date'.day
           len2 == Cal!get_days_one_month(y2, m2)
<1> HIDE DEF y, m, d, len, y2, m2, d2, len2
<1>3. /\ len \in 28 .. 31 /\ Cal!DaysBefore(y, m) \in Nat /\ Start(y) \in Nat
      /\ Start(y + 1) = Start(y) + YearLen(y)
      /\ m # 12 => Cal!DaysBefore(y, m + 1) = Cal!DaysBefore(y, m) + len
      /\ m = 12 => Cal!DaysBefore(y, m) + len = YearLen(y)
      /\ Cal!DaysBefore(y + 1, 1) = 0
  <2>1. y + 1 \in Nat
    BY <1>1
  <2>2. Start(y) \in Nat /\ Start(y + 1) = Start(y) + YearLen(y)
    BY <1>1, YearEnds
  <2>3. /\ len \in 28 .. 31 /\ Cal!DaysBefore(y, m) \in 0 .. 335
        /\ m # 12 => Cal!DaysBefore(y, m + 1) = Cal!DaysBefore(y, m) + len
        /\ m = 12 => Cal!DaysBefore(y, m) + len = YearLen(y)
    <3>1. y \in Nat /\ m \in 1 .. 12
      BY <1>1
    <3>2. QED
      BY <3>1, Months DEF len
  <2>4. Cal!DaysBefore(y + 1, 1) = 0
    BY <2>1, Months
  <2>5. QED
    BY <2>2, <2>3, <2>4
<1>4. y2 \in Nat /\ y2 >= 2000 /\ m2 \in 1 .. 12 /\ d2 \in 1 .. len2
  <2>1. y2 \in Nat /\ y2 >= 2000 /\ m2 \in 1 .. 12
    BY <1>1, <1>2 DEF y, m, d, y2, m2, d2
  <2>2. len2 \in 28 .. 31
    BY <2>1, Months DEF len2
  <2>3. d # len => len2 = len
    BY <1>2 DEF len2, len, y, m, d, y2, m2
  <2>4. d2 = IF d = len THEN 1 ELSE d + 1
    BY <1>2 DEF d, d2, len
  <2>5. QED
    BY <1>1, <1>3, <2>1, <2>2, <2>3, <2>4
<1>5. count' = Start(y2) + Cal!DaysBefore(y2, m2) + d2 - 1
  <2>1. CASE d # len
    <3>1. y2 = y /\ m2 = m /\ d2 = d + 1
      BY <1>2, <2>1 DEF y, m, d, len, y2, m2, d2
    <3>2. QED
      BY <1>1, <1>2, <1>3, <3>1
  <2>2. CASE d = len /\ m # 12
    <3>1. y2 = y /\ m2 = m + 1 /\ d2 = 1
      BY <1>2, <2>2 DEF y, m, d, len, y2, m2, d2
    <3>2. QED
      BY <1>1, <1>2, <1>3, <3>1, <2>2
  <2>3. CASE d = len /\ m = 12
    <3>1. y2 = y + 1 /\ m2 = 1 /\ d2 = 1
      BY <1>2, <2>3 DEF y, m, d, len, y2, m2, d2
    <3>2. QED
      BY <1>1, <1>2, <1>3, <3>1, <2>3
  <2>4. QED
    BY <2>1, <2>2, <2>3
<1>6. date'.week = Cal!WeekOf(count')
  <2>1. Cal!WeekOf(count) = (count + 5) % 7 /\ Cal!WeekOf(count') = (count' + 5) % 7
    BY DEF Cal!WeekOf, Cal!WEEK_BASE
  <2>2. (((count + 5) % 7) + 1) % 7 = (count + 1 + 5) % 7
    BY <1>1, SMT
  <2>3. QED
    BY <1>1, <1>2, <2>1, <2>2
<1>7. DateIsCount'
  BY <1>1, <1>2, <1>4, <1>5, <1>6 DEF DateIsCount, y2, m2, d2, len2
<1>8. Cal!get_UTC(count') = date'
  <2>1. \A n : n = count' => Cal!get_UTC(n) = date'
    BY <1>2, <1>4, <1>5, <1>6, UtcIs DEF y2, m2, d2, len2
  <2>2. QED
    BY <2>1
<1>9. HitsSoFar'
  <2>1. hits' = [x \in 1 .. 31 |-> Cal!Selected(Cal!get_UTC(count + 1))[x]
                                   + (IF d = len THEN 0 ELSE hits[x])]
    BY Zenon DEF Cal!NextDay, Cal!LastOfMonth, d, len, y, m
  <2>2. Cal!Selected(date') = [x \in 1 .. 31 |->
                                 IF d2 = x \/ (x > len2 /\ d2 = len2) THEN 1 ELSE 0]
    BY DEF Cal!Selected, Cal!DayMatches, d2, len2, y2, m2
  <2>3. \A x \in 1 .. 31 : hits[x] = IF x <= d \/ d = len THEN 1 ELSE 0
    BY DEF CalendarInv, HitsSoFar, Cal!LastOfMonth, d, len, y, m
  <2>4. d2 = (IF d = len THEN 1 ELSE d + 1) /\ (d # len => len2 = len)
    BY <1>2 DEF d, d2, len, len2, y, m, y2, m2
  <2>5. len2 \in 28 .. 31
    BY <1>4, Months DEF len2
  <2>6. ASSUME NEW x \in 1 .. 31
        PROVE  hits'[x] = IF x <= d2 \/ d2 = len2 THEN 1 ELSE 0
    <3>1. hits'[x] = (IF d2 = x \/ (x > len2 /\ d2 = len2) THEN 1 ELSE 0)
                     + (IF d = len THEN 0 ELSE IF x <= d \/ d = len THEN 1 ELSE 0)
      BY <1>2, <1>8, <2>1, <2>2, <2>3
    <3>2. QED
      BY <3>1, <2>4, <2>5, <1>1, <1>3, <1>4
  <2>7. hits' = [x \in 1 .. 31 |-> IF x <= d2 \/ d2 = len2 THEN 1 ELSE 0]
    BY <2>1, <2>6
  <2>8. QED
    BY <2>7, Zenon DEF HitsSoFar, Cal!LastOfMonth, d2, len2, y2, m2
<1>10. QED
  BY <1>7, <1>9 DEF CalendarInv

LEMMA CalendarInductive == MCSpec => []CalendarInv
<1>1. MCInit => CalendarInv
  BY CalendarInit DEF MCInit
<1>2. CalendarInv /\ [MCNext]_<<vars, part, calendar>> => CalendarInv'
  <2> SUFFICES ASSUME CalendarInv, [MCNext]_<<vars, part, calendar>> PROVE CalendarInv'
    OBVIOUS
  <2>1. CASE Cal!NextDay
    BY <2>1, NextDayInv
  <2>2. CASE UNCHANGED calendar
    BY <2>2 DEF calendar, CalendarInv, DateIsCount, HitsSoFar, Cal!LastOfMonth
  <2>3. QED
    BY <2>1, <2>2 DEF MCNext
<1>3. QED
  BY <1>1, <1>2, PTL DEF MCSpec

\* get_UTC is the Gregorian calendar and get_TAI_sec its inverse, for every day
\* walked to.
THEOREM UtcIsCalendar == MCSpec => []TaiInvertsUtc
<1>1. CalendarInv => TaiInvertsUtc
  BY DateIs DEF CalendarInv, TaiInvertsUtc, Cal!TaiInvertsUtc
<1>2. QED
  BY <1>1, CalendarInductive, PTL

\* A scheduler entry for any day of the month is selected once in every month.
THEOREM MonthlyEntries == MCSpec => []OncePerMonth
<1>1. CalendarInv => OncePerMonth
  BY DEF CalendarInv, HitsSoFar, OncePerMonth, Cal!OncePerMonth
<1>2. QED
  BY <1>1, CalendarInductive, PTL
===============================================================================
