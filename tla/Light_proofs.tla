------------------------------ MODULE Light_proofs ------------------------------
(***************************************************************************)
(* What the safety properties of a light say holds for every size of a     *)
(* level, transition time, delay, interval, range, set of scenes and       *)
(* defaults, and whatever the delay before a store.                        *)
(*                                                                         *)
(* The invariant of a transition adds to them how far the steps that are   *)
(* left can still carry the light (Course), in units of step_1p32768 with  *)
(* the fraction, and where a recalled scene is until it is current         *)
(* (Recalling, TargetEnds, CurrentStored).  That of the saved setting adds that what   *)
(* is stored and not yet returned is what is set (Stored), and that outside *)
(* of an off node, and in flash, the setting leads to the target, unless   *)
(* an ignored command or the default level came in between (Leads).        *)
(***************************************************************************)
EXTENDS MCLight, TLAPS


\* n more steps up do not carry the light from p past its target, except to
\* the top, where a move goes: there the range stops it.
Rising(p, to, fr, st, n) ==
  /\ st >= 0 /\ fr >= 0 /\ p <= to
  /\ to = Top \/ (p * One) + fr + (st * n) <= to * One

Falling(p, to, fr, st, n) ==
  /\ st <= 0 /\ fr <= 0 /\ to <= p
  /\ to = Bottom \/ to * One <= (p * One) + fr + (st * n)

Course(tr) ==
  tr.remain > 0 =>
    \/ Rising(tr.present, tr.target, tr.frac, tr.step, tr.remain \div Interval)
    \/ Falling(tr.present, tr.target, tr.frac, tr.step, tr.remain \div Interval)

\* A recalled scene stays the target until the light is there, then it is the
\* current one.
Recalling ==
  goal # None =>
    /\ ~lost /\ scene[goal] = trans.target
    /\ IF Settled THEN current = goal /\ targetScene = None ELSE targetScene = goal

\* A transition that has ended leaves no scene being recalled.
TargetEnds == targetScene # None /\ Settled => lost \/ refused

\* There is no current scene while one is recalled, and neither is one that was
\* deleted.
CurrentStored ==
  /\ current # None => scene[current] # None /\ targetScene = None
  /\ targetScene # None => scene[targetScene] # None

IInv ==
  /\ TypeOK /\ SettledAtTarget /\ (~clamped => Course(trans))
  /\ Recalling /\ TargetEnds /\ CurrentStored

-------------------------------------------------------------------------------
(* Division.                                                               *)

LEMMA Division ==
  ASSUME NEW a \in Nat, NEW b \in Nat \ {0}
  PROVE  /\ a \div b \in Nat /\ a % b \in 0 .. b - 1
         /\ a = b * (a \div b) + (a % b)
  BY SMT

LEMMA Product ==
  ASSUME NEW a \in Nat, NEW b \in Nat
  PROVE  a * b \in Nat
  BY SMT

LEMMA ProductGrows ==
  ASSUME NEW a \in Nat, NEW b \in Nat, NEW c \in Nat, b <= c
  PROVE  a * b <= a * c
<1>1. PICK d \in Nat : c = b + d
  <2>1. c - b \in Nat /\ c = b + (c - b)
    OBVIOUS
  <2>2. QED
    BY <2>1
<1>2. a * c = a * b + a * d /\ a * d >= 0
  BY <1>1
<1>3. a * b \in Int /\ a * d \in Int /\ a * c \in Int
  OBVIOUS
<1>4. QED
  BY <1>2, <1>3

LEMMA QuotRem ==
  ASSUME NEW a \in Int, NEW b \in Nat \ {0}
  PROVE  /\ Quot(a, b) \in Int /\ Rem(a, b) \in Int
         /\ a = b * Quot(a, b) + Rem(a, b)
         /\ a >= 0 => Quot(a, b) >= 0 /\ Rem(a, b) >= 0 /\ Rem(a, b) < b
         /\ a <= 0 => Quot(a, b) <= 0 /\ Rem(a, b) <= 0 /\ Rem(a, b) > -b
<1>1. CASE a >= 0
  <2>1. Quot(a, b) = a \div b
    BY <1>1 DEF Quot
  <2>2. a \in Nat
    BY <1>1
  <2>3. /\ a \div b \in Nat /\ a % b \in 0 .. b - 1
        /\ a = b * (a \div b) + (a % b)
    BY <2>2, Division
  <2>4. (a \div b) * b = b * (a \div b)
    BY <2>3
  <2>5. Rem(a, b) = a % b
    BY <2>1, <2>3, <2>4 DEF Rem
  <2>6. a = 0 => a \div b = 0 /\ a % b = 0
    BY SMT
  <2>7. QED
    BY <2>1, <2>3, <2>5, <2>6, <1>1
<1>2. CASE a < 0
  <2>1. Quot(a, b) = -((-a) \div b)
    BY <1>2 DEF Quot
  <2>2. -a \in Nat
    BY <1>2
  <2>3. /\ (-a) \div b \in Nat /\ (-a) % b \in 0 .. b - 1
        /\ -a = b * ((-a) \div b) + ((-a) % b)
    BY <2>2, Division
  <2> DEFINE q == (-a) \div b
             r == (-a) % b
  <2> HIDE DEF q, r
  <2>4. q \in Nat /\ r \in 0 .. b - 1 /\ -a = b * q + r /\ Quot(a, b) = -q
    BY <2>1, <2>3 DEF q, r
  <2>5. (-q) * b = -(b * q) /\ b * (-q) = -(b * q)
    BY <2>4
  <2>6. b * q \in Nat
    BY <2>4, Product
  <2>7. a = -(b * q) - r
    BY <2>4, <2>6
  <2>8. Rem(a, b) = -r
    BY <2>4, <2>5, <2>6, <2>7 DEF Rem
  <2>9. QED
    BY <2>4, <2>5, <2>6, <2>7, <2>8, <1>2
<1>3. QED
  BY <1>1, <1>2

\* A millisecond less leaves no more steps, and one less if a step was due.
LEMMA StepsLeft ==
  ASSUME NEW r \in Nat \ {0}
  PROVE  /\ r \div Interval \in Nat /\ (r - 1) \div Interval \in Nat
         /\ (r - 1) \div Interval <= r \div Interval
         /\ r % Interval = 0 => (r - 1) \div Interval <= (r \div Interval) - 1
<1> DEFINE q == r \div Interval
           s == r % Interval
           q1 == (r - 1) \div Interval
           s1 == (r - 1) % Interval
           I == Interval
<1>1. I \in Nat \ {0}
  BY TransitionAssumption
<1>2. q \in Nat /\ s \in 0 .. I - 1 /\ r = (I * q) + s
  BY <1>1, Division
<1>3. q1 \in Nat /\ s1 \in 0 .. I - 1 /\ r - 1 = (I * q1) + s1
  <2>1. r - 1 \in Nat
    OBVIOUS
  <2>2. QED
    BY <1>1, <2>1, Division
<1> HIDE DEF q, s, q1, s1, I
<1>4. I * q \in Nat /\ I * q1 \in Nat
  BY <1>1, <1>2, <1>3, Product
<1>5. q1 <= q
  <2>1. SUFFICES ASSUME q + 1 <= q1 PROVE FALSE
    BY <1>2, <1>3
  <2>2. I * (q + 1) <= I * q1
    BY <1>1, <1>2, <1>3, <2>1, ProductGrows
  <2>3. I * (q + 1) = (I * q) + I
    BY <1>1, <1>2
  <2>4. QED
    BY <1>1, <1>2, <1>3, <1>4, <2>2, <2>3
<1>6. s = 0 => q1 # q
  BY <1>1, <1>2, <1>3, <1>4
<1>7. s = 0 => q1 <= q - 1
  BY <1>2, <1>3, <1>5, <1>6
<1>8. QED
  BY <1>2, <1>3, <1>5, <1>7 DEF q, s, q1, s1, I

-------------------------------------------------------------------------------
(* The steps of a transition.                                              *)

LEMMA LevelIsInt == Level \subseteq Int /\ Top \in Int /\ Bottom \in Int /\ One \in Nat \ {0}
  BY LevelAssumption, TransitionAssumption DEF Level, Top, Bottom

\* Fewer steps are never worse.
LEMMA FewerSteps ==
  ASSUME NEW p \in Int, NEW to \in Int, NEW fr \in Int, NEW st \in Int,
         NEW n \in Nat, NEW m \in Nat, m <= n
  PROVE  /\ Rising(p, to, fr, st, n) => Rising(p, to, fr, st, m)
         /\ Falling(p, to, fr, st, n) => Falling(p, to, fr, st, m)
<1>1. st >= 0 => st * m <= st * n
  BY ProductGrows
<1>2. st <= 0 => (-st) * m <= (-st) * n
  BY ProductGrows
<1>3. (-st) * m = -(st * m) /\ (-st) * n = -(st * n)
  OBVIOUS
<1>4. st * m \in Int /\ st * n \in Int
  OBVIOUS
<1>5. st <= 0 => st * n <= st * m
  BY <1>2, <1>3, <1>4
<1>6. p * One \in Int /\ to * One \in Int
  BY LevelIsInt
<1>7. Rising(p, to, fr, st, n) => Rising(p, to, fr, st, m)
  BY <1>1, <1>4, <1>6 DEF Rising
<1>8. Falling(p, to, fr, st, n) => Falling(p, to, fr, st, m)
  BY <1>5, <1>4, <1>6 DEF Falling
<1>9. QED
  BY <1>7, <1>8

\* One step, rounded, with the fraction carried over, uses up one of them.
LEMMA OneStep ==
  ASSUME NEW p \in Level, NEW to \in Level, NEW fr \in Int, NEW st \in Int,
         NEW n \in Nat \ {0}, p + Quot(st + fr, One) \in Level
  PROVE  /\ Rising(p, to, fr, st, n) =>
              /\ Rising(p + Quot(st + fr, One), to, Rem(st + fr, One), st, n - 1)
              /\ p <= p + Quot(st + fr, One)
         /\ Falling(p, to, fr, st, n) =>
              /\ Falling(p + Quot(st + fr, One), to, Rem(st + fr, One), st, n - 1)
              /\ p + Quot(st + fr, One) <= p
<1> DEFINE q == Quot(st + fr, One)
           f == Rem(st + fr, One)
<1>1. /\ q \in Int /\ f \in Int /\ st + fr = (One * q) + f
      /\ st + fr >= 0 => q >= 0 /\ f >= 0
      /\ st + fr <= 0 => q <= 0 /\ f <= 0
  <2>1. st + fr \in Int /\ One \in Nat \ {0}
    BY LevelIsInt
  <2>2. QED
    BY <2>1, QuotRem
<1>2. p + q \in Level
  OBVIOUS
<1> HIDE DEF q, f
<1>3. p \in Int /\ to \in Int /\ One \in Nat \ {0}
  BY LevelIsInt
<1>4. One * q = q * One /\ (p + q) * One = (p * One) + (q * One)
  BY <1>1, <1>3
<1>5. st * (n - 1) = (st * n) - st
  OBVIOUS
<1>6. p * One \in Int /\ q * One \in Int /\ to * One \in Int /\ st * n \in Int /\ (p + q) * One \in Int
      /\ st * (n - 1) \in Int
  BY <1>1, <1>3
<1>7. ((p + q) * One) + f + (st * (n - 1)) = (p * One) + fr + (st * n)
  BY <1>1, <1>4, <1>5, <1>6
<1>8. ASSUME Rising(p, to, fr, st, n) PROVE Rising(p + q, to, f, st, n - 1) /\ p <= p + q
  <2>1. st >= 0 /\ fr >= 0 /\ q >= 0 /\ f >= 0
    BY <1>1, <1>8 DEF Rising
  <2>2. CASE to = Top
    BY <1>1, <1>2, <1>3, <2>1, <2>2 DEF Rising, Level, Top, Bottom
  <2>3. CASE to # Top
    <3>1. ((p + q) * One) + f + (st * (n - 1)) <= to * One
      BY <1>7, <1>8, <2>3 DEF Rising
    <3>2. st * (n - 1) >= 0
      BY <2>1, Product
    <3>3. (p + q) * One <= to * One
      BY <1>1, <1>6, <2>1, <3>1, <3>2
    <3>4. p + q <= to
      <4>1. SUFFICES ASSUME to + 1 <= p + q PROVE FALSE
        BY <1>1, <1>3
      <4>2. ((p + q) - to) * One >= One
        BY <1>1, <1>3, <4>1
      <4>3. ((p + q) - to) * One = ((p + q) * One) - (to * One)
        BY <1>1, <1>3
      <4>4. QED
        BY <1>3, <1>6, <3>3, <4>2, <4>3
    <3>5. QED
      BY <1>1, <1>3, <2>1, <3>1, <3>4 DEF Rising
  <2>4. QED
    BY <2>2, <2>3
<1>9. ASSUME Falling(p, to, fr, st, n) PROVE Falling(p + q, to, f, st, n - 1) /\ p + q <= p
  <2>1. st <= 0 /\ fr <= 0 /\ q <= 0 /\ f <= 0
    BY <1>1, <1>9 DEF Falling
  <2>2. CASE to = Bottom
    BY <1>1, <1>2, <1>3, <2>1, <2>2 DEF Falling, Level, Top, Bottom
  <2>3. CASE to # Bottom
    <3>1. to * One <= ((p + q) * One) + f + (st * (n - 1))
      BY <1>7, <1>9, <2>3 DEF Falling
    <3>2. st * (n - 1) <= 0
      <4>1. (-st) * (n - 1) >= 0
        BY <2>1, Product
      <4>2. (-st) * (n - 1) = -(st * (n - 1))
        OBVIOUS
      <4>3. QED
        BY <1>6, <4>1, <4>2
    <3>3. to * One <= (p + q) * One
      BY <1>1, <1>6, <2>1, <3>1, <3>2
    <3>4. to <= p + q
      <4>1. SUFFICES ASSUME p + q + 1 <= to PROVE FALSE
        BY <1>1, <1>3
      <4>2. (to - (p + q)) * One >= One
        BY <1>1, <1>3, <4>1
      <4>3. (to - (p + q)) * One = (to * One) - ((p + q) * One)
        BY <1>1, <1>3
      <4>4. QED
        BY <1>3, <1>6, <3>3, <4>2, <4>3
    <3>5. QED
      BY <1>1, <1>3, <2>1, <3>1, <3>4 DEF Falling
  <2>4. QED
    BY <2>2, <2>3
<1>10. QED
  BY <1>8, <1>9 DEF q, f
\* A step of a transition over t ms to a level d away, each Interval ms: the
\* steps in t do not add up to more than d.
LEMMA StepsAddUp ==
  ASSUME NEW d \in Int, NEW t \in Nat \ {0}
  PROVE  LET st == Quot(d * One, t) * Interval
             n  == t \div Interval
         IN  /\ st \in Int /\ n \in Nat
             /\ d >= 0 => st >= 0 /\ st * n <= d * One
             /\ d <= 0 => st <= 0 /\ d * One <= st * n
<1> DEFINE q == Quot(d * One, t)
           w == Rem(d * One, t)
           n == t \div Interval
           x == t % Interval
           I == Interval
<1>1. I \in Nat \ {0} /\ One \in Nat \ {0} /\ d * One \in Int
  BY TransitionAssumption
<1>2. d >= 0 => d * One >= 0
  BY <1>1, Product
<1>3. d <= 0 => d * One <= 0
  <2>1. d <= 0 => (-d) * One >= 0
    BY <1>1, Product
  <2>2. (-d) * One = -(d * One)
    BY <1>1
  <2>3. QED
    BY <1>1, <2>1, <2>2
<1>4. /\ q \in Int /\ w \in Int /\ d * One = (t * q) + w
      /\ d >= 0 => q >= 0 /\ w >= 0
      /\ d <= 0 => q <= 0 /\ w <= 0
  BY <1>1, <1>2, <1>3, QuotRem
<1>5. n \in Nat /\ x \in Nat /\ t = (I * n) + x
  BY <1>1, Division
<1> HIDE DEF q, w, n, x, I
<1>6. I * n \in Nat /\ I * n <= t
  BY <1>1, <1>5, Product
<1>7. (q * I) * n = q * (I * n) /\ t * q = q * t
  BY <1>1, <1>4, <1>5
<1>8. q * I \in Int /\ q * (I * n) \in Int /\ q * t \in Int
  BY <1>1, <1>4, <1>6
<1>9. ASSUME d >= 0 PROVE q * I >= 0 /\ (q * I) * n <= d * One
  <2>1. q \in Nat
    BY <1>4, <1>9
  <2>2. q * (I * n) <= q * t
    BY <1>6, <2>1, ProductGrows
  <2>3. q * I >= 0
    BY <1>1, <2>1, Product
  <2>4. QED
    BY <1>1, <1>4, <1>7, <1>8, <1>9, <2>2, <2>3
<1>10. ASSUME d <= 0 PROVE q * I <= 0 /\ d * One <= (q * I) * n
  <2>1. -q \in Nat
    BY <1>4, <1>10
  <2>2. (-q) * (I * n) <= (-q) * t
    BY <1>6, <2>1, ProductGrows
  <2>3. (-q) * (I * n) = -(q * (I * n)) /\ (-q) * t = -(q * t) /\ (-q) * I = -(q * I)
    BY <1>1, <1>4, <1>6
  <2>4. (-q) * I >= 0
    BY <1>1, <2>1, Product
  <2>5. QED
    BY <1>1, <1>4, <1>7, <1>8, <1>10, <2>2, <2>3, <2>4
<1>11. QED
  BY <1>5, <1>8, <1>9, <1>10 DEF q, n, I

\* So a transition starts on course.
LEMMA Started ==
  ASSUME NEW p \in Level, NEW to \in Level, NEW t \in Nat \ {0}
  PROVE  LET st == Quot((to - p) * One, t) * Interval
             n  == t \div Interval
         IN  /\ st \in Int
             /\ Rising(p, to, 0, st, n) \/ Falling(p, to, 0, st, n)
<1> DEFINE d == to - p
           st == Quot(d * One, t) * Interval
           n == t \div Interval
<1>1. p \in Int /\ to \in Int /\ d \in Int /\ One \in Nat \ {0}
  BY LevelIsInt
<1>2. /\ st \in Int /\ n \in Nat
      /\ d >= 0 => st >= 0 /\ st * n <= d * One
      /\ d <= 0 => st <= 0 /\ d * One <= st * n
  BY <1>1, StepsAddUp
<1> HIDE DEF st, n
<1>3. d * One = (to * One) - (p * One)
  BY <1>1
<1> HIDE DEF d
<1>4. to * One \in Int /\ p * One \in Int /\ st * n \in Int
  BY <1>1, <1>2
<1>5. d >= 0 => Rising(p, to, 0, st, n)
  <2>1. d >= 0 => p <= to
    BY <1>1 DEF d
  <2>2. QED
    BY <1>2, <1>3, <1>4, <2>1 DEF Rising
<1>6. d <= 0 => Falling(p, to, 0, st, n)
  <2>1. d <= 0 => to <= p
    BY <1>1 DEF d
  <2>2. QED
    BY <1>2, <1>3, <1>4, <2>1 DEF Falling
<1>7. QED
  BY <1>1, <1>2, <1>5, <1>6 DEF d, st, n

\* A move by m, over any time, goes up to the top or down to the bottom.
LEMMA MoveStarted ==
  ASSUME NEW p \in Level, NEW m \in Level \ {0}, NEW t \in Nat \ {0}, NEW n \in Nat
  PROVE  LET st == Quot(m * One, t) * Interval
             to == get_target_level_for_move_set(m)
         IN  /\ st \in Int /\ to \in Level
             /\ Rising(p, to, 0, st, n) \/ Falling(p, to, 0, st, n)
<1> DEFINE st == Quot(m * One, t) * Interval
           to == get_target_level_for_move_set(m)
<1>1. m \in Int
  BY LevelIsInt
<1>2. /\ st \in Int
      /\ m >= 0 => st >= 0
      /\ m <= 0 => st <= 0
  BY <1>1, StepsAddUp
<1> HIDE DEF st
<1>3. to = (IF m >= 0 THEN Top ELSE Bottom) /\ Top \in Level /\ Bottom \in Level
  BY LevelAssumption DEF get_target_level_for_move_set, Level, Top, Bottom
<1>4. p <= Top /\ Bottom <= p
  BY LevelAssumption DEF Level, Top, Bottom
<1> HIDE DEF to
<1>5. Rising(p, to, 0, st, n) \/ Falling(p, to, 0, st, n)
  BY <1>1, <1>2, <1>3, <1>4 DEF Rising, Falling
<1>6. QED
  BY <1>2, <1>3, <1>5 DEF st, to
-------------------------------------------------------------------------------
(* The commands.                                                           *)

\* A level outside the range becomes one of its bounds, or stays off.
LEMMA Checked ==
  ASSUME NEW l \in Int, NEW r \in Range
  PROVE  get_val_with_check_range(l, r) \in Level
  BY LevelAssumption DEF get_val_with_check_range, Range, Level, LEVEL_OFF, Bottom, Top

\* A transition with the fields that a command sets.
Commanded(tr, l, d, t, fr, st) ==
  [tr EXCEPT !.target = l, !.delay = d, !.remain = t, !.frac = fr, !.step = st]

LEMMA CommandedIs ==
  ASSUME NEW tr \in Transitions, NEW l \in Level, NEW d \in Nat, NEW t \in Nat, NEW fr \in Int,
         NEW st \in Int, NEW r, r = Commanded(tr, l, d, t, fr, st)
  PROVE  /\ r \in Transitions /\ r.present = tr.present /\ r.target = l
         /\ r.remain = t /\ r.delay = d /\ r.frac = fr /\ r.step = st
<1>1. [tr EXCEPT !.target = l] \in Transitions
  BY DEF Transitions
<1>2. [tr EXCEPT !.target = l, !.delay = d] \in Transitions
  BY <1>1 DEF Transitions
<1>3. [tr EXCEPT !.target = l, !.delay = d, !.remain = t] \in Transitions
  BY <1>2 DEF Transitions
<1>4. [tr EXCEPT !.target = l, !.delay = d, !.remain = t, !.frac = fr] \in Transitions
  BY <1>3 DEF Transitions
<1>5. [tr EXCEPT !.target = l, !.delay = d, !.remain = t, !.frac = fr, !.step = st] \in Transitions
  BY <1>4 DEF Transitions
<1>6. QED
  BY <1>5 DEF Transitions, Commanded

LEMMA WithTransIs ==
  ASSUME TypeOK, NEW l \in Level, NEW t \in Nat, NEW d \in Nat
  PROVE  LET r == WithTrans(l, t, d)
         IN  /\ r \in Transitions /\ Course(r)
             /\ r.target = l /\ r.remain = t /\ r.delay = d
<1> DEFINE st == IF t = 0 THEN 0 ELSE Quot((l - trans.present) * One, t) * Interval
           r == WithTrans(l, t, d)
<1>1. trans \in Transitions /\ trans.present \in Level
  BY DEF TypeOK, Transitions
<1>2. st \in Int /\ (t > 0 => \/ Rising(trans.present, l, 0, st, t \div Interval)
                             \/ Falling(trans.present, l, 0, st, t \div Interval))
  <2>1. CASE t = 0
    BY <2>1
  <2>2. CASE t # 0
    BY <1>1, <2>2, Started
  <2>3. QED
    BY <2>1, <2>2
<1>3. r = Commanded(trans, l, d, t, 0, st) /\ 0 \in Int
  BY DEF WithTrans, Commanded
<1> HIDE DEF st, r
<1>4. /\ r \in Transitions /\ r.present = trans.present /\ r.target = l /\ r.remain = t
      /\ r.delay = d /\ r.frac = 0 /\ r.step = st
  BY <1>1, <1>2, <1>3, CommandedIs
<1>5. Course(r)
  BY <1>2, <1>4 DEF Course
<1>6. QED
  BY <1>4, <1>5 DEF r

LEMMA AtOnceIs ==
  ASSUME TypeOK, NEW l \in Level
  PROVE  LET r == AtOnce(l)
         IN  /\ r \in Transitions /\ Course(r)
             /\ r.present = l /\ r.target = l /\ r.remain = 0 /\ r.delay = 0
<1> DEFINE r == AtOnce(l)
<1>1. trans \in Transitions
  BY DEF TypeOK
<1>2. [trans EXCEPT !.present = l] \in Transitions
  BY <1>1 DEF Transitions
<1>3. [trans EXCEPT !.present = l, !.target = l] \in Transitions
  BY <1>2 DEF Transitions
<1>4. \A z \in Nat : [trans EXCEPT !.present = l, !.target = l, !.remain = z] \in Transitions
  BY <1>3 DEF Transitions
<1>5. \A z \in Nat : [trans EXCEPT !.present = l, !.target = l, !.remain = z, !.delay = z] \in Transitions
  BY <1>4 DEF Transitions
<1>6. r \in Transitions
  BY <1>5 DEF AtOnce
<1>7. r.present = l /\ r.target = l /\ r.remain = 0 /\ r.delay = 0
  BY <1>1 DEF AtOnce, Transitions
<1> HIDE DEF r
<1>8. Course(r)
  BY <1>7 DEF Course
<1>9. QED
  BY <1>6, <1>7, <1>8 DEF r

\* Whatever has left no recalled scene, and the scenes alone, needs only to keep
\* the light on course.
LEMMA Kept ==
  ASSUME IInv, trans' \in Transitions, Course(trans'),
         trans'.remain = 0 /\ trans'.delay = 0 /\ ~lost' => trans'.present = trans'.target,
         goal' = None, clamped' = FALSE, lost' \in BOOLEAN, refused' \in BOOLEAN,
         UNCHANGED <<range, scene, pc>>,
         \/ scene_target_complete_check
         \/ /\ UNCHANGED <<current, targetScene>>
            /\ trans'.remain = 0 /\ trans'.delay = 0 => lost'
  PROVE  IInv'
<1>1. /\ current' \in Scenes \cup {None} /\ targetScene' \in Scenes \cup {None}
      /\ CurrentStored'
  BY DEF IInv, TypeOK, CurrentStored, scene_target_complete_check
<1>2. TypeOK'
  BY <1>1 DEF IInv, TypeOK
<1>3. SettledAtTarget' /\ (~clamped' => Course(trans)') /\ Recalling' /\ TargetEnds'
  BY DEF SettledAtTarget, Settled, Recalling, TargetEnds, Course, scene_target_complete_check
<1>4. QED
  BY <1>1, <1>2, <1>3 DEF IInv

LEMMA LevelSetInv ==
  ASSUME IInv, NEW l \in Asked, NEW t \in Times, NEW d \in Delays, LevelSet(l, t, d)
  PROVE  IInv'
<1>1. l \in Level /\ t \in Nat /\ d \in Nat /\ TypeOK
  BY TransitionAssumption DEF IInv
<1>2. /\ goal' = None /\ clamped' = FALSE /\ lost' = FALSE /\ refused' = FALSE
      /\ UNCHANGED <<range, scene, pc>>
  BY DEF LevelSet, Undisturbed
<1>3. CASE is_transition_need(t, d) /\ trans.present # l
  <2>1. trans' = WithTrans(l, t, d) /\ UNCHANGED <<current, targetScene>>
    BY <1>3 DEF LevelSet
  <2>2. ~(t = 0 /\ d = 0)
    BY <1>1, <1>3 DEF is_transition_need
  <2>3. trans' \in Transitions /\ Course(trans') /\ trans'.remain = t /\ trans'.delay = d
    BY <1>1, <2>1, WithTransIs
  <2>4. QED
    BY <1>2, <2>1, <2>2, <2>3, Kept
<1>4. CASE ~(is_transition_need(t, d) /\ trans.present # l)
  <2>1. trans' = AtOnce(l) /\ scene_target_complete_check
    BY <1>4 DEF LevelSet
  <2>2. trans' \in Transitions /\ Course(trans') /\ trans'.present = trans'.target
    BY <1>1, <2>1, AtOnceIs
  <2>3. QED
    BY <1>2, <2>1, <2>2, Kept
<1>5. QED
  BY <1>3, <1>4

LEMMA MoveTimeIs ==
  ASSUME NEW l \in Int, NEW m \in Int \ {0}, NEW t \in Nat, trans.present \in Int
  PROVE  MoveTime(l, m, t) \in Nat
<1> DEFINE step == IF m > 0 THEN m ELSE -m
           dl == (l - trans.present) % Width
           b == dl \div step
           c == dl % step
<1>1. step \in Nat \ {0} /\ Width \in Nat \ {0}
  BY TransitionAssumption
<1>2. dl \in Nat
  BY <1>1
<1> HIDE DEF step, dl
<1>3. b \in Nat /\ c \in Nat
  BY <1>1, <1>2, Division
<1> HIDE DEF b, c
<1>4. t * c \in Nat /\ t * b \in Nat
  BY <1>3, Product
<1>5. (t * c) \div step \in Nat
  BY <1>1, <1>4, Division
<1>6. (t * b) + ((t * c) \div step) \in Nat
  BY <1>4, <1>5
<1>7. ((t * b) + ((t * c) \div step)) % Width \in Nat
  BY <1>1, <1>6, Division
<1>8. QED
  BY <1>7 DEF MoveTime, step, dl, b, c

LEMMA MoveSetInv ==
  ASSUME IInv, NEW l \in Asked, NEW t \in Times, NEW d \in Delays, MoveSet(l, t, d)
  PROVE  IInv'
<1> DEFINE m == get_val_with_check_range(l, range)
           to == get_target_level_for_move_set(m)
           st == IF t = 0 THEN 0 ELSE Quot(m * One, t) * Interval
           r == IF t = 0 THEN 0 ELSE MoveTime(to, m, t)
<1>1. /\ l \in Level /\ t \in Nat /\ d \in Nat /\ range \in Range
      /\ trans \in Transitions /\ trans.present \in Level
  BY TransitionAssumption DEF IInv, TypeOK, Transitions
<1>2. m \in Level
  BY <1>1, LevelIsInt, Checked
<1>3. CASE is_transition_need(t, d) /\ trans.present # to
  <2>1. /\ m # 0 /\ UNCHANGED <<range, scene, pc, current, targetScene>>
        /\ trans' = Commanded(trans, to, d, r, 0, st) /\ 0 \in Int
        /\ goal' = None /\ clamped' = FALSE /\ refused' = FALSE
        /\ lost' = (trans'.remain = 0 /\ d = 0)
    BY <1>3 DEF MoveSet, Commanded
  <2>2. to \in Level /\ trans.present \in Int /\ m \in Int /\ to \in Int
    <3>1. to \in Level
      BY <1>2, LevelAssumption DEF get_target_level_for_move_set, Level, Top, Bottom
    <3>2. QED
      BY <1>1, <1>2, <3>1, LevelIsInt
  <2>3. r \in Nat
    BY <1>1, <2>1, <2>2, MoveTimeIs
  <2>4. t # 0 => r \div Interval \in Nat
    BY <2>3, Division, TransitionAssumption
  <2>5. st \in Int /\ (t # 0 => \/ Rising(trans.present, to, 0, st, r \div Interval)
                               \/ Falling(trans.present, to, 0, st, r \div Interval))
    <3>1. CASE t = 0
      BY <3>1
    <3>2. CASE t # 0
      <4>1. m \in Level \ {0} /\ t \in Nat \ {0} /\ r \div Interval \in Nat
        BY <1>1, <1>2, <2>1, <2>4, <3>2
      <4> HIDE DEF r, m
      <4>2. QED
        BY <1>1, <3>2, <4>1, MoveStarted
    <3>3. QED
      BY <3>1, <3>2
  <2>6. t = 0 => r = 0
    OBVIOUS
  <2> HIDE DEF to, st, r, m
  <2>7. /\ trans' \in Transitions /\ trans'.present = trans.present /\ trans'.target = to
        /\ trans'.remain = r /\ trans'.delay = d /\ trans'.frac = 0 /\ trans'.step = st
    BY <1>1, <2>1, <2>2, <2>3, <2>5, CommandedIs
  <2>8. Course(trans')
    BY <2>3, <2>5, <2>6, <2>7 DEF Course
  <2>9. /\ lost' \in BOOLEAN
        /\ trans'.remain = 0 /\ trans'.delay = 0 => lost'
    BY <2>1, <2>7
  <2>10. QED
    BY <2>1, <2>7, <2>8, <2>9, Kept
<1>4. CASE ~(is_transition_need(t, d) /\ trans.present # to)
  <2>1. /\ scene_target_complete_check /\ goal' = None /\ refused' = FALSE
        /\ UNCHANGED <<trans, range, scene, pc, clamped, lost>>
    BY <1>4 DEF MoveSet
  <2>2. TypeOK' /\ CurrentStored'
    BY <2>1 DEF IInv, TypeOK, CurrentStored, scene_target_complete_check
  <2>3. QED
    BY <2>1, <2>2 DEF IInv, SettledAtTarget, Settled, Recalling, TargetEnds, Course,
       scene_target_complete_check
<1>5. QED
  BY <1>3, <1>4

LEMMA RangeSetInv ==
  ASSUME IInv, NEW r \in Ranges, RangeSet(r)
  PROVE  IInv'
<1>1. range' \in Range /\ UNCHANGED <<trans, scene, current, targetScene, pc, goal, clamped, lost, refused>>
  BY TransitionAssumption DEF RangeSet, scenes, history
<1>2. QED
  BY <1>1 DEF IInv, TypeOK, SettledAtTarget, Settled, Recalling, TargetEnds, CurrentStored,
     Course

-------------------------------------------------------------------------------
(* The scenes.                                                             *)

LEMMA SceneStoreInv ==
  ASSUME IInv, NEW s \in Scenes, SceneStore(s)
  PROVE  IInv'
<1>1. /\ scene' = [scene EXCEPT ![s] = trans.present] /\ current' = s /\ targetScene' = None
      /\ goal' = None /\ UNCHANGED <<trans, range, pc, clamped, lost, refused>>
  BY DEF SceneStore
<1>2. trans.present \in Level /\ trans.present # None
  BY TransitionAssumption DEF IInv, TypeOK, Transitions
<1>3. scene' \in [Scenes -> Level \cup {None}] /\ scene'[s] = trans.present
  BY <1>1, <1>2 DEF IInv, TypeOK
<1>4. TypeOK' /\ CurrentStored'
  BY <1>1, <1>2, <1>3 DEF IInv, TypeOK, CurrentStored
<1>5. QED
  BY <1>1, <1>4 DEF IInv, SettledAtTarget, Settled, Recalling, TargetEnds, Course

LEMMA SceneDeleteInv ==
  ASSUME IInv, NEW s \in Scenes, SceneDelete(s)
  PROVE  IInv'
<1>1. /\ scene' = [scene EXCEPT ![s] = None] /\ goal' = None
      /\ current' = IF current = s THEN None ELSE current
      /\ targetScene' = IF targetScene = s THEN None ELSE targetScene
      /\ UNCHANGED <<trans, range, pc, clamped, lost, refused>>
  BY DEF SceneDelete
<1>2. scene' \in [Scenes -> Level \cup {None}] /\ \A x \in Scenes : x # s => scene'[x] = scene[x]
  BY <1>1 DEF IInv, TypeOK
<1>3. TypeOK' /\ CurrentStored'
  BY <1>1, <1>2 DEF IInv, TypeOK, CurrentStored
<1>4. QED
  BY <1>1, <1>3 DEF IInv, SettledAtTarget, Settled, Recalling, TargetEnds, Course

\* A scene in the range is where the light is told to go.
LEMMA SceneRecallInv ==
  ASSUME IInv, NEW s \in Scenes, NEW t \in Times, NEW d \in Delays, SceneRecall(s, t, d)
  PROVE  IInv'
<1> DEFINE l == get_val_with_check_range(scene[s], range)
<1>1. /\ scene[s] # None /\ trans' = Recalled(l, t, d)
      /\ IF is_transition_need(t, d)
         THEN current' = None /\ targetScene' = s
         ELSE current' = s /\ targetScene' = None
      /\ goal' = IF l = scene[s] THEN s ELSE None
      /\ clamped' = FALSE /\ lost' = FALSE /\ refused' = FALSE /\ UNCHANGED <<range, scene, pc>>
  BY DEF SceneRecall
<1>2. t \in Nat /\ d \in Nat /\ TypeOK /\ scene[s] \in Level /\ range \in Range
  BY <1>1, TransitionAssumption DEF IInv, TypeOK
<1>3. l \in Level
  BY <1>2, LevelIsInt, Checked
<1> HIDE DEF l
<1>4. /\ trans' \in Transitions /\ Course(trans') /\ trans'.target = l
      /\ is_transition_need(t, d) => ~(trans'.remain = 0 /\ trans'.delay = 0)
      /\ ~is_transition_need(t, d) => /\ trans'.remain = 0 /\ trans'.delay = 0
                                      /\ trans'.present = trans'.target
  <2>1. CASE is_transition_need(t, d)
    BY <1>1, <1>2, <1>3, <2>1, WithTransIs DEF Recalled, is_transition_need
  <2>2. CASE ~is_transition_need(t, d)
    BY <1>1, <1>2, <1>3, <2>2, AtOnceIs DEF Recalled
  <2>3. QED
    BY <2>1, <2>2
<1>5. current' \in Scenes \cup {None} /\ targetScene' \in Scenes \cup {None} /\ goal' \in Scenes \cup {None}
  BY <1>1
<1>6. TypeOK'
  BY <1>1, <1>2, <1>4, <1>5 DEF TypeOK
<1>7. SettledAtTarget' /\ (~clamped' => Course(trans)')
  BY <1>4 DEF SettledAtTarget, Settled, Course
<1>8. CurrentStored' /\ Recalling' /\ TargetEnds'
  BY <1>1, <1>4, TransitionAssumption DEF CurrentStored, Recalling, TargetEnds, Settled
<1>9. QED
  BY <1>6, <1>7, <1>8 DEF IInv

\* A recall without effect on the light is what refused notes.
LEMMA SceneRecallRefusedInv ==
  ASSUME IInv, NEW s \in Scenes, SceneRecallRefused(s)
  PROVE  IInv'
<1>1. /\ scene[s] # None /\ current' = None /\ targetScene' = s /\ goal' = None /\ refused' = TRUE
      /\ UNCHANGED <<trans, range, scene, pc, clamped, lost>>
  BY DEF SceneRecallRefused
<1>2. TypeOK' /\ CurrentStored'
  BY <1>1, TransitionAssumption DEF IInv, TypeOK, CurrentStored
<1>3. QED
  BY <1>1, <1>2 DEF IInv, SettledAtTarget, Settled, Recalling, TargetEnds, Course

LEMMA OtherChannelInv ==
  ASSUME IInv, OtherChannel
  PROVE  IInv'
<1>1. /\ current' = targetScene /\ targetScene # None /\ targetScene' = None /\ goal' = None
      /\ UNCHANGED <<trans, range, scene, pc, clamped, lost, refused>>
  BY DEF OtherChannel, scene_target_complete_check
<1>2. TypeOK' /\ CurrentStored'
  BY <1>1 DEF IInv, TypeOK, CurrentStored
<1>3. QED
  BY <1>1, <1>2 DEF IInv, SettledAtTarget, Settled, Recalling, TargetEnds, Course
-------------------------------------------------------------------------------
(* A millisecond.                                                          *)

NotPast == ~clamped' => Between(trans.present, trans'.present, trans.target)

LEMMA TransFields ==
  ASSUME TypeOK
  PROVE  /\ trans \in Transitions /\ trans.present \in Level /\ trans.target \in Level
         /\ trans.delay \in Nat /\ trans.remain \in Nat /\ trans.step \in Int /\ trans.frac \in Int
         /\ trans.present \in Int /\ trans.target \in Int
  BY LevelIsInt DEF TypeOK, Transitions

LEMMA StayHere ==
  ASSUME TypeOK, trans'.present = trans.present
  PROVE  NotPast
  BY TransFields DEF NotPast, Between

\* While a transition goes on, the scenes stay as they are.
LEMMA GoesOn ==
  ASSUME IInv, trans' \in Transitions, trans'.target = trans.target, ~Settled, ~Settled',
         UNCHANGED <<range, scene, current, targetScene, goal, lost, refused>>, pc' = "run",
         clamped' \in BOOLEAN, ~clamped' => Course(trans')
  PROVE  IInv'
<1>1. TypeOK'
  BY DEF IInv, TypeOK
<1>2. SettledAtTarget' /\ Recalling' /\ TargetEnds' /\ CurrentStored' /\ (~clamped' => Course(trans)')
  BY DEF IInv, SettledAtTarget, Recalling, TargetEnds, CurrentStored, Course
<1>3. QED
  BY <1>1, <1>2 DEF IInv

LEMMA WaitInv ==
  ASSUME IInv, Wait, pc' = "run", UNCHANGED <<range, goal, lost, refused>>
  PROVE  IInv' /\ NotPast
<1>1. TypeOK
  BY DEF IInv
<1>2. /\ trans.delay > 0 /\ (trans.delay > 1 \/ trans.remain > 0)
      /\ trans' = [trans EXCEPT !.delay = trans.delay - 1]
      /\ UNCHANGED <<scene, current, targetScene, clamped>>
  BY DEF Wait, scenes
<1>3. trans.delay - 1 \in Nat
  BY <1>1, <1>2, TransFields
<1>4. trans' \in Transitions
  BY <1>1, <1>2, <1>3, TransFields DEF Transitions
<1>5. /\ trans'.present = trans.present /\ trans'.target = trans.target
      /\ trans'.delay = trans.delay - 1 /\ trans'.remain = trans.remain
      /\ trans'.step = trans.step /\ trans'.frac = trans.frac
  BY <1>1, <1>2, TransFields DEF Transitions
<1>6. ~Settled /\ ~Settled'
  BY <1>1, <1>2, <1>5, TransFields DEF Settled
<1>7. clamped' \in BOOLEAN /\ (~clamped' => Course(trans'))
  BY <1>2, <1>5 DEF IInv, TypeOK, Course
<1>8. IInv'
  BY <1>2, <1>4, <1>5, <1>6, <1>7, GoesOn
<1>9. QED
  BY <1>1, <1>5, <1>8, StayHere

\* A step that the range did not change leaves the light between where it was
\* and its target, with one step less to go.
LEMMA MoveInv ==
  ASSUME IInv, Move, pc' = "run", UNCHANGED <<range, goal, lost, refused>>
  PROVE  IInv' /\ NotPast
<1>1. /\ TypeOK /\ range \in Range
      /\ trans \in Transitions /\ trans.present \in Level /\ trans.target \in Level
      /\ trans.delay \in Nat /\ trans.remain \in Nat /\ trans.step \in Int /\ trans.frac \in Int
      /\ trans.present \in Int /\ trans.target \in Int
  BY TransFields DEF IInv, TypeOK
<1>2. /\ trans.delay = 0 /\ trans.remain > 1
      /\ UNCHANGED <<scene, current, targetScene>>
      /\ clamped' = (clamped \/ (StepDue /\ NextLevel # Unchecked))
  BY DEF Move, scenes
<1>3. trans.remain - 1 \in Nat /\ trans.remain - 1 > 0 /\ trans.remain \in Nat \ {0}
  BY <1>1, <1>2
<1>4. clamped' \in BOOLEAN
  BY <1>2, <1>1 DEF TypeOK
<1> DEFINE n == trans.remain \div Interval
           n1 == (trans.remain - 1) \div Interval
<1>5. /\ n \in Nat /\ n1 \in Nat /\ n1 <= n
      /\ trans.remain % Interval = 0 => n1 <= n - 1
  BY <1>3, StepsLeft
<1>6. CASE StepDue
  <2> DEFINE q == Quot(trans.step + trans.frac, One)
             f == Rem(trans.step + trans.frac, One)
  <2>1. q \in Int /\ f \in Int
    <3>1. trans.step + trans.frac \in Int /\ One \in Nat \ {0}
      BY <1>1, LevelIsInt
    <3>2. QED
      BY <3>1, QuotRem
  <2>2. Unchecked = trans.present + q
    BY DEF Unchecked
  <2>3. NextLevel \in Level
    <3>1. Unchecked \in Int
      BY <1>1, <2>1, <2>2
    <3>2. QED
      BY <1>1, <3>1, Checked DEF NextLevel
  <2>4. trans' = [Stepped EXCEPT !.remain = @ - 1]
    BY <1>6 DEF Move
  <2>5. Stepped = [trans EXCEPT !.present = NextLevel, !.frac = f]
    BY DEF Stepped
  <2> HIDE DEF q, f
  <2>6. /\ Stepped \in Transitions /\ Stepped.present = NextLevel /\ Stepped.target = trans.target
        /\ Stepped.delay = trans.delay /\ Stepped.remain = trans.remain
        /\ Stepped.step = trans.step /\ Stepped.frac = f
    BY <1>1, <2>1, <2>3, <2>5 DEF Transitions
  <2>7. trans' = [Stepped EXCEPT !.remain = trans.remain - 1]
    BY <2>4, <2>6
  <2>8. /\ trans' \in Transitions /\ trans'.present = NextLevel /\ trans'.target = trans.target
        /\ trans'.delay = trans.delay /\ trans'.remain = trans.remain - 1
        /\ trans'.step = trans.step /\ trans'.frac = f
    BY <1>3, <2>6, <2>7 DEF Transitions
  <2>9. ASSUME ~clamped' PROVE Course(trans') /\ Between(trans.present, trans'.present, trans.target)
    <3>1. ~clamped /\ NextLevel = trans.present + q
      BY <1>2, <1>6, <2>2, <2>9
    <3>2. \/ Rising(trans.present, trans.target, trans.frac, trans.step, n)
          \/ Falling(trans.present, trans.target, trans.frac, trans.step, n)
      BY <1>3, <3>1 DEF IInv, Course
    <3> HIDE DEF n, n1
    <3>3. n \in Nat \ {0} /\ n - 1 \in Nat /\ n1 \in Nat /\ n1 <= n - 1
      BY <1>5, <1>6 DEF StepDue
    <3>4. trans.present + q \in Level /\ trans.present + q \in Int
      BY <2>3, <3>1, LevelIsInt
    <3>5. ASSUME Rising(trans.present, trans.target, trans.frac, trans.step, n)
          PROVE  /\ Rising(trans.present + q, trans.target, f, trans.step, n - 1)
                 /\ trans.present <= trans.present + q
      BY <1>1, <3>3, <3>4, <3>5, OneStep DEF q, f
    <3>6. ASSUME Falling(trans.present, trans.target, trans.frac, trans.step, n)
          PROVE  /\ Falling(trans.present + q, trans.target, f, trans.step, n - 1)
                 /\ trans.present + q <= trans.present
      BY <1>1, <3>3, <3>4, <3>6, OneStep DEF q, f
    <3>7. \/ Rising(trans.present + q, trans.target, f, trans.step, n1)
          \/ Falling(trans.present + q, trans.target, f, trans.step, n1)
      BY <1>1, <2>1, <3>2, <3>3, <3>4, <3>5, <3>6, FewerSteps
    <3>8. Course(trans')
      BY <2>8, <3>1, <3>7 DEF Course, n1
    <3>9. Between(trans.present, trans.present + q, trans.target)
      BY <1>1, <2>1, <3>2, <3>5, <3>6 DEF Between, Rising, Falling
    <3>10. QED
      BY <2>8, <3>1, <3>8, <3>9
  <2>10. ~Settled /\ ~Settled'
    BY <1>2, <1>3, <2>8 DEF Settled
  <2>11. IInv'
    BY <1>2, <1>4, <2>8, <2>9, <2>10, GoesOn
  <2>12. QED
    BY <2>9, <2>11 DEF NotPast
<1>7. CASE ~StepDue
  <2>1. trans' = [trans EXCEPT !.remain = trans.remain - 1]
    BY <1>7 DEF Move
  <2>2. /\ trans' \in Transitions /\ trans'.present = trans.present /\ trans'.target = trans.target
        /\ trans'.delay = trans.delay /\ trans'.remain = trans.remain - 1
        /\ trans'.step = trans.step /\ trans'.frac = trans.frac
    BY <1>1, <1>3, <2>1 DEF Transitions
  <2>3. ~Settled /\ ~Settled'
    BY <1>2, <1>3, <2>2 DEF Settled
  <2>4. ASSUME ~clamped' PROVE Course(trans')
    <3> HIDE DEF n, n1
    <3>0. ~clamped
      BY <1>2, <2>4
    <3>1. \/ Rising(trans.present, trans.target, trans.frac, trans.step, n)
          \/ Falling(trans.present, trans.target, trans.frac, trans.step, n)
      BY <1>3, <3>0 DEF IInv, Course, n
    <3>2. \/ Rising(trans.present, trans.target, trans.frac, trans.step, n1)
          \/ Falling(trans.present, trans.target, trans.frac, trans.step, n1)
      BY <1>1, <1>5, <3>1, FewerSteps
    <3>3. QED
      BY <2>2, <3>2 DEF Course, n1
  <2>5. IInv'
    BY <1>2, <1>4, <2>2, <2>3, <2>4, GoesOn
  <2>6. QED
    BY <1>1, <2>2, <2>5, StayHere
<1>8. QED
  BY <1>6, <1>7

\* The end: the light is put at its target, and the target scene is current.
LEMMA CompleteInv ==
  ASSUME IInv, Complete, pc' = "run", UNCHANGED <<range, goal, lost, refused>>
  PROVE  IInv' /\ NotPast
<1>1. /\ TypeOK /\ trans \in Transitions /\ trans.present \in Level /\ trans.target \in Level
      /\ trans.delay \in Nat /\ trans.remain \in Nat
      /\ trans.present \in Int /\ trans.target \in Int
  BY TransFields DEF IInv
<1>2. /\ trans.delay + trans.remain = 1
      /\ trans' = [trans EXCEPT !.present = trans.target, !.delay = 0, !.remain = 0]
      /\ current' = (IF targetScene # None THEN targetScene ELSE current)
      /\ targetScene' = None /\ UNCHANGED <<scene, clamped>>
  BY DEF Complete, scene_target_complete_check
<1>3. \A z \in Nat : [trans EXCEPT !.present = trans.target, !.delay = z, !.remain = z] \in Transitions
  <2>1. [trans EXCEPT !.present = trans.target] \in Transitions
    BY <1>1 DEF Transitions
  <2>2. \A z \in Nat : [trans EXCEPT !.present = trans.target, !.delay = z] \in Transitions
    BY <2>1 DEF Transitions
  <2>3. QED
    BY <2>2 DEF Transitions
<1>4. trans' \in Transitions
  BY <1>2, <1>3
<1>5. /\ trans'.present = trans.target /\ trans'.target = trans.target
      /\ trans'.delay = 0 /\ trans'.remain = 0
  BY <1>1, <1>2 DEF Transitions
<1>6. ~Settled
  BY <1>1, <1>2 DEF Settled
<1>7. TypeOK' /\ CurrentStored'
  BY <1>2, <1>4 DEF IInv, TypeOK, CurrentStored
<1>8. SettledAtTarget' /\ (~clamped' => Course(trans)')
  BY <1>5 DEF SettledAtTarget, Course
<1>9. Recalling' /\ TargetEnds'
  BY <1>2, <1>5, <1>6 DEF IInv, Recalling, TargetEnds, Settled
<1>10. NotPast
  BY <1>1, <1>5 DEF NotPast, Between
<1>11. QED
  BY <1>7, <1>8, <1>9, <1>10 DEF IInv

LEMMA MsInv ==
  ASSUME IInv, Ms
  PROVE  IInv' /\ NotPast
<1>1. pc' = "run" /\ UNCHANGED <<range, goal, lost, refused>>
  BY DEF Ms
<1>2. ASSUME UNCHANGED <<trans, scenes, clamped>> PROVE IInv' /\ NotPast
  <2>1. IInv'
    BY <1>1, <1>2
       DEF scenes, IInv, TypeOK, SettledAtTarget, Settled, Recalling, TargetEnds,
       CurrentStored, Course
  <2>2. QED
    BY <1>2, <2>1, StayHere DEF IInv
<1>3. QED
  BY <1>1, <1>2, WaitInv, MoveInv, CompleteInv DEF Ms

\* A run ends with a look at the current scene: it is dropped unless it shows.
LEMMA EndRunInv ==
  ASSUME IInv, EndRun
  PROVE  /\ IInv'
         /\ current' # None => scene[current'] = trans.present /\ targetScene' = None
<1>1. /\ pc' = "loop" /\ UNCHANGED <<trans, range, scene, goal, clamped, lost, refused, targetScene>>
      /\ current' = (IF /\ current # None /\ targetScene = None
                        /\ scene[current] \notin {None, trans.present}
                     THEN None ELSE current)
  BY DEF EndRun, scene_status_change_check, history
<1>2. current' # None => current' = current /\ scene[current] = trans.present /\ targetScene' = None
  BY <1>1 DEF IInv, CurrentStored
<1>3. TypeOK' /\ CurrentStored'
  BY <1>1 DEF IInv, TypeOK, CurrentStored
<1>4. SettledAtTarget' /\ (~clamped' => Course(trans)')
  BY <1>1 DEF IInv, SettledAtTarget, Settled, Course
<1>5. Recalling' /\ TargetEnds'
  <2>1. ASSUME goal # None, Settled
        PROVE  current' = current
    BY <1>1, <2>1 DEF IInv, Recalling, SettledAtTarget
  <2>2. QED
    BY <1>1, <2>1 DEF IInv, Recalling, TargetEnds, Settled
<1>6. QED
  BY <1>2, <1>3, <1>4, <1>5 DEF IInv

-------------------------------------------------------------------------------

LEMMA InitInv ==
  ASSUME Init
  PROVE  IInv
<1>1. PICK l \in Asked : trans = [present |-> l, target |-> l, delay |-> 0, remain |-> 0,
                                step |-> 0, frac |-> 0]
  BY DEF Init
<1>2. l \in Level
  BY TransitionAssumption
<1>3. trans \in Transitions /\ trans.remain = 0 /\ trans.present = l /\ trans.target = l
  BY <1>1, <1>2 DEF Transitions
<1>4. FullRange \in Range
  BY LevelAssumption DEF FullRange, Range, Level, LEVEL_OFF, Bottom, Top
<1>5. TypeOK
  BY <1>3, <1>4 DEF Init, TypeOK
<1>6. QED
  BY <1>3, <1>5 DEF Init, IInv, SettledAtTarget, Course, Recalling, TargetEnds, CurrentStored

LEMMA CommandInv ==
  ASSUME IInv, Command
  PROVE  IInv'
  BY LevelSetInv, MoveSetInv, RangeSetInv, SceneStoreInv, SceneDeleteInv, SceneRecallInv,
     SceneRecallRefusedInv, OtherChannelInv DEF Command

LEMMA Inductive == Spec => []IInv
<1>1. Init => IInv
  BY InitInv
<1>2. IInv /\ [Next]_vars => IInv'
  <2>1. ASSUME IInv, UNCHANGED vars PROVE IInv'
    BY <2>1
       DEF vars, scenes, history, IInv, TypeOK, SettledAtTarget, Settled, Recalling,
       TargetEnds, CurrentStored, Course
  <2>2. QED
    BY <2>1, MsInv, EndRunInv, CommandInv DEF Next
<1>3. QED
  BY <1>1, <1>2, PTL DEF Spec

\* TypeOK: the levels of a transition stay levels, s16, whatever its steps, and
\* the times never become negative.
THEOREM TransitionType == Spec => []TypeOK
<1>1. IInv => TypeOK
  BY DEF IInv
<1>2. QED
  BY <1>1, Inductive, PTL

\* SettledAtTarget: whatever commands stopped or replaced its transitions, a
\* light without time left is at its target, but for a move that got no time.
THEOREM EndsAtTarget == Spec => []SettledAtTarget
<1>1. IInv => SettledAtTarget
  BY DEF IInv
<1>2. QED
  BY <1>1, Inductive, PTL

\* RecallEnds: when the transition of a scene recalled within the range is over
\* and no command came in between, it is the current one and shown.  Whatever
\* came in between, the end of a transition leaves no scene being recalled,
\* except after a move without time or a recall that was refused.
THEOREM RecallBecomesCurrent == Spec => []RecallEnds
<1>1. IInv => RecallEnds
  BY DEF IInv, RecallEnds, Recalling, TargetEnds, SettledAtTarget
<1>2. QED
  BY <1>1, Inductive, PTL

\* NeverPast: the steps of light_get_next_level, each rounded and with the
\* fraction carried over, never carry a light past its target or back, for any
\* distance, time and interval, unless the range changed one of them.
THEOREM StepsStayBetween == Spec => NeverPast
<1> DEFINE A == pc' = "run" /\ ~clamped' => Between(trans.present, trans'.present, trans.target)
<1>1. ASSUME IInv, Next PROVE A \/ UNCHANGED vars
  <2>1. CASE Ms
    BY <1>1, <2>1, MsInv DEF NotPast
  <2>2. CASE EndRun
    BY <2>2 DEF EndRun
  <2>3. CASE Command
    <3>1. (pc = "loop" /\ UNCHANGED pc) \/ OtherChannel
      BY <2>3
         DEF Command, LevelSet, MoveSet, RangeSet, SceneStore, SceneDelete, SceneRecall,
             SceneRecallRefused
    <3>2. ASSUME OtherChannel PROVE A
      BY <1>1, <3>2, StayHere DEF OtherChannel, NotPast, IInv
    <3>3. QED
      BY <3>1, <3>2
  <2>4. QED
    BY <1>1, <2>1, <2>2, <2>3 DEF Next
<1>2. IInv /\ [Next]_vars => [A]_vars
  BY <1>1
<1>3. QED
  BY <1>2, Inductive, PTL DEF Spec, NeverPast

\* SceneIsShown: after a run of system_time_run the scene reported as current
\* is the one the light shows, and no other is being recalled.
THEOREM CurrentIsShown == Spec => SceneIsShown
<1> DEFINE A == pc = "run" /\ pc' = "loop" /\ current' # None =>
                  scene[current'] = trans.present /\ targetScene' = None
<1>1. ASSUME IInv, Next PROVE A
  <2>1. CASE EndRun
    BY <1>1, <2>1, EndRunInv
  <2>2. CASE Ms
    BY <2>2 DEF Ms
  <2>3. CASE Command
    BY <2>3
       DEF Command, LevelSet, MoveSet, RangeSet, SceneStore, SceneDelete, SceneRecall,
       SceneRecallRefused, OtherChannel
  <2>4. QED
    BY <1>1, <2>1, <2>2, <2>3 DEF Next
<1>2. IInv /\ [Next]_vars => [A]_vars
  BY <1>1
<1>3. QED
  BY <1>2, Inductive, PTL DEF Spec, SceneIsShown

-------------------------------------------------------------------------------
(* What is saved.                                                          *)

Stored == phase = "stored" => durable = save

Leads == ~blur /\ (phase # "off" \/ durable = save) => target = Saving!get_on_power_up_last(save)

SInv == Saving!TypeOK /\ Stored /\ Saving!SavedWhenIdle /\ Saving!OnLights /\ Leads

-------------------------------------------------------------------------------
(* The settings.                                                           *)

\* Being switched to a level keeps a setting a setting, never saves off as the
\* last level, and leads to that level.
LEMMA SetLast ==
  ASSUME Saving!LightSaveAssumption, NEW s \in Saving!Saves, NEW l \in SaveLevels, s.last # Off
  PROVE  /\ Saving!set_on_power_up_last(s, l) \in Saving!Saves
         /\ Saving!set_on_power_up_last(s, l).last # Off
         /\ Saving!get_on_power_up_last(Saving!set_on_power_up_last(s, l)) = l
<1>1. [s EXCEPT !.onoff = 0] \in Saving!Saves /\ [s EXCEPT !.onoff = 0].last # Off
      /\ [s EXCEPT !.onoff = 0].onoff = 0
  BY DEF Saving!Saves, Saving!OnOff
<1>2. [s EXCEPT !.onoff = 1, !.last = l] \in Saving!Saves /\ [s EXCEPT !.onoff = 1, !.last = l].last = l
      /\ [s EXCEPT !.onoff = 1, !.last = l].onoff = 1
  BY DEF Saving!Saves, Saving!OnOff
<1>3. CASE l = Off
  BY <1>1, <1>3 DEF Saving!set_on_power_up_last, Saving!get_on_power_up_last
<1>4. CASE l # Off
  BY <1>2, <1>4 DEF Saving!set_on_power_up_last, Saving!get_on_power_up_last
<1>5. QED
  BY <1>3, <1>4

\* So does the level of an on command, which is never off.
LEMMA ByOnOff ==
  ASSUME Saving!LightSaveAssumption, NEW s \in Saving!Saves, NEW o \in Saving!OnOff, NEW f \in BOOLEAN,
         s.last # Off
  PROVE  /\ Saving!get_light_g_level_by_onoff(s, o, f) \in SaveLevels
         /\ (Saving!get_light_g_level_by_onoff(s, o, f) = Off) <=> (o = 0)
  BY
     DEF Saving!LightSaveAssumption, Saving!get_light_g_level_by_onoff, Saving!Saves,
     Saving!OnOff

\* What is loaded at power-on is a setting with a last level to go to; a light
\* that restores its state loads what it finds.
LEMMA LoadedIs ==
  ASSUME Saving!LightSaveAssumption, NEW s \in Saving!Saves, s.last # Off
  PROVE  /\ Saving!Loaded(s) \in Saving!Saves /\ Saving!Loaded(s).last # Off
         /\ upMode = Saving!ONPOWER_UP_STORE => Saving!Loaded(s) = s
         /\ Saving!get_on_power_up_last(Saving!Loaded(s)) \in SaveLevels
<1>1. Saving!set_on_power_up_last(s, Off) \in Saving!Saves /\ Saving!set_on_power_up_last(s, Off).last # Off
  BY SetLast DEF Saving!LightSaveAssumption
<1>2. Saving!get_light_g_level_by_onoff(s, 1, FALSE) \in SaveLevels
  BY ByOnOff DEF Saving!OnOff
<1>3. /\ Saving!set_on_power_up_last(s, Saving!get_light_g_level_by_onoff(s, 1, FALSE)) \in Saving!Saves
      /\ Saving!set_on_power_up_last(s, Saving!get_light_g_level_by_onoff(s, 1, FALSE)).last # Off
  BY <1>2, SetLast
<1>4. Saving!Loaded(s) \in Saving!Saves /\ Saving!Loaded(s).last # Off
  <2>1. CASE upMode = Saving!ONPOWER_UP_STORE
    BY <2>1 DEF Saving!Loaded, Saving!ONPOWER_UP_STORE, Saving!ONPOWER_UP_OFF
  <2>2. CASE upMode = Saving!ONPOWER_UP_OFF
    BY <1>1, <2>2 DEF Saving!Loaded, Saving!ONPOWER_UP_OFF, Saving!ONPOWER_UP_STORE
  <2>3. CASE upMode # Saving!ONPOWER_UP_STORE /\ upMode # Saving!ONPOWER_UP_OFF
    BY <1>3, <2>3 DEF Saving!Loaded
  <2>4. QED
    BY <2>1, <2>2, <2>3
<1>5. \A r \in Saving!Saves : Saving!get_on_power_up_last(r) \in SaveLevels
  BY DEF Saving!get_on_power_up_last, Saving!Saves, Saving!LightSaveAssumption
<1>6. upMode = Saving!ONPOWER_UP_STORE => Saving!Loaded(s) = s
  BY DEF Saving!Loaded, Saving!ONPOWER_UP_STORE, Saving!ONPOWER_UP_OFF
<1>7. QED
  BY <1>4, <1>5, <1>6

-------------------------------------------------------------------------------
(* The invariant.                                                          *)

LEMMA InitialIs ==
  ASSUME Saving!LightSaveAssumption
  PROVE  Saving!Initial \in Saving!Saves /\ Saving!Initial.last # Off
  BY DEF Saving!LightSaveAssumption, Saving!Initial, Saving!Saves, Saving!OnOff

LEMMA SaveInitInv ==
  ASSUME Saving!LightSaveAssumption, Saving!Init
  PROVE  SInv
<1>1. Saving!TypeOK
  <2>1. save \in Saving!Saves
    BY InitialIs DEF Saving!Init
  <2>2. phase = "off" /\ upMode \in 0 .. 2 /\ target \in SaveLevels /\ heard = {} /\ blur = FALSE
    BY DEF Saving!Init, Saving!LightSaveAssumption, Saving!ONPOWER_UP_DEFAULT
  <2>3. durable = None /\ ghost = None /\ timer = None
    BY DEF Saving!Init
  <2>4. QED
    BY <2>1, <2>2, <2>3 DEF Saving!TypeOK
<1>2. save # durable
  BY InitialIs DEF Saving!Init, Saving!LightSaveAssumption
<1>3. QED
  BY <1>1, <1>2, InitialIs
     DEF Saving!Init, SInv, Stored, Saving!SavedWhenIdle, Saving!OnLights, Leads

\* A power-on starts the time to the next store, so nothing needs to be in
\* flash yet, and sets the light to what it loaded.
LEMMA PowerOnInv ==
  ASSUME Saving!LightSaveAssumption, SInv, Saving!PowerOn
  PROVE  SInv'
<1> DEFINE found == IF durable = None THEN Saving!Initial ELSE durable
<1>1. found \in Saving!Saves /\ found.last # Off
  BY InitialIs DEF SInv, Saving!TypeOK, Saving!OnLights
<1>2. /\ phase' = "ready" /\ timer' = 0 /\ heard' = {} /\ blur' = FALSE
      /\ save' = Saving!Loaded(found) /\ target' = Saving!get_on_power_up_last(save')
      /\ UNCHANGED <<durable, ghost, upMode>>
  BY DEF Saving!PowerOn, Saving!light_par_save
<1> HIDE DEF found
<1>3. save' \in Saving!Saves /\ save'.last # Off /\ target' \in SaveLevels
  BY <1>1, <1>2, LoadedIs
<1>4. Saving!TypeOK'
  <2>1. timer' \in 0 .. Saving!Never
    BY <1>2 DEF Saving!LightSaveAssumption, Saving!Never
  <2>2. phase' \in {"off", "ready", "storing", "stored"} /\ heard' \subseteq Saving!OnOff /\ blur' \in BOOLEAN
    BY <1>2
  <2>3. QED
    BY <1>2, <1>3, <2>1, <2>2 DEF SInv, Saving!TypeOK, Saving!Never
<1>5. timer' # None
  BY <1>2 DEF Saving!LightSaveAssumption
<1>6. Stored' /\ Saving!SavedWhenIdle' /\ Saving!OnLights' /\ Leads'
  BY <1>2, <1>3, <1>5
     DEF SInv, Stored, Saving!SavedWhenIdle, Saving!OnLights, Leads,
     Saving!get_on_power_up_last
<1>7. QED
  BY <1>4, <1>6 DEF SInv

\* A power loss: what the running light goes to is where its setting leads.
LEMMA PowerLossInv ==
  ASSUME Saving!LightSaveAssumption, SInv, Saving!PowerLoss
  PROVE  SInv'
<1>1. /\ phase # "off" /\ phase' = "off" /\ UNCHANGED <<durable, save, timer, target, upMode, heard, blur>>
      /\ ghost' \in {None, save, ghost}
  BY DEF Saving!PowerLoss, Saving!Area!PowerLoss
<1>2. Saving!TypeOK'
  BY <1>1 DEF SInv, Saving!TypeOK, Saving!Never
<1>3. QED
  BY <1>1, <1>2
     DEF SInv, Stored, Saving!SavedWhenIdle, Saving!OnLights, Leads,
     Saving!get_on_power_up_last

LEMMA SaveTickInv ==
  ASSUME Saving!LightSaveAssumption, SInv, Saving!Tick
  PROVE  SInv'
<1>1. /\ phase = "ready" /\ timer \in 0 .. SaveTime /\ timer' = timer + 1
      /\ UNCHANGED <<durable, phase, ghost, save, target, upMode, heard, blur>>
  BY
     DEF Saving!Tick, Saving!area, SInv, Saving!TypeOK, Saving!Never,
     Saving!LightSaveAssumption
<1>2. timer' \in 0 .. Saving!Never /\ timer' \in Nat
  BY <1>1 DEF Saving!Never, Saving!LightSaveAssumption
<1>3. Saving!TypeOK' /\ timer' # None
  BY <1>1, <1>2 DEF SInv, Saving!TypeOK, Saving!Never, Saving!LightSaveAssumption
<1>4. QED
  BY <1>1, <1>3
     DEF SInv, Stored, Saving!SavedWhenIdle, Saving!OnLights, Leads,
     Saving!get_on_power_up_last

\* A store is skipped only for a setting that the flash, or the record that the
\* store would compare with, has.
LEMMA SaveProcInv ==
  ASSUME Saving!LightSaveAssumption, SInv, Saving!SaveProc
  PROVE  SInv'
<1>1. /\ timer' = None /\ UNCHANGED <<save, target, upMode, heard, blur>>
      /\ phase = "ready"
      /\ \/ save \in {durable, ghost} /\ UNCHANGED <<durable, phase, ghost>>
         \/ phase' = "storing" /\ ghost' = None /\ durable' \in {durable, None}
  BY DEF Saving!SaveProc, Saving!area
<1>2. Saving!TypeOK'
  BY <1>1 DEF SInv, Saving!TypeOK, Saving!Never
<1>3. QED
  BY <1>1, <1>2
     DEF SInv, Stored, Saving!SavedWhenIdle, Saving!OnLights, Leads,
     Saving!get_on_power_up_last

LEMMA StoreInv ==
  ASSUME Saving!LightSaveAssumption, SInv, Saving!StoreCommit \/ Saving!StoreReturn
  PROVE  SInv'
<1>1. /\ UNCHANGED <<save, ghost, timer, target, upMode, heard, blur>>
      /\ \/ phase = "storing" /\ phase' = "stored" /\ durable' = save
         \/ phase = "stored" /\ phase' = "ready" /\ durable' = durable
  BY DEF Saving!StoreCommit, Saving!StoreReturn, Saving!Area!Commit, Saving!Area!Return
<1>2. Saving!TypeOK'
  BY <1>1 DEF SInv, Saving!TypeOK, Saving!Never
<1>3. QED
  BY <1>1, <1>2
     DEF SInv, Stored, Saving!SavedWhenIdle, Saving!OnLights, Leads,
     Saving!get_on_power_up_last

\* Every command that changes the setting starts the time to the next store.
LEMMA Due ==
  ASSUME Saving!LightSaveAssumption, NEW q \in BOOLEAN, Saving!light_par_save(q)
  PROVE  timer' \in 0 .. Saving!Never /\ timer' # None
  BY DEF Saving!LightSaveAssumption, Saving!light_par_save, Saving!Never

LEMMA SaveLevelSetInv ==
  ASSUME Saving!LightSaveAssumption, SInv, NEW l \in SaveLevels, Saving!LevelSet(l)
  PROVE  SInv'
<1>1. /\ phase = "ready" /\ target' = l /\ save' = Saving!set_on_power_up_last(save, l) /\ blur' = FALSE
      /\ UNCHANGED <<durable, phase, ghost, upMode, heard>>
  BY DEF Saving!LevelSet, Saving!area
<1>2. timer' \in 0 .. Saving!Never /\ timer' # None
  BY Due DEF Saving!LevelSet
<1>3. save' \in Saving!Saves /\ save'.last # Off /\ Saving!get_on_power_up_last(save') = l
  BY <1>1, SetLast DEF SInv, Saving!TypeOK, Saving!OnLights
<1>4. Saving!TypeOK'
  BY <1>1, <1>2, <1>3 DEF SInv, Saving!TypeOK, Saving!Never
<1>5. QED
  BY <1>1, <1>2, <1>3, <1>4
     DEF SInv, Stored, Saving!SavedWhenIdle, Saving!OnLights, Leads,
     Saving!get_on_power_up_last

\* An on command to the default level, which is not saved as the last one, is
\* what blur notes.
LEMMA OnOffSetInv ==
  ASSUME Saving!LightSaveAssumption, SInv, NEW o \in Saving!OnOff, Saving!OnOffSet(o)
  PROVE  SInv'
<1>1. /\ phase = "ready" /\ target' = Saving!get_light_g_level_by_onoff(save, o, FALSE)
      /\ save' = [save EXCEPT !.onoff = o] /\ heard' = heard \cup {o}
      /\ blur' = (o = 1 /\ target' # save.last)
      /\ UNCHANGED <<durable, phase, ghost, upMode>>
  BY DEF Saving!OnOffSet, Saving!area
<1>2. timer' \in 0 .. Saving!Never /\ timer' # None
  BY Due DEF Saving!OnOffSet
<1>3. target' \in SaveLevels /\ (o = 0 => target' = Off)
  BY <1>1, ByOnOff DEF SInv, Saving!TypeOK, Saving!OnLights
<1>4. save' \in Saving!Saves /\ save'.last = save.last /\ save'.onoff = o
  BY <1>1 DEF SInv, Saving!TypeOK, Saving!Saves
<1>5. blur' \in BOOLEAN /\ heard' \subseteq Saving!OnOff
  BY <1>1 DEF SInv, Saving!TypeOK
<1>6. Saving!TypeOK'
  BY <1>1, <1>2, <1>3, <1>4, <1>5 DEF SInv, Saving!TypeOK, Saving!Never
<1>7. ~blur' => target' = Saving!get_on_power_up_last(save')
  BY <1>1, <1>3, <1>4 DEF Saving!get_on_power_up_last, Saving!OnOff
<1>8. QED
  BY <1>1, <1>2, <1>4, <1>6, <1>7
     DEF SInv, Stored, Saving!SavedWhenIdle, Saving!OnLights, Leads,
     Saving!get_on_power_up_last

\* A retransmission changes the setting and not the target.
LEMMA OnOffRepeatInv ==
  ASSUME Saving!LightSaveAssumption, SInv, NEW o \in Saving!OnOff, Saving!OnOffRepeat(o)
  PROVE  SInv'
<1>1. /\ phase = "ready" /\ save' = [save EXCEPT !.onoff = o]
      /\ blur' = (blur \/ (o = 1) # (target # Off))
      /\ UNCHANGED <<durable, phase, ghost, target, upMode, heard>>
  BY DEF Saving!OnOffRepeat, Saving!area
<1>2. timer' \in 0 .. Saving!Never /\ timer' # None
  BY Due DEF Saving!OnOffRepeat
<1>3. save' \in Saving!Saves /\ save'.last = save.last /\ save'.onoff = o
  BY <1>1 DEF SInv, Saving!TypeOK, Saving!Saves
<1>4. blur' \in BOOLEAN
  BY <1>1 DEF SInv, Saving!TypeOK
<1>5. Saving!TypeOK'
  BY <1>1, <1>2, <1>3, <1>4 DEF SInv, Saving!TypeOK, Saving!Never
<1>6. ASSUME ~blur' PROVE target' = Saving!get_on_power_up_last(save')
  <2>1. ~blur /\ ((o = 1) <=> (target # Off))
    BY <1>1, <1>6, Zenon DEF SInv, Saving!TypeOK
  <2>2. target = (IF save.onoff = 1 THEN save.last ELSE Off)
    BY <1>1, <2>1 DEF SInv, Leads, Saving!get_on_power_up_last
  <2>3. QED
    BY <1>1, <1>3, <2>1, <2>2 DEF Saving!get_on_power_up_last
<1>7. QED
  BY <1>1, <1>2, <1>3, <1>5, <1>6
     DEF SInv, Stored, Saving!SavedWhenIdle, Saving!OnLights, Leads,
     Saving!get_on_power_up_last

LEMMA DefaultSetInv ==
  ASSUME Saving!LightSaveAssumption, SInv, NEW v \in (SaveLevels \ {Full}), Saving!DefaultSet(v)
  PROVE  SInv'
<1>1. /\ phase = "ready" /\ save' = [save EXCEPT !.def = v]
      /\ UNCHANGED <<durable, phase, ghost, target, upMode, heard, blur>>
  BY DEF Saving!DefaultSet, Saving!area
<1>2. timer' \in 0 .. Saving!Never /\ timer' # None
  BY Due DEF Saving!DefaultSet
<1>3. save' \in Saving!Saves /\ save'.last = save.last /\ save'.onoff = save.onoff
  BY <1>1 DEF SInv, Saving!TypeOK, Saving!Saves, Saving!LightSaveAssumption
<1>4. Saving!TypeOK'
  BY <1>1, <1>2, <1>3 DEF SInv, Saving!TypeOK, Saving!Never
<1>5. QED
  BY <1>1, <1>2, <1>3, <1>4
     DEF SInv, Stored, Saving!SavedWhenIdle, Saving!OnLights, Leads,
     Saving!get_on_power_up_last

LEMMA SaveOtherInv ==
  ASSUME SInv, UNCHANGED Saving!vars \/ \E m \in 0 .. 2 : Saving!PowerUpSet(m)
  PROVE  SInv'
<1>1. UNCHANGED <<durable, phase, ghost, save, timer, target, heard, blur>> /\ upMode' \in 0 .. 2
  BY DEF Saving!vars, Saving!area, Saving!PowerUpSet, SInv, Saving!TypeOK
<1>2. QED
  BY <1>1
     DEF SInv, Saving!TypeOK, Saving!Never, Stored, Saving!SavedWhenIdle,
     Saving!OnLights, Leads, Saving!get_on_power_up_last

\* A step of MCLight's run is one of this side, or leaves it alone.
LEMMA SaveInductive == MCSpec => []SInv
<1>1. MCInit => SInv
  BY SavingAssumption, SaveInitInv DEF MCInit
<1>2. SInv /\ [MCNext]_all => SInv'
  <2>1. ASSUME SInv, Saving!Next PROVE SInv'
    BY <2>1, SavingAssumption, PowerOnInv, PowerLossInv, SaveTickInv, SaveProcInv, StoreInv,
       SaveLevelSetInv, OnOffSetInv, OnOffRepeatInv, DefaultSetInv, SaveOtherInv
       DEF Saving!Next, Saving!MainLoop, Saving!Disturbed
  <2>2. UNCHANGED setting => UNCHANGED Saving!vars
    BY DEF setting, Saving!vars
  <2>3. QED
    BY <2>1, <2>2, SaveOtherInv DEF MCNext, all
<1>3. QED
  BY <1>1, <1>2, PTL DEF MCSpec

-------------------------------------------------------------------------------
(* The properties of the saved setting.                                    *)

\* TypeOK of LightSave: the setting is one of sw_level_save_t, in RAM and in
\* flash, and the age of the last change never passes the time of the store.
THEOREM SettingType == MCSpec => []Saving!TypeOK
<1>1. SInv => Saving!TypeOK
  BY DEF SInv
<1>2. QED
  BY <1>1, SaveInductive, PTL

\* SavedWhenIdle: however commands, stores and power losses interleave, a change
\* of the setting that no store is due for is in flash, or in the unfinished
\* record that made mesh_par_store skip it.
THEOREM NoChangeForgotten == MCSpec => []SavedWhenIdle
<1>1. SInv => SavedWhenIdle
  BY DEF SInv, SavedWhenIdle
<1>2. QED
  BY <1>1, SaveInductive, PTL

\* OnLights of LightSave: set_on_power_up_last never saves off as the level to
\* come back to, whatever the levels, defaults and power-up states that were set.
THEOREM OnHasLevel == MCSpec => []Saving!OnLights
<1>1. SInv => Saving!OnLights
  BY DEF SInv
<1>2. QED
  BY <1>1, SaveInductive, PTL

\* RestoresTarget: a light that restores its state starts, after a power loss,
\* to the target it had, when its setting had been saved and no on command to
\* the default level and no retransmission had come in between.
THEOREM ComesBack == MCSpec => RestoresTarget
<1> DEFINE A == phase = "off" /\ phase' = "ready" /\ upMode = Saving!ONPOWER_UP_STORE
                  /\ durable = save /\ ~blur => target' = target
<1>1. ASSUME SInv, Saving!Next PROVE A
  <2>1. ASSUME phase = "off", phase' = "ready", upMode = Saving!ONPOWER_UP_STORE,
               durable = save, ~blur
        PROVE  target' = target
    <3>1. Saving!PowerOn
      BY <1>1, <2>1 DEF Saving!Next, Saving!MainLoop, Saving!Disturbed, Saving!Tick,
         Saving!SaveProc, Saving!StoreCommit, Saving!StoreReturn, Saving!Area!Commit,
         Saving!Area!Return, Saving!PowerLoss, Saving!Area!PowerLoss, Saving!LevelSet,
         Saving!OnOffSet, Saving!OnOffRepeat, Saving!DefaultSet, Saving!PowerUpSet
    <3>2. save \in Saving!Saves /\ save.last # Off /\ durable # None
      BY <1>1, <2>1, SavingAssumption
         DEF SInv, Saving!TypeOK, Saving!OnLights, Saving!LightSaveAssumption
    <3>3. save' = Saving!Loaded(save) /\ target' = Saving!get_on_power_up_last(save')
      BY <2>1, <3>1, <3>2 DEF Saving!PowerOn
    <3>4. save' = save
      BY <2>1, <3>2, <3>3, SavingAssumption, LoadedIs
    <3>5. target = Saving!get_on_power_up_last(save)
      BY <1>1, <2>1 DEF SInv, Leads
    <3>6. QED
      BY <3>3, <3>4, <3>5 DEF Saving!get_on_power_up_last
  <2>2. QED
    BY <2>1
<1>2. SInv /\ [MCNext]_all => [A]_(Saving!vars)
  <2>1. UNCHANGED setting => UNCHANGED Saving!vars
    BY DEF setting, Saving!vars
  <2>2. QED
    BY <1>1, <2>1 DEF MCNext, all
<1>3. QED
  BY <1>2, SaveInductive, PTL DEF MCSpec, RestoresTarget, Saving!RestoresTarget
================================================================================
