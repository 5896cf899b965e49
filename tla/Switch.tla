-------------------------------- MODULE Switch --------------------------------
(***************************************************************************)
(* The switch (project/mesh_node_switch(test)): swt_test scans the buttons *)
(* every few milliseconds and reports a press on the serial line when the  *)
(* button is let go.                                                       *)
(***************************************************************************)
EXTENDS Integers

CONSTANTS
  Pins,   \* 1 .. 3: PC2, PC3 and PC4, in the order they are read
  Normal, \* 200 ms, in scans
  Long,   \* 2 s
  Wrap,   \* 2^32 ticks
  Most    \* reports counted

SwitchAssumption == Pins \subseteq Nat \ {0} /\ Normal < Long /\ Long < Wrap

VARIABLES
  down,                \* the buttons held
  clock,               \* clock_time
  pin_last_pressed,    \* 0: none
  tick_sw_pressed,
  flag_normal_pressed,
  flag_long_pressed,
  reports              \* history: reports since a scan last saw the button

flags == <<flag_normal_pressed, flag_long_pressed>>
vars  == <<down, clock, pin_last_pressed, tick_sw_pressed, flags, reports>>

swt_scan_key == IF down = {} THEN 0 ELSE CHOOSE p \in down : \A q \in down : p <= q

clock_time_exceed(t) == (clock - tick_sw_pressed) % Wrap > t

-------------------------------------------------------------------------------

\* pin_last_pressed is never cleared: the first button pressed since power-on
\* keeps it, and the time of that press.
FirstPress(p) ==
  /\ pin_last_pressed = 0
  /\ pin_last_pressed' = p /\ tick_sw_pressed' = clock
  /\ reports' = 0
  /\ UNCHANGED flags

Held(p) ==
  /\ p = pin_last_pressed
  /\ flag_long_pressed' = (flag_long_pressed \/ clock_time_exceed(Long))
  /\ flag_normal_pressed' = (flag_normal_pressed \/ clock_time_exceed(Normal))
  /\ reports' = 0
  /\ UNCHANGED <<pin_last_pressed, tick_sw_pressed>>

Other(p) ==
  /\ pin_last_pressed \notin {0, p}
  /\ UNCHANGED <<pin_last_pressed, tick_sw_pressed, flags, reports>>

\* Mutant: the flag of a long press stays.
ReportsOn ==
  /\ flag_long_pressed
  /\ reports' = IF reports < Most THEN reports + 1 ELSE reports
  /\ UNCHANGED <<pin_last_pressed, tick_sw_pressed, flags>>

\* Also a normal press: the next scan reports it once more.
ReportLong ==
  /\ flag_long_pressed
  /\ flag_long_pressed' = FALSE
  /\ reports' = IF reports < Most THEN reports + 1 ELSE reports
  /\ UNCHANGED <<pin_last_pressed, tick_sw_pressed, flag_normal_pressed>>

ReportNormal ==
  /\ ~flag_long_pressed /\ flag_normal_pressed
  /\ flag_normal_pressed' = FALSE
  /\ reports' = IF reports < Most THEN reports + 1 ELSE reports
  /\ UNCHANGED <<pin_last_pressed, tick_sw_pressed, flag_long_pressed>>

Idle ==
  /\ ~flag_long_pressed /\ ~flag_normal_pressed
  /\ UNCHANGED <<pin_last_pressed, tick_sw_pressed, flags, reports>>

\* A scan, some time after the one before.
swt_test ==
  /\ clock' = (clock + 1) % Wrap
  /\ UNCHANGED down
  /\ IF swt_scan_key # 0
     THEN LET p == swt_scan_key IN FirstPress(p) \/ Held(p) \/ Other(p)
     ELSE ReportLong \/ ReportNormal \/ Idle

Buttons ==
  /\ down' \in SUBSET Pins /\ down' # down
  /\ UNCHANGED <<clock, pin_last_pressed, tick_sw_pressed, flags, reports>>

Init ==
  /\ down = {} /\ clock = 0
  /\ pin_last_pressed = 0 /\ tick_sw_pressed = 0
  /\ flag_normal_pressed = FALSE /\ flag_long_pressed = FALSE
  /\ reports = 0

Next == swt_test \/ Buttons

Spec == Init /\ [][Next]_vars

-------------------------------------------------------------------------------

\* A press is reported at most twice, and nothing is before a button was pressed:
\* whatever the scans see of the buttons and wherever the clock wraps, no report
\* comes of itself, and one due is not added to two made.
ReportsPress ==
  /\ reports <= 2
  /\ reports + (IF flag_long_pressed THEN 1 ELSE 0) + (IF flag_normal_pressed THEN 1 ELSE 0) <= 2
  /\ pin_last_pressed = 0 => reports = 0
================================================================================
