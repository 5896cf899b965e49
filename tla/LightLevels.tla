------------------------------ MODULE LightLevels ------------------------------
(***************************************************************************)
(* The levels of a light (light.h, lighting_model.c): a lightness is kept  *)
(* as a level, a signed number whose lowest value is off.  A light has a   *)
(* range of levels it may be set to; off is outside of it and allowed.     *)
(***************************************************************************)
EXTENDS Integers

CONSTANT Half    \* 32768: levels are s16

ASSUME LevelAssumption == Half \in Nat \ {0}

Bottom == -Half
Top    == Half - 1

Level     == Bottom .. Top
LEVEL_OFF == Bottom

\* sw_level_save_t.min and max.  LIGHTNESS_RANGE_SET refuses a minimum of off
\* and a minimum above the maximum.
Range == {r \in [min : Level \ {LEVEL_OFF}, max : Level] : r.min <= r.max}
FullRange == [min |-> Bottom + 1, max |-> Top]

get_val_with_check_range(l, r) ==
  IF l < r.min THEN (IF l = LEVEL_OFF THEN l ELSE r.min) ELSE IF l > r.max THEN r.max ELSE l

get_target_level_for_move_set(delta) == IF delta >= 0 THEN Top ELSE Bottom
================================================================================
