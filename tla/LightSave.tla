------------------------------- MODULE LightSave -------------------------------
(***************************************************************************)
(* What a light comes back with after a power loss: light_res_sw_save,     *)
(* the commands that change it, the timer that stores it three seconds     *)
(* after the last change (light_par_save, light_par_save_proc) and its use *)
(* at power-on (light_res_sw_load, light_pwm_init).  How the light moves   *)
(* to its target is in LightTransition.                                    *)
(*                                                                         *)
(* The parameter area is listed in mesh_save_map: it is the register of    *)
(* DurablePar, except that a store may find its value in a record that a   *)
(* power loss left unfinished and skip (see FlashStore).  After a power    *)
(* loss the variables of the RAM keep their last values for the            *)
(* properties; no action of a node that is off reads them.                 *)
(***************************************************************************)
EXTENDS Integers

CONSTANTS
  Level,     \* levels, LEVEL_OFF and Full among them
  LEVEL_OFF, \* -32768
  Full,      \* the level of LIGHTNESS_DEFAULT
  SaveTime,  \* the three seconds of light_par_save_proc, in steps of the model
  Defaults,  \* what LIGHTNESS_DEFAULT_SET may set
  None

OnOff == {0, 1}        \* G_OFF, G_ON
Saves == [onoff : OnOff, last : Level, def : Level]    \* sw_level_save_t

LightSaveAssumption ==
  /\ LEVEL_OFF \in Level /\ Full \in Level \ {LEVEL_OFF}
  /\ Defaults \subseteq Level
  /\ SaveTime \in Nat
  /\ None \notin Nat \cup Saves

\* Three values of on_powerup.
ONPOWER_UP_OFF     == 0
ONPOWER_UP_DEFAULT == 1
ONPOWER_UP_STORE   == 2

VARIABLES
  durable, \* what mesh_par_retrieve would find of the area
  save,    \* light_res_sw_save
  phase,   \* progress of mesh_par_store
  ghost,   \* the parameter of an unfinished record before the cursor
  timer,   \* age of tick_light_save, None when it is 0
  target,  \* the level the light goes to
  upMode,  \* on_powerup, stored when it is set
  heard,   \* on and off commands in the TID cache
  blur     \* history: an on or off command left save apart from target

area == <<durable, phase, ghost>>
vars == <<durable, save, phase, ghost, timer, target, upMode, heard, blur>>

Area == INSTANCE DurablePar WITH Values <- Saves, Default <- Saves, par <- save

Never == SaveTime + 1      \* the age from which a store is due

-------------------------------------------------------------------------------
(* What is saved.                                                          *)

\* The last level that is not off is kept while the light is off.
set_on_power_up_last(s, l) ==
  IF l = LEVEL_OFF THEN [s EXCEPT !.onoff = 0] ELSE [s EXCEPT !.onoff = 1, !.last = l]

get_on_power_up_last(s) == IF s.onoff = 1 THEN s.last ELSE LEVEL_OFF

get_light_g_level_by_onoff(s, on, force_last) ==
  IF on = 0 THEN LEVEL_OFF
  ELSE IF force_last \/ s.def = LEVEL_OFF THEN s.last ELSE s.def

light_par_save(quick) == timer' = IF quick THEN Never ELSE 0

-------------------------------------------------------------------------------
(* Power-on and power loss.                                                *)

\* light_res_sw_load.
Loaded(s) ==
  CASE upMode = ONPOWER_UP_STORE -> s
    [] upMode = ONPOWER_UP_OFF   -> set_on_power_up_last(s, LEVEL_OFF)
    [] OTHER -> set_on_power_up_last(s, get_light_g_level_by_onoff(s, 1, FALSE))

\* mesh_global_var_init_light_sw: lit at full, "use last".
Initial == [onoff |-> 1, last |-> Full, def |-> LEVEL_OFF]

\* Mutant: what was loaded is not saved.
PowerOnSilent ==
  /\ phase = "off" /\ phase' = "ready"
  /\ save' = Loaded(IF durable = None THEN Initial ELSE durable)
  /\ target' = get_on_power_up_last(save')
  /\ timer' = None /\ heard' = {} /\ blur' = FALSE
  /\ UNCHANGED <<durable, ghost, upMode>>

\* The parameter is retrieved and loaded; light_pwm_init switches the light off
\* and, if it is to be on, on again.
PowerOn ==
  /\ phase = "off" /\ phase' = "ready"
  /\ save' = Loaded(IF durable = None THEN Initial ELSE durable)
  /\ target' = get_on_power_up_last(save')
  /\ light_par_save(FALSE)
  /\ heard' = {} /\ blur' = FALSE
  /\ UNCHANGED <<durable, ghost, upMode>>

\* What a store was writing may be left in an unfinished record.
PowerLoss ==
  /\ Area!PowerLoss
  /\ ghost' \in IF phase = "storing" THEN {None, save} ELSE {ghost}
  /\ UNCHANGED <<timer, target, upMode, heard, blur>>

-------------------------------------------------------------------------------
(* The main loop: light_par_save_proc.                                     *)

\* Mutant: the last step is never seen to be over.
TickStops ==
  /\ phase = "ready" /\ timer # None /\ timer < Never
  /\ timer' = IF timer = SaveTime THEN timer ELSE timer + 1
  /\ UNCHANGED <<area, save, target, upMode, heard, blur>>

Tick ==
  /\ phase = "ready" /\ timer # None /\ timer < Never
  /\ timer' = timer + 1
  /\ UNCHANGED <<area, save, target, upMode, heard, blur>>

\* mesh_common_store: skipped when the record before the cursor, complete or
\* not, holds the same (unless the sector is full and erased first).
SaveProc ==
  /\ phase = "ready" /\ timer = Never
  /\ timer' = None
  /\ \/ /\ save = IF ghost = None THEN durable ELSE ghost
        /\ UNCHANGED area
     \/ /\ phase' = "storing" /\ ghost' = None
        /\ durable' \in {durable, None}
  /\ UNCHANGED <<save, target, upMode, heard, blur>>

StoreCommit == Area!Commit /\ UNCHANGED <<ghost, timer, target, upMode, heard, blur>>
StoreReturn == Area!Return /\ UNCHANGED <<ghost, timer, target, upMode, heard, blur>>

-------------------------------------------------------------------------------
(* Commands.                                                               *)

\* g_level_set_and_update_last: a lightness, level, delta or move message or a
\* scene, within the light's range.  For a retransmission, or a move without
\* transition, l is the target there is.
LevelSet(l) ==
  /\ phase = "ready"
  /\ target' = l
  /\ save' = set_on_power_up_last(save, l)
  /\ light_par_save(FALSE)
  /\ blur' = FALSE
  /\ UNCHANGED <<area, upMode, heard>>

\* Mutant: only the target is set.
OnOffUnsaved(o) ==
  /\ phase = "ready"
  /\ target' = get_light_g_level_by_onoff(save, o, FALSE)
  /\ UNCHANGED <<area, save, timer, upMode>>
  /\ heard' = heard \cup {o} /\ blur' = (o = 1 /\ target' # save.last)

\* g_onoff_set: last is not updated when the light goes to its default level.
OnOffSet(o) ==
  /\ phase = "ready"
  /\ target' = get_light_g_level_by_onoff(save, o, FALSE)
  /\ save' = [save EXCEPT !.onoff = o]
  /\ light_par_save(FALSE)
  /\ heard' = heard \cup {o} /\ blur' = (o = 1 /\ target' # save.last)
  /\ UNCHANGED <<area, upMode>>

\* A retransmission, after whatever another client sent: g_level_set ignores
\* it, set_on_power_up_onoff does not.
OnOffRepeat(o) ==
  /\ phase = "ready" /\ o \in heard
  /\ save' = [save EXCEPT !.onoff = o]
  /\ light_par_save(FALSE)
  /\ blur' = (blur \/ (o = 1) # (target # LEVEL_OFF))
  /\ UNCHANGED <<area, target, upMode, heard>>

\* LIGHTNESS_DEFAULT_SET is stored without delay, unless another change of the
\* same pass delays it.
DefaultSet(v) ==
  /\ phase = "ready"
  /\ save' = [save EXCEPT !.def = v]
  /\ light_par_save(TRUE)
  /\ UNCHANGED <<area, target, upMode, heard, blur>>

\* G_ON_POWER_UP_SET, stored at once in the area of its model.
PowerUpSet(m) ==
  /\ phase = "ready"
  /\ upMode' = m
  /\ UNCHANGED <<area, save, timer, target, heard, blur>>

-------------------------------------------------------------------------------

Init ==
  /\ durable = None /\ phase = "off" /\ ghost = None
  /\ save = Initial /\ target = LEVEL_OFF
  /\ timer = None /\ heard = {} /\ blur = FALSE
  /\ upMode = ONPOWER_UP_DEFAULT

MainLoop == Tick \/ SaveProc \/ StoreCommit \/ StoreReturn \/ PowerOn

Disturbed ==
  \/ PowerLoss
  \/ \E l \in Level : LevelSet(l)
  \/ \E o \in OnOff : OnOffSet(o) \/ OnOffRepeat(o)
  \/ \E v \in Defaults : DefaultSet(v)
  \/ \E m \in 0 .. 2 : PowerUpSet(m)

Next == MainLoop \/ Disturbed

Spec == Init /\ [][Next]_vars

Fairness ==
  /\ WF_vars(Tick) /\ WF_vars(SaveProc)
  /\ WF_vars(StoreCommit) /\ WF_vars(StoreReturn) /\ WF_vars(PowerOn)

FairSpec == Spec /\ Fairness

-------------------------------------------------------------------------------
(* Properties                                                              *)

TypeOK ==
  /\ durable \in Saves \cup {None} /\ save \in Saves /\ ghost \in Saves \cup {None}
  /\ phase \in {"off", "ready", "storing", "stored"}
  /\ timer \in 0 .. Never \cup {None}
  /\ target \in Level /\ upMode \in 0 .. 2 /\ heard \subseteq OnOff /\ blur \in BOOLEAN

\* No change of the setting is forgotten: when no save is due, the setting is
\* in flash, or in the unfinished record that made mesh_par_store skip it.
SavedWhenIdle == phase = "ready" /\ timer = None => save \in {durable, ghost}

\* Switching the light on lights it: off is never saved as the last level, in
\* RAM or in flash, whatever it was set to.
OnLights ==
  /\ save.last # LEVEL_OFF
  /\ durable # None => durable.last # LEVEL_OFF

\* "Save Generic OnOff States for next power-on": a light that restores its
\* state comes back to where it was going, if that was saved, after any
\* commands but these: an on command that took the default level, and a
\* retransmitted on or off command.
RestoresTarget ==
  [][phase = "off" /\ phase' = "ready" /\ upMode = ONPOWER_UP_STORE
       /\ durable = save /\ ~blur => target' = target]_vars

\* Once nobody commands the light and the power stays on, its setting ends up
\* saved.
EventuallySaved ==
  <>[][~Disturbed]_vars => <>[](phase = "ready" /\ save \in {durable, ghost})
===============================================================================
