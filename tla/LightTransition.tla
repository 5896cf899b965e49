---------------------------- MODULE LightTransition ----------------------------
(***************************************************************************)
(* How a light moves to its target (light.c, lighting_model.c) and which   *)
(* scene it shows (scene.c).  system_time_run, once per pass of the main   *)
(* loop, repeats light_transition_proc for every millisecond since the     *)
(* last pass and then compares the level with that of the current scene.   *)
(* The commands come between two runs.                                     *)
(*                                                                         *)
(* One channel is modelled, the lightness.  The other channels of a light  *)
(* share its scenes: OtherChannel.                                         *)
(***************************************************************************)
EXTENDS LightLevels

CONSTANTS
  One,      \* 32768, the unit of step_1p32768
  Interval, \* LIGHT_ADJUST_INTERVAL
  Width,    \* 2^32
  Times,    \* transition times in ms; 0: none
  Delays,   \* delays in ms
  Asked,    \* levels and deltas the messages ask for
  Ranges,   \* what LIGHTNESS_RANGE_SET may set
  Scenes,   \* scene numbers
  None

ASSUME TransitionAssumption ==
  /\ One \in Nat \ {0} /\ Interval \in Nat \ {0} /\ Width \in Nat \ {0}
  /\ Times \subseteq Nat /\ Delays \subseteq Nat
  /\ Asked \subseteq Level /\ Ranges \subseteq Range
  /\ None \notin Scenes /\ None \notin Level

VARIABLES
  trans,       \* st_transition_t of the lightness
  range,       \* min and max of sw_level_save_t
  scene,       \* model_sig_scene.data: the level stored for each scene
  current,     \* current_scene
  targetScene, \* target_scene
  pc,          \* "run" inside system_time_run, else "loop"
  goal,        \* history: the scene recalled and not disturbed since
  clamped,     \* history: the range changed a step of this transition
  lost,        \* history: the last move was given no time
  refused      \* history: the last recall moved nothing and left its target

scenes  == <<scene, current, targetScene>>
history == <<goal, clamped, lost, refused>>
vars    == <<trans, range, scenes, pc, history>>

\* C division truncates towards zero.
Quot(a, b) == IF a >= 0 THEN a \div b ELSE -((-a) \div b)
Rem(a, b)  == a - Quot(a, b) * b

Transitions ==
  [present : Level, target : Level, delay : Nat, remain : Nat, step : Int, frac : Int]

Settled == trans.remain = 0 /\ trans.delay = 0

-------------------------------------------------------------------------------
(* Setting a level: g_level_set.                                           *)

is_transition_need(t, d) == t > 0 \/ d > 0

\* The level goes to l in t ms, after d ms: light_g_level_set_idx_with_trans.
WithTrans(l, t, d) ==
  [trans EXCEPT !.target = l, !.delay = d, !.remain = t, !.frac = 0,
     !.step = IF t = 0 THEN 0 ELSE Quot((l - trans.present) * One, t) * Interval]

\* light_res_sw_g_level_set with init_time_flag.
AtOnce(l) == [trans EXCEPT !.present = l, !.target = l, !.remain = 0, !.delay = 0]

\* Mutant: a completed recall leaves the target scene.
CompleteKeepsTarget ==
  /\ current' = IF targetScene # None THEN targetScene ELSE current
  /\ UNCHANGED targetScene

scene_target_complete_check ==
  /\ current' = IF targetScene # None THEN targetScene ELSE current
  /\ targetScene' = None

Undisturbed == goal' = None /\ clamped' = FALSE /\ lost' = FALSE /\ refused' = FALSE

\* Level, delta, lightness and on or off messages.  l is any level: one from a
\* message is put into the range, but off, and the last or the default level of
\* an earlier range, are not.
LevelSet(l, t, d) ==
  /\ pc = "loop"
  /\ IF is_transition_need(t, d) /\ trans.present # l
     THEN trans' = WithTrans(l, t, d) /\ UNCHANGED <<current, targetScene>>
     ELSE trans' = AtOnce(l) /\ scene_target_complete_check
  /\ Undisturbed
  /\ UNCHANGED <<range, scene, pc>>

\* The time a move of m per t ms takes to l, in u32: a move down starts from a
\* difference that wrapped.  (t * 100 / abs_step * mod / 100 for t over 65535.)
MoveTime(l, m, t) ==
  LET abs_step  == IF m > 0 THEN m ELSE -m
      abs_delta == (l - trans.present) % Width
      val       == (t * (abs_delta % abs_step)) \div abs_step
  IN  (t * (abs_delta \div abs_step) + val) % Width

\* g_level_set_and_update_last puts the delta of a move into the range of the
\* light's levels, as if it was a level; a move by 0 is refused.
MoveSet(delta, t, d) ==
  LET m == get_val_with_check_range(delta, range)
      l == get_target_level_for_move_set(m)
  IN  /\ pc = "loop" /\ m # 0 /\ refused' = FALSE
      /\ IF is_transition_need(t, d) /\ trans.present # l
         THEN /\ trans' = [trans EXCEPT !.target = l, !.delay = d,
                             !.remain = IF t = 0 THEN 0 ELSE MoveTime(l, m, t),
                             !.frac = 0, !.step = IF t = 0 THEN 0 ELSE Quot(m * One, t) * Interval]
              /\ UNCHANGED <<current, targetScene>>
              /\ goal' = None /\ clamped' = FALSE
              /\ lost' = (trans'.remain = 0 /\ d = 0)
         ELSE /\ scene_target_complete_check
              /\ goal' = None
              /\ UNCHANGED <<trans, clamped, lost>>
      /\ UNCHANGED <<range, scene, pc>>

\* LIGHTNESS_RANGE_SET: the light stays where it is.
RangeSet(r) ==
  /\ pc = "loop"
  /\ range' = r
  /\ UNCHANGED <<trans, scenes, pc, history>>

-------------------------------------------------------------------------------
(* Scenes.                                                                 *)

\* The level there is, also inside a transition.
SceneStore(s) ==
  /\ pc = "loop"
  /\ scene' = [scene EXCEPT ![s] = trans.present]
  /\ current' = s /\ targetScene' = None
  /\ goal' = None
  /\ UNCHANGED <<trans, range, pc, clamped, lost, refused>>

SceneDelete(s) ==
  /\ pc = "loop" /\ scene[s] # None
  /\ scene' = [scene EXCEPT ![s] = None]
  /\ current' = IF current = s THEN None ELSE current
  /\ targetScene' = IF targetScene = s THEN None ELSE targetScene
  /\ goal' = None
  /\ UNCHANGED <<trans, range, pc, clamped, lost, refused>>

\* Mutant: the scene's level is not forced.
RecallUnforced(l, t, d) ==
  IF is_transition_need(t, d) /\ trans.present # l THEN WithTrans(l, t, d) ELSE AtOnce(l)

\* force is set: the transition runs also to the level there is.
Recalled(l, t, d) == IF is_transition_need(t, d) THEN WithTrans(l, t, d) ELSE AtOnce(l)

SceneRecall(s, t, d) ==
  /\ pc = "loop" /\ scene[s] # None
  /\ trans' = Recalled(get_val_with_check_range(scene[s], range), t, d)
  /\ IF is_transition_need(t, d)
     THEN current' = None /\ targetScene' = s
     ELSE current' = s /\ targetScene' = None
  /\ goal' = IF get_val_with_check_range(scene[s], range) = scene[s] THEN s ELSE None
  /\ clamped' = FALSE /\ lost' = FALSE /\ refused' = FALSE
  /\ UNCHANGED <<range, scene, pc>>

\* The transition time of the message has an unknown number of steps: the scenes
\* are set before g_level_set looks at it, whose result is not.  A transition
\* under way goes on, and the status says success.
SceneRecallRefused(s) ==
  /\ pc = "loop" /\ scene[s] # None
  /\ current' = None /\ targetScene' = s
  /\ goal' = None /\ refused' = TRUE
  /\ UNCHANGED <<trans, range, scene, pc, clamped, lost>>

\* A transition of another channel ends, or one is set at once.
OtherChannel ==
  /\ targetScene # None
  /\ scene_target_complete_check
  /\ goal' = None
  /\ UNCHANGED <<trans, range, scene, pc, clamped, lost, refused>>

-------------------------------------------------------------------------------
(* system_time_run.                                                        *)

\* Mutant: a step every millisecond.
StepEveryMs == trans.present # trans.target

StepDue == trans.present # trans.target /\ trans.remain % Interval = 0

\* light_get_next_level before and after the range is checked.
Unchecked == trans.present + Quot(trans.step + trans.frac, One)

NextLevel == get_val_with_check_range(Unchecked, range)

Stepped == [trans EXCEPT !.present = NextLevel, !.frac = Rem(trans.step + trans.frac, One)]

Wait ==
  /\ trans.delay > 0
  /\ trans.delay > 1 \/ trans.remain > 0
  /\ trans' = [trans EXCEPT !.delay = @ - 1]
  /\ UNCHANGED <<scenes, clamped>>

Move ==
  /\ trans.delay = 0 /\ trans.remain > 1
  /\ trans' = [(IF StepDue THEN Stepped ELSE trans) EXCEPT !.remain = @ - 1]
  /\ clamped' = (clamped \/ (StepDue /\ NextLevel # Unchecked))
  /\ UNCHANGED scenes

\* Mutant: the level of the last step is kept.
CompleteAsIs ==
  /\ trans.delay + trans.remain = 1
  /\ trans' = [trans EXCEPT !.delay = 0, !.remain = 0]
  /\ scene_target_complete_check
  /\ UNCHANGED <<scene, clamped>>

\* "make sure the last status is same with target"
Complete ==
  /\ trans.delay + trans.remain = 1
  /\ trans' = [trans EXCEPT !.present = trans.target, !.delay = 0, !.remain = 0]
  /\ scene_target_complete_check
  /\ UNCHANGED <<scene, clamped>>

\* A millisecond: light_transition_proc.
Ms ==
  /\ pc' = "run"
  /\ \/ Wait \/ Move \/ Complete
     \/ Settled /\ UNCHANGED <<trans, scenes, clamped>>
  /\ UNCHANGED <<range, goal, lost, refused>>

scene_status_change_check ==
  /\ current' = IF /\ current # None /\ targetScene = None
                   /\ scene[current] \notin {None, trans.present}
                THEN None ELSE current
  /\ UNCHANGED targetScene

EndRun ==
  /\ pc = "run" /\ pc' = "loop"
  /\ scene_status_change_check
  /\ UNCHANGED <<trans, range, scene, history>>

-------------------------------------------------------------------------------

Init ==
  /\ \E l \in Asked : trans = [present |-> l, target |-> l, delay |-> 0, remain |-> 0,
                               step |-> 0, frac |-> 0]
  /\ range = FullRange
  /\ scene = [s \in Scenes |-> None] /\ current = None /\ targetScene = None
  /\ pc = "loop"
  /\ goal = None /\ clamped = FALSE /\ lost = FALSE /\ refused = FALSE

Command ==
  \/ \E l \in Asked, t \in Times, d \in Delays :
       LevelSet(l, t, d) \/ (l # 0 /\ MoveSet(l, t, d))
  \/ \E r \in Ranges : RangeSet(r)
  \/ \E s \in Scenes : SceneStore(s) \/ SceneDelete(s) \/ SceneRecallRefused(s)
  \/ \E s \in Scenes, t \in Times, d \in Delays : SceneRecall(s, t, d)
  \/ OtherChannel

Next == Ms \/ EndRun \/ Command

Spec == Init /\ [][Next]_vars

FairSpec == Spec /\ WF_vars(Ms) /\ WF_vars(EndRun)

-------------------------------------------------------------------------------
(* Properties                                                              *)

TypeOK ==
  /\ trans \in Transitions /\ range \in Range
  /\ scene \in [Scenes -> Level \cup {None}]
  /\ current \in Scenes \cup {None} /\ targetScene \in Scenes \cup {None}
  /\ pc \in {"loop", "run"}
  /\ goal \in Scenes \cup {None} /\ clamped \in BOOLEAN /\ lost \in BOOLEAN /\ refused \in BOOLEAN

\* When no time is left the light is where it was told to go, whatever stopped
\* or replaced its transitions.  A move whose time came out as 0 is the
\* exception: its target is reported and never reached.
SettledAtTarget == Settled /\ ~lost => trans.present = trans.target

\* When no time is left, a scene recalled in its range is the current scene and
\* shows, if no command came in between; and, whatever came, no scene is still
\* being recalled, but one that a move without time left behind or whose recall
\* was refused.
RecallEnds ==
  pc = "loop" /\ Settled =>
    /\ goal # None => current = goal /\ trans.present = scene[goal]
    /\ targetScene # None => lost \/ refused

\* "ST_TRANS_LIGHTNESS is forced to transmiting, when scene recall": while a
\* scene is being recalled the lightness has time left, which the status of the
\* scene reports.  A move without time apart, a refused recall breaks it.
RecallIsTransiting == targetScene # None /\ ~lost => ~Settled

Between(a, x, b) == (a <= x /\ x <= b) \/ (b <= x /\ x <= a)

\* The steps of a transition, each rounded, with the fraction carried over,
\* never go past the target or back, unless the range changed one of them.
NeverPast ==
  [][pc' = "run" /\ ~clamped' => Between(trans.present, trans'.present, trans.target)]_vars

\* Whatever the commands and the other channels did to the scenes: after a run
\* the scene reported as current shows on the light, and none is reported
\* together with one that is still being recalled.
SceneIsShown ==
  [][pc = "run" /\ pc' = "loop" /\ current' # None =>
       scene[current'] = trans.present /\ targetScene' = None]_vars

\* Once nobody commands the light it comes to rest, and so does its scene, but
\* the one that a move without time or a refused recall left behind.
Settles == <>[][~Command]_vars => <>[](Settled /\ (targetScene = None \/ lost \/ refused))
================================================================================
