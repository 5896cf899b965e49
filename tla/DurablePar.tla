------------------------------ MODULE DurablePar ------------------------------
(***************************************************************************)
(* What a parameter area promises its users: a register that survives power*)
(* losses.  A store replaces the durable value by the RAM value in one     *)
(* step, somewhere between its start and its return, and may before that   *)
(* give the durable value up (the area's only sector is erased when it is  *)
(* full).                                                                  *)
(***************************************************************************)
CONSTANTS Values, Default, None

VARIABLES durable, par, phase

vars == <<durable, par, phase>>

Init == durable = None /\ par = Default /\ phase = "off"

PowerOn ==
  /\ phase = "off" /\ phase' = "ready"
  /\ par' = IF durable = None THEN Default ELSE durable
  /\ UNCHANGED durable

Change(v) == phase = "ready" /\ par' = v /\ UNCHANGED <<durable, phase>>

Start ==
  /\ phase = "ready" /\ phase' = "storing"
  /\ durable' \in {durable, None}
  /\ UNCHANGED par

Commit ==
  /\ phase = "storing" /\ phase' = "stored"
  /\ durable' = par
  /\ UNCHANGED par

Return == phase = "stored" /\ phase' = "ready" /\ UNCHANGED <<durable, par>>

PowerLoss == phase # "off" /\ phase' = "off" /\ UNCHANGED <<durable, par>>

Next ==
  \/ PowerOn \/ Start \/ Commit \/ Return \/ PowerLoss
  \/ \E v \in Values : Change(v)

Spec == Init /\ [][Next]_vars
===============================================================================
