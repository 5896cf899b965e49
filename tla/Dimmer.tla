-------------------------------- MODULE Dimmer --------------------------------
(***************************************************************************)
(* The dimmer (project/mesh_node_dim): every 200 ms it reads a voltage and, *)
(* when it changed, sends a brightness to the subscriptions of its on/off  *)
(* model.                                                                  *)
(***************************************************************************)
EXTENDS Integers, Sequences

CONSTANTS
  Adrs,  \* addresses but 0xffff; 0 fills unused places
  All,   \* 0xffff
  MaxMv, \* what the converter measures at most
  Step,  \* 32 mV
  Full   \* 100, the brightest

DimmerAssumption ==
  /\ MaxMv \in Nat /\ Step \in Nat \ {0} /\ Full \in Nat
  /\ 0 \in Adrs /\ All \notin Adrs

SubLists == {<<a, b>> : a, b \in Adrs \cup {All}}

VARIABLES
  adc,         \* the voltage there is
  L_adc_value, \* the one acted on last
  subAdr,      \* the subscriptions
  told,        \* the brightness last sent to each address
  heard        \* history: those it was sent to when the voltage last changed

vars == <<adc, L_adc_value, subAdr, told, heard>>

\* dim_convert_adc_val; a char holds every value there is.
Lum(v) == v \div Step

\* access_set_lum refuses what is_valid_lum does not accept.
is_valid_lum(l) == l <= Full

\* The loop ends at 0xffff.
Listed == {subAdr[i] : i \in {j \in 1 .. Len(subAdr) : \A k \in 1 .. j : subAdr[k] # All}}

\* Each command may fail on its own, for want of a buffer or because the last
\* one is still being sent.  Nobody looks at the result, and as the voltage is
\* noted already a command that failed is not repeated.
dim_set_lum_to_SentAddr(l) ==
  /\ heard' \in SUBSET Listed
  /\ is_valid_lum(l) \/ heard' = {}
  /\ told' = [a \in Adrs |-> IF a \in heard' THEN l ELSE told[a]]

\* Mutant: the brightness of the voltage before.
SendsOld ==
  /\ adc # L_adc_value
  /\ L_adc_value' = adc
  /\ dim_set_lum_to_SentAddr(Lum(L_adc_value))
  /\ UNCHANGED <<adc, subAdr>>

dim_ctrl_process ==
  /\ adc # L_adc_value
  /\ L_adc_value' = adc
  /\ dim_set_lum_to_SentAddr(Lum(adc))
  /\ UNCHANGED <<adc, subAdr>>

Turn ==
  /\ adc' \in 0 .. MaxMv
  /\ UNCHANGED <<L_adc_value, subAdr, told, heard>>

Subscribe(l) ==
  /\ subAdr' = l
  /\ UNCHANGED <<adc, L_adc_value, told, heard>>

Init ==
  /\ adc \in 0 .. MaxMv /\ L_adc_value = 0
  /\ subAdr = <<0, 0>>
  /\ told = [a \in Adrs |-> 0] /\ heard = {}

Next == dim_ctrl_process \/ Turn \/ \E l \in SubLists : Subscribe(l)

Spec == Init /\ [][Next]_vars

Fairness == WF_vars(dim_ctrl_process)

-------------------------------------------------------------------------------

\* When the knob comes to rest the lights show where it rests whose command was
\* taken at its last change, however far they were told behind before.  A light
\* whose command failed, that was listed later, or that was asked for more than
\* Full, waits for the next change.
Follows ==
  \A v \in 0 .. MaxMv :
    <>[](adc = v) => <>[](L_adc_value = v /\ \A a \in heard : told[a] = Lum(v))
================================================================================
