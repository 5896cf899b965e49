----------------------------- MODULE CommandSlot -----------------------------
(***************************************************************************)
(* What the bridge does with a serial command (app_serial.c, app_routes.c, *)
(* interface.c): mesh_command_handle leaves it in a slot, MeshHandle, and  *)
(* user_func_proc takes it from there and sends it to the mesh.  Frames    *)
(* are bytes or JSON; rx_from_uart_cb calls the JSON handler and has the   *)
(* call of the other one commented out: build says which.                  *)
(*                                                                         *)
(* The JSON handler writes through pointers that were never set; that it   *)
(* passes on any command is all that is said of it here.                   *)
(***************************************************************************)
EXTENDS Integers, Sequences

CONSTANTS
  Adrs,   \* addresses but 0 and 0xffff
  All,    \* 0xffff
  None

\* Values of the frames' bytes.
MESH_LIGHT_CMD           == 1
MESH_CMD_LIGHT_LUM_SET   == 1
MESH_CMD_LIGHT_ONOFF_SET == 2

\* light_control_command; the frame holds all of it, its flag and type too.
Control == [dest : Adrs \cup {0}, onoff : {0, 1}, flag : {0, 1},
            type : {MESH_CMD_LIGHT_LUM_SET, MESH_CMD_LIGHT_ONOFF_SET}]

\* The operands of mesh_command_handle: an opcode, an action and a control.
Frames == [op : {MESH_LIGHT_CMD, 2},
           action : {MESH_CMD_LIGHT_LUM_SET, MESH_CMD_LIGHT_ONOFF_SET}, com : Control]

\* sub_list of the bridge's on/off model: an unused place holds 0.
SubLists == {<<a, b>> : a, b \in Adrs \cup {0, All}}

\* None is not a frame, and no address is unused (0) or the end of a list.
SlotAssumption == None \notin Frames /\ Adrs \subseteq Nat \ {0, All}

VARIABLES
  build,    \* "json" or "byte"; never changes
  sub_list,
  cmd_flag, \* MeshHandle.cmd_flag
  lig_com,  \* MeshHandle.lig_com
  sent,     \* on/off messages of the last check that sent any
  asked     \* history: the frame that took the slot

vars == <<build, sub_list, cmd_flag, lig_com, sent, asked>>

-------------------------------------------------------------------------------

mesh_light_command_handle(f) ==
  lig_com' = IF f.com.dest # 0 THEN [f.com EXCEPT !.flag = 1, !.type = f.action] ELSE f.com

\* The table of handlers has one entry and no end; that reading on behind it
\* finds nothing to call is assumed.
mesh_command_handle(f) ==
  IF f.op = MESH_LIGHT_CMD THEN mesh_light_command_handle(f) ELSE UNCHANGED lig_com

\* Mutant: a taken slot is overwritten.
TakesAgain(f) ==
  /\ build = "byte"
  /\ cmd_flag' = 1 /\ mesh_command_handle(f)
  /\ asked' = IF cmd_flag = 0 THEN f ELSE asked
  /\ UNCHANGED <<build, sub_list, sent>>

uart_byte_data_handle(f) ==
  /\ build = "byte"
  /\ cmd_flag = 0
  /\ cmd_flag' = 1 /\ mesh_command_handle(f)
  /\ asked' = f
  /\ UNCHANGED <<build, sub_list, sent>>

\* cmd_flag is neither looked at nor set.
uart_json_data_handle(f) ==
  /\ build = "json"
  /\ mesh_command_handle(f)
  /\ UNCHANGED <<build, sub_list, cmd_flag, sent, asked>>

\* user_set_onoff_to_SentAdr: the subscriptions in front of 0xffff.
SentAdr == {sub_list[i] : i \in {j \in 1 .. Len(sub_list) : \A k \in 1 .. j : sub_list[k] # All}}

\* user_func_proc in a pass of the main loop that took 200 ms; serial_check_time
\* is renewed in every pass, so that the others look at nothing.
user_func_proc ==
  /\ cmd_flag = 1 /\ lig_com.flag = 1 /\ lig_com.type = MESH_CMD_LIGHT_ONOFF_SET
  /\ sent' = {[to |-> a, onoff |-> lig_com.onoff] :
                a \in IF lig_com.dest # 0 THEN {lig_com.dest} ELSE SentAdr}
  /\ cmd_flag' = 0 /\ lig_com' = [lig_com EXCEPT !.flag = 0]
  /\ asked' = None
  /\ UNCHANGED <<build, sub_list>>

\* A configuration client changes the subscriptions.
Subscribe(l) ==
  /\ sub_list' = l
  /\ UNCHANGED <<build, cmd_flag, lig_com, sent, asked>>

-------------------------------------------------------------------------------

Init ==
  /\ build \in {"json", "byte"}
  /\ sub_list = <<0, 0>> /\ cmd_flag = 0
  /\ lig_com = [dest |-> 0, onoff |-> 0, flag |-> 0, type |-> 0]
  /\ sent = {} /\ asked = None

Next ==
  \/ \E f \in Frames : uart_byte_data_handle(f) \/ uart_json_data_handle(f)
  \/ user_func_proc
  \/ \E l \in SubLists : Subscribe(l)

Spec == Init /\ [][Next]_vars

-------------------------------------------------------------------------------

\* Whatever frames come in between, what is sent is what the frame asked for
\* that took the slot: its state to its address, or without one and with its
\* flag set to the subscriptions.  As the JSON handler never takes the slot,
\* the committed build sends nothing.
SendsWhatWasAsked ==
  [][cmd_flag = 1 /\ cmd_flag' = 0 =>
       /\ build = "byte" /\ asked # None
       /\ asked.op = MESH_LIGHT_CMD
       /\ LET c == asked.com
          IN  IF c.dest # 0
              THEN /\ asked.action = MESH_CMD_LIGHT_ONOFF_SET
                   /\ sent' = {[to |-> c.dest, onoff |-> c.onoff]}
              ELSE /\ c.flag = 1
                   /\ \A m \in sent' : m.onoff = c.onoff /\ m.to \in SentAdr]_vars
================================================================================
