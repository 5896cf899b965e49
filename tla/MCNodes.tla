-------------------------------- MODULE MCNodes --------------------------------
(***************************************************************************)
(* The programs of this repository's own nodes, in one run.  part says     *)
(* which module a behaviour is about; the variables of the others rest.    *)
(***************************************************************************)
EXTENDS SerialRing

CONSTANTS
  Msgs, None,                                 \* MyFifo
  Adrs, All,                                  \* CommandSlot, Dimmer
  MaxMv, Step, Full,                          \* Dimmer
  Pins, Normal, Long, TickWrap, Most          \* Switch

VARIABLES
  part,
  fCell, fWptr, fRptr, fOut,
  build, sub_list, cmd_flag, lig_com, sent, asked,
  adc, L_adc_value, subAdr, told, heard,
  down, clock, pin_last_pressed, tick_sw_pressed, flag_normal_pressed, flag_long_pressed, reports

fifo  == <<fCell, fWptr, fRptr, fOut>>
slot  == <<build, sub_list, cmd_flag, lig_com, sent, asked>>
dim   == <<adc, L_adc_value, subAdr, told, heard>>
swt   == <<down, clock, pin_last_pressed, tick_sw_pressed,
           flag_normal_pressed, flag_long_pressed, reports>>
all   == <<part, vars, fifo, slot, dim, swt>>

F == INSTANCE MyFifo WITH cell <- fCell, wptr <- fWptr, rptr <- fRptr, out <- fOut
C == INSTANCE CommandSlot
D == INSTANCE Dimmer WITH Adrs <- Adrs \cup {0}
S == INSTANCE Switch WITH Wrap <- TickWrap

ASSUME NodesAssumption ==
  F!FifoAssumption /\ C!SlotAssumption /\ D!DimmerAssumption /\ S!SwitchAssumption

MCInit ==
  /\ Init /\ F!Init /\ C!Init /\ D!Init /\ S!Init
  /\ part \in {"ring", "fifo", "slot", "dim", "switch"}
  /\ part # "slot" => build = "json"
  /\ part # "dim" => adc = 0

MCNext ==
  \/ part = "ring"   /\ Next   /\ UNCHANGED <<part, fifo, slot, dim, swt>>
  \/ part = "fifo"   /\ F!Next /\ UNCHANGED <<part, vars, slot, dim, swt>>
  \/ part = "slot"   /\ C!Next /\ UNCHANGED <<part, vars, fifo, dim, swt>>
  \/ part = "dim"    /\ D!Next /\ UNCHANGED <<part, vars, fifo, slot, swt>>
  \/ part = "switch" /\ S!Next /\ UNCHANGED <<part, vars, fifo, slot, dim>>

OfRing(A) == part = "ring" /\ A /\ UNCHANGED <<part, fifo, slot, dim, swt>>

MCSpec ==
  /\ MCInit /\ [][MCNext]_all
  /\ WF_all(OfRing(uart_irq_proc)) /\ WF_all(OfRing(MainLoop)) /\ WF_all(OfRing(Transmit))
  /\ WF_all(part = "dim" /\ D!dim_ctrl_process /\ UNCHANGED <<part, vars, fifo, slot, swt>>)

\* The properties of the parts.
IsQueue           == F!IsQueue
SendsWhatWasAsked == C!SendsWhatWasAsked
Follows           == D!Follows
ReportsPress      == S!ReportsPress
================================================================================
