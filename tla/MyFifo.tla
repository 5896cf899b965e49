-------------------------------- MODULE MyFifo --------------------------------
(***************************************************************************)
(* my_fifo of tutility.c: a ring of Num cells between two u8 counters that *)
(* are never brought back into the ring.  A message too long for a cell    *)
(* is refused like one that finds no room; only messages that fit are      *)
(* pushed here.                                                            *)
(***************************************************************************)
EXTENDS RingCounters, Sequences

CONSTANTS
  Msgs,
  None

FifoAssumption == RingSizes /\ None \notin Msgs

VARIABLES cell, wptr, rptr, out

vars == <<cell, wptr, rptr, out>>

my_fifo_data_cnt_get == Between(wptr, rptr)

\* Mutant: one message more than there are cells.
RoomOff == my_fifo_data_cnt_get <= Num
Room == my_fifo_data_cnt_get < Num

OK      == 0
REFUSED == -1

Init == cell = [i \in 0 .. Num - 1 |-> None] /\ wptr = 0 /\ rptr = 0 /\ out = None

my_fifo_push(m) ==
  IF Room
  THEN /\ cell' = [cell EXCEPT ![Index(wptr)] = m]
       /\ wptr' = Inc(wptr) /\ out' = OK
       /\ UNCHANGED rptr
  ELSE /\ out' = REFUSED
       /\ UNCHANGED <<cell, wptr, rptr>>

my_fifo_get ==
  /\ out' = IF rptr # wptr THEN cell[Index(rptr)] ELSE None
  /\ UNCHANGED <<cell, wptr, rptr>>

\* Called after a get that found a message.
my_fifo_pop ==
  /\ rptr # wptr
  /\ rptr' = Inc(rptr)
  /\ UNCHANGED <<cell, wptr, out>>

my_fifo_reset ==
  /\ rptr' = wptr
  /\ UNCHANGED <<cell, wptr, out>>

Next == (\E m \in Msgs : my_fifo_push(m)) \/ my_fifo_get \/ my_fifo_pop \/ my_fifo_reset

Spec == Init /\ [][Next]_vars

-------------------------------------------------------------------------------
TypeOK ==
  /\ cell \in [0 .. Num - 1 -> Msgs \cup {None}]
  /\ wptr \in Counters /\ rptr \in Counters
  /\ out \in Msgs \cup {None, OK, REFUSED}

Queue == [i \in 1 .. my_fifo_data_cnt_get |-> cell[Index(rptr + i - 1)]]

Fifo == INSTANCE FifoQueue WITH queue <- Queue

\* The ring is a queue of Num messages, also where the counters wrap and when
\* it is full: every message comes out once and in order, none is overwritten,
\* and a push is refused only when there is no room.
IsQueue == Fifo!Spec
================================================================================
