------------------------------- MODULE FifoQueue -------------------------------
(***************************************************************************)
(* What my_fifo promises its users: a queue of at most Num messages.  A    *)
(* push into a full queue is refused, a get shows the oldest message.  out *)
(* is what the last call returned.                                         *)
(***************************************************************************)
EXTENDS Integers, Sequences

CONSTANTS
  Msgs,
  Num,     \* messages there is room for
  None

VARIABLES queue, out

OK      == 0
REFUSED == -1

Init == queue = <<>> /\ out = None

Push(m) == Len(queue) < Num /\ queue' = Append(queue, m) /\ out' = OK

Refuse == out' = REFUSED /\ UNCHANGED queue

Get == out' = (IF queue = <<>> THEN None ELSE Head(queue)) /\ UNCHANGED queue

Pop == queue # <<>> /\ queue' = Tail(queue) /\ UNCHANGED out

Clear == queue' = <<>> /\ UNCHANGED out

Next == (\E m \in Msgs : Push(m)) \/ (Len(queue) = Num /\ Refuse) \/ Get \/ Pop \/ Clear

Spec == Init /\ [][Next]_<<queue, out>>
================================================================================
