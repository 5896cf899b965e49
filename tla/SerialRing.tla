------------------------------ MODULE SerialRing ------------------------------
(***************************************************************************)
(* How serial frames reach the bridge (project/mesh_node_bridge).  The     *)
(* UART's DMA writes a frame into a cell of hci_rx_fifo, byte after byte.  *)
(* Its interrupt, uart_irq_proc, moves the DMA to the next cell without    *)
(* looking whether that one was read.  The main loop handles the oldest    *)
(* frame in place, rx_from_uart_cb: it echoes it, parses it and then pops  *)
(* it.  hci_tx_fifo is written and read by the main loop only, see MyFifo. *)
(*                                                                         *)
(* The bytes of a frame are Blocks blocks, each holding the number of the  *)
(* frame it came with.  The UART raises its interrupt, and the interrupt   *)
(* is served, before the next frame begins.                                *)
(***************************************************************************)
EXTENDS RingCounters, Sequences

CONSTANTS
  TxNum,  \* cells of hci_tx_fifo
  TxBlocks, \* blocks that fit one of them
  Blocks, \* blocks of the longest frame
  Limit   \* frames that arrive in a behaviour

ASSUME SerialAssumption ==
  /\ TxNum \in Nat \ {0} /\ TxBlocks \in Nat /\ Blocks \in Nat \ {0} /\ Limit \in Nat

VARIABLES
  text,     \* the blocks of each cell; 0: never written
  len,      \* the length the DMA noted in each cell
  wptr, rptr,
  arriving, \* blocks of the next frame written so far
  step,     \* of rx_from_uart_cb
  tx,       \* hci_tx_fifo
  received, \* history: frames
  overrun   \* history: the DMA wrote into a cell not read yet, and the
            \* queue has not been empty since

ring == <<text, len, wptr, rptr>>
vars == <<ring, arriving, step, tx, received, overrun>>

Pending == Between(wptr, rptr)

\* What a handler finds in a cell: strlen does not stop where the frame ends.
Ends(c) == {i \in 1 .. Blocks : text[c][i] = 0}
strlen(c) ==
  IF Ends(c) = {} THEN Blocks ELSE (CHOOSE i \in Ends(c) : \A j \in Ends(c) : i <= j) - 1
Found(c) == SubSeq(text[c], 1, strlen(c))

-------------------------------------------------------------------------------
(* The UART.                                                               *)

\* The next block of the frame that is arriving.
Receive ==
  /\ received < Limit /\ arriving < Blocks
  /\ text' = [text EXCEPT ![Index(wptr)][arriving + 1] = received + 1]
  /\ arriving' = arriving + 1
  /\ overrun' = (overrun \/ Pending >= Num)
  /\ UNCHANGED <<len, wptr, rptr, step, tx, received>>

\* Mutant: the DMA stays where it is while a frame waits.
NextIfEmpty ==
  /\ arriving > 0 /\ arriving' = 0
  /\ len' = [len EXCEPT ![Index(wptr)] = arriving]
  /\ wptr' = IF wptr = rptr THEN Inc(wptr) ELSE wptr
  /\ received' = received + 1
  /\ UNCHANGED <<text, rptr, step, tx, overrun>>

\* The frame ends.  When the counters meet the queue looks empty: the frames in
\* it are lost.
uart_irq_proc ==
  /\ arriving > 0 /\ arriving' = 0
  /\ len' = [len EXCEPT ![Index(wptr)] = arriving]
  /\ wptr' = Inc(wptr)
  /\ received' = received + 1
  /\ overrun' = (overrun /\ ~(wptr' = rptr /\ step = "idle"))
  /\ UNCHANGED <<text, rptr, step, tx>>

-------------------------------------------------------------------------------
(* The main loop.                                                          *)

\* rx_from_uart_cb looks at the low byte of the length: a frame is shorter, the
\* DMA stops at 248 bytes.
Get ==
  /\ step = "idle" /\ rptr # wptr /\ len[Index(rptr)] # 0
  /\ step' = "echo"
  /\ UNCHANGED <<ring, arriving, tx, received, overrun>>

\* uart_print_data: an echo that finds no room, or is too long, is dropped.
Echo ==
  /\ step = "echo" /\ step' = "parse"
  /\ tx' = IF Len(tx) < TxNum /\ strlen(Index(rptr)) <= TxBlocks
           THEN Append(tx, Found(Index(rptr))) ELSE tx
  /\ UNCHANGED <<ring, arriving, received, overrun>>

\* What can be echoed of a text: a piece of it that is not too long.
Pieces(t) == {SubSeq(t, i, i + n - 1) : i \in 1 .. Len(t), n \in 1 .. TxBlocks}

\* jsmn_parse reads the cell once more.  The strings found as "type" and "data"
\* are echoed too, those for which there is room; what they lead to is in
\* CommandSlot.
Parse ==
  /\ step = "parse" /\ step' = "pop"
  /\ \E n \in 0 .. TxNum - Len(tx) :
       \E strings \in [1 .. n -> Pieces(Found(Index(rptr)))] : tx' = tx \o strings
  /\ UNCHANGED <<ring, arriving, received, overrun>>

\* Mutant: two frames are taken for one.
PopTwo ==
  /\ step = "pop" /\ step' = "idle"
  /\ rptr' = Inc(Inc(rptr))
  /\ overrun' = (overrun /\ rptr' # wptr)
  /\ UNCHANGED <<text, len, wptr, arriving, tx, received>>

\* Popping a cell of a queue that came to look empty meanwhile makes it look
\* full: the Wrap - 1 frames before it are handled once more.
my_fifo_pop ==
  /\ step = "pop" /\ step' = "idle"
  /\ rptr' = Inc(rptr)
  /\ overrun' = (overrun /\ rptr' # wptr)
  /\ UNCHANGED <<text, len, wptr, arriving, tx, received>>

\* blc_hci_tx_to_uart, when the UART is not busy.
Transmit ==
  /\ tx # <<>> /\ tx' = Tail(tx)
  /\ UNCHANGED <<ring, arriving, step, received, overrun>>

-------------------------------------------------------------------------------

Init ==
  /\ text = [c \in 0 .. Num - 1 |-> [i \in 1 .. Blocks |-> 0]]
  /\ len = [c \in 0 .. Num - 1 |-> 0]
  /\ wptr = 0 /\ rptr = 0 /\ arriving = 0 /\ step = "idle" /\ tx = <<>>
  /\ received = 0 /\ overrun = FALSE

MainLoop == Get \/ Echo \/ Parse \/ my_fifo_pop

Next == Receive \/ uart_irq_proc \/ MainLoop \/ Transmit

Spec == Init /\ [][Next]_vars

Fairness == WF_vars(uart_irq_proc) /\ WF_vars(MainLoop) /\ WF_vars(Transmit)

-------------------------------------------------------------------------------
Cell == 0 .. Num - 1

\* What tx holds was copied from text.
TypeOK ==
  /\ text \in [Cell -> [1 .. Blocks -> Nat]] /\ len \in [Cell -> 0 .. Blocks]
  /\ wptr \in Counters /\ rptr \in Counters
  /\ arriving \in 0 .. Blocks /\ step \in {"idle", "echo", "parse", "pop"}
  /\ received \in Nat /\ overrun \in BOOLEAN

\* From get to pop the frame being handled is the next one, whole, and nothing
\* follows it in its cell but what is left of older frames, while the DMA did
\* not overrun the reader.
InTurn ==
  ~overrun /\ step # "idle" =>
    LET c == Index(rptr)
        handled == received - Pending
    IN  /\ len[c] > 0
        /\ \A i \in 1 .. Blocks :
             IF i <= len[c] THEN text[c][i] = handled + 1 ELSE text[c][i] <= handled

\* However far the DMA has run ahead, a queue that is left alone is emptied,
\* and from then on frames are handled in turn again.
Drains == <>[](step = "idle" /\ rptr = wptr /\ ~overrun /\ tx = <<>>)
================================================================================
