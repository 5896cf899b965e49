----------------------------- MODULE RingCounters -----------------------------
(***************************************************************************)
(* The two counters of a my_fifo_t (tutility.c): u8 that are never brought *)
(* back into the ring, so that their difference says how full it is.       *)
(***************************************************************************)
EXTENDS Integers

CONSTANTS
  Num,   \* f->num
  Wrap   \* 256

\* The cells divide the range of the counters: num is a power of two.
RingSizes ==
  /\ Num \in Nat \ {0} /\ Wrap \in Nat
  /\ \E k \in 2 .. Wrap : Wrap = k * Num

ASSUME RingAssumption == RingSizes

Counters == 0 .. Wrap - 1

Index(p) == p % Num           \* p & (num - 1)
Inc(p)   == (p + 1) % Wrap    \* p++ in u8

\* (wptr - rptr) & 255.
Between(w, r) == (w - r) % Wrap
================================================================================
