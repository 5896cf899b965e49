------------------------------ MODULE Nodes_proofs ------------------------------
(***************************************************************************)
(* The queues and programs of the repository's own nodes, for any sizes.   *)
(* First what the counters of a ring say (RingCounters).  my_fifo (F) is a *)
(* queue because never more than Num counts lie between its two counters   *)
(* (FifoInv): the cells between them are Num different ones at most, and   *)
(* the one a push writes is free.  The bridge handles serial frames in     *)
(* turn (RingInv): InTurn speaks of the oldest cell only, the invariant of *)
(* every cell between the counters (Waiting), of the one the DMA is        *)
(* writing (Arriving) and of how far it may be (NotFull), all of it while  *)
(* the DMA did not overrun the reader.                                     *)
(***************************************************************************)
EXTENDS MCNodes, SequenceTheorems, TLAPS

\* A product that is smaller than one of its factors is 0.
LEMMA SmallMultiple ==
  ASSUME NEW n \in Nat \ {0}, NEW m \in Int, -n < m * n, m * n < n
  PROVE  m = 0
<1>1. CASE m >= 1
  <2>1. (m - 1) * n >= 0
    BY <1>1, SMT
  <2> QED BY <2>1, SMT
<1>2. CASE m <= -1
  <2>1. (-1 - m) * n >= 0
    BY <1>2, SMT
  <2> QED BY <2>1, SMT
<1> QED BY <1>1, <1>2

\* What % returns.
LEMMA ModSplits ==
  ASSUME NEW n \in Nat \ {0}, NEW a \in Int
  PROVE  a % n \in 0 .. n - 1 /\ \E q \in Int : a = q * n + (a % n)
<1>1. a % n \in 0 .. n - 1
  BY SMT
<1>2. a = (a \div n) * n + (a % n) /\ a \div n \in Int
  BY SMT
<1> QED BY <1>1, <1>2

\* Only one remainder is in range.
LEMMA ModUnique ==
  ASSUME NEW n \in Nat \ {0}, NEW a \in Int, NEW q \in Int, NEW r \in 0 .. n - 1,
         a = q * n + r
  PROVE  a % n = r
<1>1. PICK p \in Int : a = p * n + (a % n)
  BY ModSplits
<1>2. a % n \in 0 .. n - 1
  BY ModSplits
<1>3. (p - q) * n = r - (a % n)
  BY <1>1, <1>2, SMT
<1>4. p - q = 0
  <2>1. -n < (p - q) * n /\ (p - q) * n < n
    BY <1>2, <1>3, SMT
  <2> QED BY <2>1, SmallMultiple
<1> QED BY <1>2, <1>3, <1>4, SMT

\* A distance between two counters of W values, without the remainder.
LEMMA Distance ==
  ASSUME NEW W \in Nat \ {0}, NEW w \in 0 .. W - 1, NEW r \in 0 .. W - 1
  PROVE  (w - r) % W = IF w >= r THEN w - r ELSE w - r + W
<1>1. CASE w >= r
  <2>1. w - r \in 0 .. W - 1 /\ w - r = 0 * W + (w - r)
    BY <1>1, SMT
  <2> QED BY <1>1, <2>1, ModUnique, SMT
<1>2. CASE w < r
  <2>1. w - r + W \in 0 .. W - 1 /\ w - r = (-1) * W + (w - r + W)
    BY <1>2, SMT
  <2>2. (w - r) % W = w - r + W
    BY <2>1, ModUnique, SMT
  <2> QED BY <1>2, <2>2, SMT
<1> QED BY <1>1, <1>2, SMT

\* A counter one further.
LEMMA Increment ==
  ASSUME NEW W \in Nat \ {0}, NEW p \in 0 .. W - 1
  PROVE  (p + 1) % W = IF p = W - 1 THEN 0 ELSE p + 1
<1>1. CASE p = W - 1
  <2>1. 0 \in 0 .. W - 1 /\ p + 1 = 1 * W + 0
    BY <1>1, SMT
  <2> QED BY <1>1, <2>1, ModUnique, SMT
<1>2. CASE p # W - 1
  <2>1. p + 1 \in 0 .. W - 1 /\ p + 1 = 0 * W + (p + 1)
    BY <1>2, SMT
  <2> QED BY <1>2, <2>1, ModUnique, SMT
<1> QED BY <1>1, <1>2

\* The counters wrap where the ring does.
LEMMA SameCell ==
  ASSUME NEW n \in Nat \ {0}, NEW k \in Int, NEW p \in Int
  PROVE  (p + k * n) % n = p % n
<1>1. PICK q \in Int : p = q * n + (p % n)
  BY ModSplits
<1>2. p % n \in 0 .. n - 1
  BY ModSplits
<1>3. k * n \in Int /\ q * n \in Int
  BY SMT
<1>4. q + k \in Int /\ p + k * n \in Int
  BY <1>3, SMT
<1>5. p + k * n = (q + k) * n + (p % n)
  <2>1. (q + k) * n = q * n + k * n
    BY SMT
  <2> QED BY <1>1, <1>2, <1>3, <2>1, SMT
<1> QED BY <1>2, <1>4, <1>5, ModUnique

\* Positions less than a ring apart are different cells.
LEMMA OtherCell ==
  ASSUME NEW n \in Nat \ {0}, NEW a \in Int, NEW b \in Int, a < b, b - a < n
  PROVE  a % n # b % n
<1>1. PICK p \in Int : a = p * n + (a % n)
  BY ModSplits
<1>2. PICK q \in Int : b = q * n + (b % n)
  BY ModSplits
<1>3. a % n \in 0 .. n - 1 /\ b % n \in 0 .. n - 1
  BY ModSplits
<1>4. SUFFICES ASSUME a % n = b % n
               PROVE  FALSE
  OBVIOUS
<1>5. (q - p) * n = b - a
  <2>1. p * n \in Int /\ q * n \in Int
    BY SMT
  <2>2. (q - p) * n = q * n - p * n
    BY SMT
  <2> QED BY <1>1, <1>2, <1>3, <1>4, <2>1, <2>2, SMT
<1>6. q - p \in Int /\ -n < (q - p) * n /\ (q - p) * n < n
  BY <1>5, SMT
<1>7. q - p = 0
  BY <1>6, SmallMultiple
<1> QED BY <1>5, <1>7, SMT

-------------------------------------------------------------------------------
(* The counters.                                                           *)

LEMMA Sizes == Num \in Nat \ {0} /\ Wrap \in Nat \ {0} /\ Num < Wrap
<1>1. PICK k \in 2 .. Wrap : Wrap = k * Num
  BY RingAssumption DEF RingSizes
<1>2. Num \in Nat \ {0} /\ Wrap \in Nat
  BY RingAssumption DEF RingSizes
<1>3. (k - 2) * Num >= 0
  BY <1>2, SMT
<1>4. k * Num = (k - 2) * Num + 2 * Num
  BY <1>2, SMT
<1>5. (k - 2) * Num \in Int
  BY <1>2, SMT
<1> QED BY <1>1, <1>2, <1>3, <1>4, <1>5, SMT

\* The distance of the counters, without the remainder.
LEMMA BetweenIs ==
  ASSUME NEW w \in Counters, NEW r \in Counters
  PROVE  /\ w \in Int /\ r \in Int
         /\ Between(w, r) = IF w >= r THEN w - r ELSE w - r + Wrap
         /\ Between(w, r) \in Counters
         /\ (Between(w, r) = 0) <=> (r = w)
<1>1. w \in 0 .. Wrap - 1 /\ r \in 0 .. Wrap - 1 /\ Wrap \in Nat \ {0}
  BY Sizes DEF Counters
<1>2. Between(w, r) = IF w >= r THEN w - r ELSE w - r + Wrap
  BY <1>1, Distance DEF Between
<1>3. CASE w >= r
  BY <1>1, <1>2, <1>3, SMT DEF Counters
<1>4. CASE w < r
  BY <1>1, <1>2, <1>4, SMT DEF Counters
<1> QED BY <1>1, <1>3, <1>4, SMT

LEMMA IncIs ==
  ASSUME NEW p \in Counters
  PROVE  Inc(p) = (IF p = Wrap - 1 THEN 0 ELSE p + 1) /\ Inc(p) \in Counters
<1>1. Wrap \in Nat \ {0}
  BY Sizes
<1>2. Inc(p) = IF p = Wrap - 1 THEN 0 ELSE p + 1
  BY <1>1, Increment DEF Inc, Counters
<1> QED BY <1>1, <1>2, SMT DEF Counters

\* The writer goes one on: one message more, while there is room.
LEMMA OneMore ==
  ASSUME NEW w \in Counters, NEW r \in Counters, Between(w, r) < Num
  PROVE  Between(Inc(w), r) = Between(w, r) + 1
<1>1. Inc(w) \in Counters /\ Wrap \in Nat /\ Num \in Nat /\ Num < Wrap
  BY IncIs, Sizes
<1>2. Inc(w) = IF w = Wrap - 1 THEN 0 ELSE w + 1
  BY IncIs
<1>3. Between(w, r) = IF w >= r THEN w - r ELSE w - r + Wrap
  BY BetweenIs
<1>4. Between(Inc(w), r) = IF Inc(w) >= r THEN Inc(w) - r ELSE Inc(w) - r + Wrap
  BY <1>1, BetweenIs
<1> QED BY <1>1, <1>2, <1>3, <1>4, SMT DEF Counters

\* The reader goes one on: one message less, unless there was none.
LEMMA OneLess ==
  ASSUME NEW w \in Counters, NEW r \in Counters, r # w
  PROVE  Between(w, Inc(r)) = Between(w, r) - 1
<1>1. Inc(r) \in Counters /\ Wrap \in Nat
  BY IncIs, Sizes
<1>2. Inc(r) = IF r = Wrap - 1 THEN 0 ELSE r + 1
  BY IncIs
<1>3. Between(w, r) = IF w >= r THEN w - r ELSE w - r + Wrap
  BY BetweenIs
<1>4. Between(w, Inc(r)) = IF w >= Inc(r) THEN w - Inc(r) ELSE w - Inc(r) + Wrap
  BY <1>1, BetweenIs
<1> QED BY <1>1, <1>2, <1>3, <1>4, SMT DEF Counters

\* The same counter a wrap further names the same cell.
LEMMA WrapsWithRing ==
  ASSUME NEW p \in Int
  PROVE  Index(p + Wrap) = Index(p) /\ Index(p) \in 0 .. Num - 1
<1>1. PICK k \in 2 .. Wrap : Wrap = k * Num
  BY RingAssumption DEF RingSizes
<1>2. Num \in Nat \ {0} /\ k \in Int
  BY Sizes
<1>3. Index(p + k * Num) = Index(p)
  BY <1>2, SameCell DEF Index
<1>4. Index(p) \in 0 .. Num - 1
  BY <1>2, ModSplits DEF Index
<1> QED BY <1>1, <1>3, <1>4

\* The cell the writer is at is the one that follows the messages.
LEMMA WriterCell ==
  ASSUME NEW w \in Counters, NEW r \in Counters
  PROVE  Index(w) = Index(r + Between(w, r))
<1>1. w \in Int /\ r \in Int /\ Wrap \in Int
  BY Sizes, BetweenIs
<1>2. CASE w >= r
  <2>1. r + Between(w, r) = w
    BY <1>1, <1>2, BetweenIs, SMT
  <2> QED BY <2>1
<1>3. CASE w < r
  <2>1. r + Between(w, r) = w + Wrap
    BY <1>1, <1>3, BetweenIs, SMT
  <2> QED BY <1>1, <2>1, WrapsWithRing
<1> QED BY <1>1, <1>2, <1>3, SMT

\* Seen from the next counter, a message is one place further to the front.
LEMMA ReaderMoves ==
  ASSUME NEW r \in Counters, NEW i \in Int
  PROVE  Index(Inc(r) + i) = Index(r + i + 1)
<1>1. r \in 0 .. Wrap - 1 /\ Wrap \in Nat
  BY Sizes DEF Counters
<1>2. CASE r = Wrap - 1
  <2>1. Inc(r) + i = i /\ r + i + 1 = i + Wrap
    BY <1>1, <1>2, IncIs, SMT
  <2> QED BY <2>1, WrapsWithRing
<1>3. CASE r # Wrap - 1
  <2>1. Inc(r) + i = r + i + 1
    BY <1>1, <1>3, IncIs, SMT
  <2> QED BY <2>1
<1> QED BY <1>2, <1>3

-------------------------------------------------------------------------------
(* my_fifo is a queue.                                                     *)

\* The ring of my_fifo (F) has the counters of this module.
LEMMA SameRing ==
  /\ \A p : F!Index(p) = Index(p) /\ F!Inc(p) = Inc(p)
  /\ \A w, r : F!Between(w, r) = Between(w, r)
  BY DEF F!Index, Index, F!Inc, Inc, F!Between, Between

Messages == Msgs \cup {None}

\* The messages of a ring c between the counters r and w.
QueueOf(c, w, r) == [i \in 1 .. Between(w, r) |-> c[Index(r + i - 1)]]

Cells == [0 .. Num - 1 -> Messages]

FifoInv ==
  /\ fCell \in Cells /\ fWptr \in Counters /\ fRptr \in Counters
  /\ fOut \in Messages \cup {F!OK, F!REFUSED}
  /\ Between(fWptr, fRptr) <= Num

-------------------------------------------------------------------------------
(* The invariant.                                                          *)

LEMMA InitFifoInv == ASSUME F!Init PROVE FifoInv
<1>1. 0 \in Counters /\ Num \in Nat \ {0}
  BY Sizes, SMT DEF Counters
<1>2. Between(0, 0) = 0
  BY <1>1, BetweenIs
<1>3. Between(fWptr, fRptr) <= Num
  BY SameRing, <1>1, <1>2, SMT DEF F!Init
<1> QED BY SameRing, <1>1, <1>3 DEF FifoInv, F!Init, Cells, Messages

LEMMA FifoPushKeeps ==
  ASSUME FifoInv, NEW m \in Msgs, F!my_fifo_push(m)
  PROVE  FifoInv'
<1>1. CASE F!Room
  <2>1. Between(fWptr, fRptr) < Num
    BY SameRing, <1>1 DEF F!Room, F!my_fifo_data_cnt_get
  <2>2. Inc(fWptr) \in Counters /\ Between(Inc(fWptr), fRptr) = Between(fWptr, fRptr) + 1
    BY <2>1, IncIs, OneMore DEF FifoInv
  <2>3. Between(Inc(fWptr), fRptr) <= Num
    BY <2>1, <2>2, BetweenIs, Sizes, SMT DEF FifoInv, Counters
  <2>4. [fCell EXCEPT ![Index(fWptr)] = m] \in Cells
    BY DEF FifoInv, Cells, Messages
  <2> QED BY SameRing, <1>1, <2>2, <2>3, <2>4 DEF F!my_fifo_push, FifoInv
<1>2. CASE ~F!Room
  BY SameRing, <1>2 DEF F!my_fifo_push, FifoInv
<1> QED BY <1>1, <1>2

LEMMA FifoPopKeeps ==
  ASSUME FifoInv, F!my_fifo_pop
  PROVE  FifoInv'
<1>1. Inc(fRptr) \in Counters /\ Between(fWptr, Inc(fRptr)) = Between(fWptr, fRptr) - 1
  BY SameRing, IncIs, OneLess DEF FifoInv, F!my_fifo_pop
<1>2. Between(fWptr, Inc(fRptr)) <= Num
  BY <1>1, BetweenIs, Sizes, SMT DEF FifoInv, Counters
<1> QED BY SameRing, <1>1, <1>2 DEF F!my_fifo_pop, FifoInv

LEMMA FifoGetKeeps ==
  ASSUME FifoInv, F!my_fifo_get
  PROVE  FifoInv'
<1>1. Index(fRptr) \in 0 .. Num - 1
  BY BetweenIs, WrapsWithRing DEF FifoInv
<1>2. fCell[Index(fRptr)] \in Messages
  BY <1>1 DEF FifoInv, Cells
<1> QED BY SameRing, <1>2 DEF F!my_fifo_get, FifoInv, Messages

LEMMA FifoResetKeeps ==
  ASSUME FifoInv, F!my_fifo_reset
  PROVE  FifoInv'
<1>1. Between(fWptr, fWptr) = 0
  BY BetweenIs DEF FifoInv
<1>2. Between(fWptr, fWptr) <= Num
  BY <1>1, Sizes, SMT
<1> QED BY SameRing, <1>2 DEF F!my_fifo_reset, FifoInv

LEMMA NextFifoInv ==
  ASSUME FifoInv, [F!Next]_(F!vars)
  PROVE  FifoInv'
<1>1. CASE UNCHANGED F!vars
  BY <1>1 DEF F!vars, FifoInv
<1> QED BY <1>1, FifoPushKeeps, FifoPopKeeps, FifoGetKeeps, FifoResetKeeps DEF F!Next

\* my_fifo's counters stay counters and its cells hold messages.
THEOREM FifoType == F!Spec => []F!TypeOK
<1>1. F!Init => FifoInv
  BY InitFifoInv
<1>2. FifoInv /\ [F!Next]_(F!vars) => FifoInv'
  BY NextFifoInv
<1>3. FifoInv => F!TypeOK
  BY DEF FifoInv, F!TypeOK, Cells, Messages, F!Counters, Counters
<1> QED BY <1>1, <1>2, <1>3, PTL DEF F!Spec

-------------------------------------------------------------------------------
(* The refinement.                                                         *)

\* The messages between the counters, as a sequence.
LEMMA QueueIs ==
  ASSUME NEW c \in Cells, NEW w \in Counters, NEW r \in Counters
  PROVE  /\ QueueOf(c, w, r) \in Seq(Messages) /\ Len(QueueOf(c, w, r)) = Between(w, r)
         /\ \A i \in 1 .. Between(w, r) : QueueOf(c, w, r)[i] = c[Index(r + i - 1)]
<1> DEFINE n == Between(w, r)
           q == QueueOf(c, w, r)
<1>1. n \in Nat /\ r \in Int
  BY BetweenIs, Sizes, SMT DEF Counters
<1>2. \A i \in 1 .. n : c[Index(r + i - 1)] \in Messages
  <2> TAKE i \in 1 .. n
  <2>1. r + i - 1 \in Int
    BY <1>1, SMT
  <2>2. Index(r + i - 1) \in 0 .. Num - 1
    BY <2>1, WrapsWithRing
  <2> QED BY <2>2 DEF Cells
<1>3. q = [i \in 1 .. n |-> c[Index(r + i - 1)]]
  BY DEF QueueOf
<1> HIDE DEF n, q
<1>4. q \in [1 .. n -> Messages]
  BY <1>2, <1>3
<1>5. q \in Seq(Messages)
  BY <1>1, <1>4, SeqDef
<1>6. DOMAIN q = 1 .. n /\ DOMAIN q = 1 .. Len(q) /\ Len(q) \in Nat
  BY <1>4, <1>5, LenProperties
<1>7. Len(q) = n
  BY <1>1, <1>6, SMT
<1>8. \A i \in 1 .. n : q[i] = c[Index(r + i - 1)]
  BY <1>3
<1> QED BY <1>5, <1>7, <1>8 DEF n, q

\* A push into a ring with room appends.
LEMMA PushAppends ==
  ASSUME NEW c \in Cells, NEW w \in Counters, NEW r \in Counters, NEW m \in Msgs,
         Between(w, r) < Num
  PROVE  QueueOf([c EXCEPT ![Index(w)] = m], Inc(w), r) = Append(QueueOf(c, w, r), m)
<1> DEFINE d == [c EXCEPT ![Index(w)] = m]
           n == Between(w, r)
           q == QueueOf(c, w, r)
           p == QueueOf(d, Inc(w), r)
<1>1. d \in Cells /\ Inc(w) \in Counters /\ Between(Inc(w), r) = n + 1 /\ n \in Nat /\ r \in Int
  <2>1. n \in Nat /\ r \in Int
    BY BetweenIs, Sizes, SMT DEF Counters
  <2> QED BY <2>1, IncIs, OneMore DEF Cells, Messages
<1>2. /\ q \in Seq(Messages) /\ Len(q) = n
      /\ \A i \in 1 .. n : q[i] = c[Index(r + i - 1)]
  BY QueueIs
<1>3. /\ p \in Seq(Messages) /\ Len(p) = n + 1
      /\ \A i \in 1 .. n + 1 : p[i] = d[Index(r + i - 1)]
  <2> DEFINE v == Inc(w)
  <2>1. v \in Counters /\ Between(v, r) = n + 1 /\ p = QueueOf(d, v, r) /\ d \in Cells
    BY <1>1
  <2> HIDE DEF d, n, v, p
  <2> QED BY <2>1, QueueIs
<1>4. /\ Append(q, m) \in Seq(Messages) /\ Len(Append(q, m)) = n + 1
      /\ \A i \in 1 .. n : Append(q, m)[i] = q[i]
      /\ Append(q, m)[n + 1] = m
  <2> HIDE DEF q, n
  <2> QED BY <1>1, <1>2, AppendProperties, SMT DEF Messages
<1>5. Index(w) = Index(r + n) /\ Index(w) \in 0 .. Num - 1
  BY WriterCell, BetweenIs, WrapsWithRing
<1>6. \A i \in 1 .. n + 1 : p[i] = Append(q, m)[i]
  <2> TAKE i \in 1 .. n + 1
  <2>1. CASE i = n + 1
    <3>1. r + i - 1 = r + n
      BY <1>1, <2>1, SMT
    <3>2. p[i] = d[Index(w)]
      BY <1>3, <1>5, <3>1
    <3>3. d[Index(w)] = m
      BY <1>5 DEF Cells
    <3> QED BY <1>4, <2>1, <3>2, <3>3
  <2>2. CASE i # n + 1
    <3>1. i \in 1 .. n /\ r + i - 1 \in Int /\ r + n \in Int
          /\ i <= n /\ n < Num + i - 1
      BY <1>1, <2>2, Sizes, SMT
    <3>2. Index(r + i - 1) # Index(w)
      <4> DEFINE a == r + i - 1
                 b == r + n
      <4>1. a \in Int /\ b \in Int /\ a < b /\ b - a < Num
        <5> HIDE DEF n
        <5>1. n \in Int /\ r \in Int /\ i \in Int /\ Num \in Int /\ i <= n /\ n < Num + i - 1
          BY <1>1, <3>1, Sizes, SMT
        <5> QED BY <5>1, SMT
      <4>2. b = r + n /\ a = r + i - 1
        OBVIOUS
      <4> HIDE DEF a, b
      <4>3. a % Num # b % Num
        BY <4>1, OtherCell, Sizes
      <4> QED BY <1>5, <4>2, <4>3 DEF Index
    <3>3. Index(r + i - 1) \in 0 .. Num - 1
      BY <3>1, WrapsWithRing
    <3>4. d[Index(r + i - 1)] = c[Index(r + i - 1)]
      BY <3>2, <3>3 DEF Cells
    <3> QED BY <1>2, <1>3, <1>4, <3>1, <3>4
  <2> QED BY <2>1, <2>2
<1> HIDE DEF p, q, n, d
<1>7. p = Append(q, m)
  BY <1>3, <1>4, <1>6, SeqEqual
<1> QED BY <1>7 DEF p, q, n, d

\* A pop takes the first message away.
LEMMA PopTakesFirst ==
  ASSUME NEW c \in Cells, NEW w \in Counters, NEW r \in Counters, r # w
  PROVE  /\ QueueOf(c, w, r) # <<>>
         /\ Head(QueueOf(c, w, r)) = c[Index(r)]
         /\ QueueOf(c, w, Inc(r)) = Tail(QueueOf(c, w, r))
<1> DEFINE n == Between(w, r)
           q == QueueOf(c, w, r)
           p == QueueOf(c, w, Inc(r))
<1>1. Inc(r) \in Counters /\ Between(w, Inc(r)) = n - 1 /\ n \in Nat \ {0} /\ r \in Int
  <2>1. n \in Nat \ {0} /\ r \in Int
    BY BetweenIs, Sizes, SMT DEF Counters
  <2> QED BY <2>1, IncIs, OneLess
<1>2. /\ q \in Seq(Messages) /\ Len(q) = n
      /\ \A i \in 1 .. n : q[i] = c[Index(r + i - 1)]
  BY QueueIs
<1>3. /\ p \in Seq(Messages) /\ Len(p) = n - 1
      /\ \A i \in 1 .. n - 1 : p[i] = c[Index(Inc(r) + i - 1)]
  <2> HIDE DEF n
  <2> QED BY <1>1, QueueIs
<1> HIDE DEF n, p, q
<1>4. q # <<>>
  BY <1>1, <1>2, EmptySeq, SMT
<1>5. /\ Tail(q) \in Seq(Messages) /\ Len(Tail(q)) = n - 1
      /\ \A i \in 1 .. n - 1 : Tail(q)[i] = q[i + 1]
  BY <1>2, <1>4, HeadTailProperties
<1>6. Head(q) = c[Index(r)]
  <2>1. Head(q) = q[1]
    BY <1>2, <1>4, SMT
  <2>2. 1 \in 1 .. n /\ r + 1 - 1 = r
    BY <1>1, SMT
  <2> QED BY <1>2, <2>1, <2>2
<1>7. \A i \in 1 .. n - 1 : p[i] = Tail(q)[i]
  <2> TAKE i \in 1 .. n - 1
  <2>1. i - 1 \in Int /\ i + 1 \in 1 .. n /\ Inc(r) \in Int
    BY <1>1, Sizes, SMT DEF Counters
  <2>2. Inc(r) + i - 1 = Inc(r) + (i - 1) /\ r + (i - 1) + 1 = r + (i + 1) - 1
    BY <1>1, <2>1, SMT
  <2>3. Index(Inc(r) + (i - 1)) = Index(r + (i - 1) + 1)
    BY <2>1, ReaderMoves
  <2> QED BY <1>2, <1>3, <1>5, <2>1, <2>2, <2>3
<1>8. p = Tail(q)
  BY <1>3, <1>5, <1>7, SeqEqual
<1> QED BY <1>4, <1>6, <1>8 DEF p, q, n

LEMMA EmptyQueue ==
  ASSUME NEW c \in Cells, NEW w \in Counters
  PROVE  QueueOf(c, w, w) = <<>>
<1>1. Between(w, w) = 0
  BY BetweenIs
<1>2. QueueOf(c, w, w) \in Seq(Messages) /\ Len(QueueOf(c, w, w)) = 0
  BY <1>1, QueueIs
<1> QED BY <1>2, EmptySeq, SMT

LEMMA QueueIsQueueOf == F!Queue = QueueOf(fCell, fWptr, fRptr) /\ F!Queue' = QueueOf(fCell', fWptr', fRptr')
  BY SameRing DEF F!Queue, QueueOf, F!my_fifo_data_cnt_get

LEMMA InitImplements == ASSUME F!Init PROVE F!Fifo!Init
<1>1. fCell \in Cells /\ fWptr \in Counters /\ fRptr = fWptr
  BY SameRing, InitFifoInv DEF FifoInv, F!Init
<1> QED BY SameRing, <1>1, EmptyQueue, QueueIsQueueOf DEF F!Init, F!Fifo!Init

\* Every step of the ring is the step of the queue with its name, and a push
\* that finds no room is refused by a full queue.
LEMMA NextImplements ==
  ASSUME FifoInv, [F!Next]_(F!vars)
  PROVE  [F!Fifo!Next]_<<F!Queue, fOut>>
<1>0. fCell \in Cells /\ fWptr \in Counters /\ fRptr \in Counters /\ Between(fWptr, fRptr) <= Num
  BY DEF FifoInv
<1>1. ASSUME NEW m \in Msgs, F!my_fifo_push(m), F!Room
      PROVE  F!Fifo!Push(m)
  <2>1. Between(fWptr, fRptr) < Num
    BY SameRing, <1>1 DEF F!Room, F!my_fifo_data_cnt_get
  <2>2. F!Queue' = Append(F!Queue, m)
    BY SameRing, <1>0, <1>1, <2>1, PushAppends, QueueIsQueueOf DEF F!my_fifo_push
  <2>3. Len(F!Queue) < Num
    BY <1>0, <2>1, QueueIs, QueueIsQueueOf
  <2> QED BY SameRing, <1>1, <2>2, <2>3 DEF F!my_fifo_push, F!Fifo!Push, F!OK, F!Fifo!OK
<1>2. ASSUME NEW m \in Msgs, F!my_fifo_push(m), ~F!Room
      PROVE  Len(F!Queue) = Num /\ F!Fifo!Refuse
  <2>1. ~(Between(fWptr, fRptr) < Num)
    BY SameRing, <1>2 DEF F!Room, F!my_fifo_data_cnt_get
  <2>2. Between(fWptr, fRptr) = Num
    BY <1>0, <2>1, BetweenIs, Sizes, SMT DEF Counters
  <2>3. Len(F!Queue) = Num
    BY <1>0, <2>2, QueueIs, QueueIsQueueOf
  <2>4. UNCHANGED F!Queue
    BY SameRing, <1>2, QueueIsQueueOf DEF F!my_fifo_push
  <2> QED BY SameRing, <1>2, <2>3, <2>4 DEF F!my_fifo_push, F!Fifo!Refuse, F!REFUSED, F!Fifo!REFUSED
<1>3. ASSUME F!my_fifo_get
      PROVE  F!Fifo!Get
  <2>1. UNCHANGED F!Queue
    BY SameRing, <1>3, QueueIsQueueOf DEF F!my_fifo_get
  <2>2. CASE fRptr = fWptr
    BY SameRing, <1>0, <1>3, <2>1, <2>2, EmptyQueue, QueueIsQueueOf DEF F!my_fifo_get, F!Fifo!Get
  <2>3. CASE fRptr # fWptr
    BY SameRing, <1>0, <1>3, <2>1, <2>3, PopTakesFirst, QueueIsQueueOf DEF F!my_fifo_get, F!Fifo!Get
  <2> QED BY <2>2, <2>3
<1>4. ASSUME F!my_fifo_pop
      PROVE  F!Fifo!Pop
  BY SameRing, <1>0, <1>4, PopTakesFirst, QueueIsQueueOf DEF F!my_fifo_pop, F!Fifo!Pop
<1>5. ASSUME F!my_fifo_reset
      PROVE  F!Fifo!Clear
  BY SameRing, <1>0, <1>5, EmptyQueue, QueueIsQueueOf DEF F!my_fifo_reset, F!Fifo!Clear
<1>6. CASE UNCHANGED F!vars
  BY <1>6, QueueIsQueueOf DEF F!vars
<1> QED BY <1>1, <1>2, <1>3, <1>4, <1>5, <1>6 DEF F!Next, F!Fifo!Next

-------------------------------------------------------------------------------
(* The bridge's receive ring.                                              *)

\* The blocks of the frame that is arriving are where the DMA is, and no other
\* block is that new.
Arriving ==
  /\ \A i \in 1 .. arriving : text[Index(wptr)][i] = received + 1
  /\ \A c \in Cell, i \in 1 .. Blocks :
       text[c][i] <= received \/ (c = Index(wptr) /\ i <= arriving)

\* A cell with frame f, whole, and nothing behind it but older blocks.
Holds(t, l, f) ==
  /\ l > 0
  /\ \A i \in 1 .. Blocks : IF i <= l THEN t[i] = f ELSE t[i] < f

\* The frames between the counters, in order, one after the other.
Waiting ==
  \A j \in 0 .. Pending - 1 :
    Holds(text[Index(rptr + j)], len[Index(rptr + j)], received - Pending + 1 + j)

\* When the ring is full nothing has been written into it since.
NotFull == Pending <= Num /\ (Pending = Num => arriving = 0)

Taken == step # "idle" => Pending >= 1

RingInv == TypeOK /\ Arriving /\ (~overrun => NotFull /\ Waiting /\ Taken)

-------------------------------------------------------------------------------
(* What the steps do to the ring.                                          *)

LEMMA Ranges ==
  ASSUME TypeOK
  PROVE  /\ Num \in Nat \ {0} /\ Blocks \in Nat \ {0} /\ Wrap \in Nat \ {0} /\ Num < Wrap
         /\ Index(wptr) \in Cell /\ Index(rptr) \in Cell
         /\ Inc(wptr) \in Counters /\ Inc(rptr) \in Counters
         /\ Pending \in Nat
         /\ \A j \in Int : Index(rptr + j) \in Cell /\ rptr + j \in Int
         /\ wptr \in Int /\ rptr \in Int
<1>1. wptr \in Counters /\ rptr \in Counters
  BY DEF TypeOK
<1>2. wptr \in Int /\ rptr \in Int /\ Pending \in Counters
  BY <1>1, BetweenIs DEF Pending
<1>3. Pending \in Nat
  BY <1>2, Sizes, SMT DEF Counters
<1>4. \A j \in Int : Index(rptr + j) \in Cell /\ rptr + j \in Int
  BY <1>2, WrapsWithRing DEF Cell
<1> QED BY <1>1, <1>2, <1>3, <1>4, Sizes, SerialAssumption, WrapsWithRing, IncIs DEF Cell

\* The cell the DMA is at is none of those that wait, unless the ring is full.
LEMMA WriterApart ==
  ASSUME TypeOK, Pending < Num, NEW j \in 0 .. Pending - 1
  PROVE  Index(rptr + j) # Index(wptr)
<1> DEFINE a == rptr + j
           b == rptr + Pending
<1>1. a \in Int /\ b \in Int /\ a < b /\ b - a < Num
  BY Ranges, SMT
<1>2. Index(wptr) = Index(b)
  BY WriterCell DEF TypeOK, Pending
<1>3. b = rptr + Pending /\ a = rptr + j
  OBVIOUS
<1> HIDE DEF a, b
<1>4. a % Num # b % Num
  BY <1>1, OtherCell, Sizes
<1> QED BY <1>2, <1>3, <1>4 DEF Index

LEMMA InitRingInv == ASSUME Init PROVE RingInv
<1>1. 0 \in Counters /\ Num \in Nat \ {0} /\ Blocks \in Nat \ {0}
  BY Sizes, SerialAssumption, SMT DEF Counters
<1>2. TypeOK
  <2>1. 0 \in 0 .. Blocks /\ 0 \in Nat
    BY <1>1, SMT
  <2>2. text \in [Cell -> [1 .. Blocks -> Nat]] /\ len \in [Cell -> 0 .. Blocks]
    BY <2>1 DEF Init, Cell
  <2> QED BY <1>1, <2>1, <2>2 DEF Init, TypeOK
<1>3. Pending = 0
  BY <1>1, BetweenIs DEF Init, Pending
<1>4. Arriving
  BY <1>1, <1>2, SMT DEF Init, Arriving, Cell
<1>5. NotFull /\ Waiting /\ Taken
  BY <1>1, <1>3, SMT DEF NotFull, Waiting, Taken, Init
<1> QED BY <1>2, <1>4, <1>5 DEF RingInv

LEMMA ReceiveKeeps == ASSUME RingInv, Receive PROVE RingInv'
<1> DEFINE w == Index(wptr)
<1>0. TypeOK /\ Arriving /\ w \in Cell /\ Pending \in Nat /\ Num \in Nat /\ Blocks \in Nat
  BY Ranges DEF RingInv
<1>1. /\ received < Limit /\ arriving < Blocks
      /\ text' = [text EXCEPT ![w][arriving + 1] = received + 1]
      /\ arriving' = arriving + 1 /\ overrun' = (overrun \/ Pending >= Num)
      /\ UNCHANGED <<len, wptr, rptr, step, received>>
  BY DEF Receive
<1>2. UNCHANGED <<Pending, w>>
  BY <1>1 DEF Pending
<1>3. text' = [text EXCEPT ![w] = [text[w] EXCEPT ![arriving + 1] = received + 1]]
  BY <1>1
<1>4. arriving + 1 \in 1 .. Blocks
  BY <1>0, <1>1, SMT DEF TypeOK
<1>5. TypeOK'
  <2>1. [text[w] EXCEPT ![arriving + 1] = received + 1] \in [1 .. Blocks -> Nat]
    <3>1. received + 1 \in Nat
      BY SMT, <1>0 DEF TypeOK
    <3>2. text[w] \in [1 .. Blocks -> Nat]
      BY <1>0 DEF TypeOK
    <3> HIDE DEF w
    <3> QED BY <3>1, <3>2
  <2>2. text' \in [Cell -> [1 .. Blocks -> Nat]]
    BY <1>0, <1>3, <2>1 DEF TypeOK
  <2> QED BY <1>0, <1>1, <1>4, <2>2, SMT DEF TypeOK
<1>6. \A c \in Cell : c # w => text'[c] = text[c]
  BY <1>0, <1>3 DEF TypeOK
<1>7. \A i \in 1 .. Blocks : text'[w][i] = IF i = arriving + 1 THEN received + 1 ELSE text[w][i]
  BY <1>0, <1>3, <1>4 DEF TypeOK
<1> HIDE DEF w
<1>8. Arriving'
  <2>1. \A i \in 1 .. arriving + 1 : text'[w][i] = received + 1
    <3> TAKE i \in 1 .. arriving + 1
    <3>1. i \in 1 .. Blocks /\ (i # arriving + 1 => i \in 1 .. arriving)
      BY <1>0, <1>4, SMT DEF TypeOK
    <3>2. \A k \in 1 .. arriving : text[w][k] = received + 1
      BY <1>0 DEF Arriving, w
    <3> QED BY <1>7, <3>1, <3>2
  <2>2. ASSUME NEW c \in Cell, NEW i \in 1 .. Blocks
        PROVE  text'[c][i] <= received \/ (c = w /\ i <= arriving + 1)
    <3>1. text[c][i] <= received \/ (c = w /\ i <= arriving)
      BY <1>0 DEF Arriving, w
    <3>2. CASE c = w
      BY <1>0, <1>7, <3>1, <3>2, SMT DEF TypeOK
    <3>3. CASE c # w
      BY <1>6, <3>1, <3>3
    <3> QED BY <3>2, <3>3
  <2> QED BY <1>1, <1>2, <2>1, <2>2 DEF Arriving, w
<1>9. ASSUME ~overrun'
      PROVE  NotFull' /\ Waiting' /\ Taken'
  <2>1. ~overrun /\ Pending < Num
    <3>1. ~overrun /\ ~(Pending >= Num)
      BY <1>1, <1>9
    <3> QED BY <1>0, <3>1
  <2>2. NotFull /\ Waiting /\ Taken
    BY <2>1 DEF RingInv
  <2>3. NotFull'
    BY <1>0, <1>2, <2>1, SMT DEF NotFull
  <2>4. Waiting'
    <3>1. ASSUME NEW j \in 0 .. Pending - 1
          PROVE  Holds(text'[Index(rptr + j)], len[Index(rptr + j)], received - Pending + 1 + j)
      <4>1. Index(rptr + j) # w /\ Index(rptr + j) \in Cell
        BY <1>0, <2>1, WriterApart, Ranges DEF w
      <4> QED BY <1>6, <2>2, <4>1 DEF Waiting
    <3> QED BY <1>1, <1>2, <3>1 DEF Waiting
  <2>5. Taken'
    BY <1>1, <1>2, <2>2 DEF Taken
  <2> QED BY <2>3, <2>4, <2>5
<1> QED BY <1>5, <1>8, <1>9 DEF RingInv

LEMMA IrqKeeps == ASSUME RingInv, uart_irq_proc PROVE RingInv'
<1> DEFINE w == Index(wptr)
<1>0. /\ TypeOK /\ Arriving /\ w \in Cell /\ Pending \in Nat /\ Num \in Nat \ {0} /\ Blocks \in Nat
      /\ received \in Nat /\ arriving \in 0 .. Blocks
  BY Ranges DEF RingInv, TypeOK
<1>1. /\ arriving > 0 /\ arriving' = 0 /\ len' = [len EXCEPT ![w] = arriving]
      /\ wptr' = Inc(wptr) /\ received' = received + 1
      /\ overrun' = (overrun /\ ~(wptr' = rptr /\ step = "idle"))
      /\ UNCHANGED <<text, rptr, step>>
  BY DEF uart_irq_proc
<1>2. TypeOK'
  <2>1. Inc(wptr) \in Counters
    BY <1>0, Ranges
  <2>2. len' \in [Cell -> 0 .. Blocks]
    BY <1>0, <1>1 DEF TypeOK
  <2> QED BY <1>0, <1>1, <2>1, <2>2, SMT DEF TypeOK
<1>3. \A c \in Cell, i \in 1 .. Blocks :
        text[c][i] \in Nat /\ (text[c][i] <= received \/ (c = w /\ i <= arriving))
  BY <1>0 DEF Arriving, TypeOK
<1>4. \A i \in 1 .. arriving : text[w][i] = received + 1
  BY <1>0 DEF Arriving
<1>5. Arriving'
  <2>1. ASSUME NEW c \in Cell, NEW i \in 1 .. Blocks
        PROVE  text[c][i] <= received + 1
    <3>1. CASE text[c][i] <= received
      BY <1>0, <1>3, <3>1, SMT
    <3>2. CASE c = w /\ i <= arriving
      <4>1. i \in 1 .. arriving
        BY <1>0, <3>2, SMT
      <4> QED BY <1>0, <1>4, <3>2, <4>1, SMT
    <3> QED BY <1>3, <3>1, <3>2
  <2> QED BY <1>0, <1>1, <2>1, SMT DEF Arriving
<1>6. ASSUME ~overrun'
      PROVE  NotFull' /\ Waiting' /\ Taken'
  <2>1. CASE overrun
    <3>1. wptr' = rptr' /\ step' = "idle"
      BY <1>1, <1>6, <2>1
    <3>2. Pending' = 0
      BY <1>2, <3>1, BetweenIs DEF Pending, TypeOK
    <3> QED BY <1>0, <1>1, <3>1, <3>2, SMT DEF NotFull, Waiting, Taken
  <2>2. CASE ~overrun
    <3>1. NotFull /\ Waiting /\ Taken
      BY <2>2 DEF RingInv
    <3>2. Pending < Num
      BY <1>0, <1>1, <3>1, SMT DEF NotFull
    <3>3. Pending' = Pending + 1
      BY <1>0, <1>1, <3>2, OneMore DEF Pending, TypeOK
    <3>4. NotFull'
      BY <1>0, <1>1, <3>2, <3>3, SMT DEF NotFull
    <3>5. ASSUME NEW j \in 0 .. Pending
          PROVE  Holds(text[Index(rptr + j)], len'[Index(rptr + j)], received - Pending + 1 + j)
      <4>1. CASE j = Pending
        <5>1. Index(rptr + j) = w
          BY <1>0, <4>1, WriterCell DEF Pending, TypeOK
        <5>2. len'[w] = arriving /\ received - Pending + 1 + j = received + 1
          BY <1>0, <1>1, <4>1, SMT DEF TypeOK
        <5>3. ASSUME NEW i \in 1 .. Blocks
              PROVE  IF i <= arriving THEN text[w][i] = received + 1 ELSE text[w][i] < received + 1
          <6>1. CASE i <= arriving
            <7>1. i \in 1 .. arriving
              BY <1>0, <6>1, SMT
            <7> QED BY <1>4, <6>1, <7>1
          <6>2. CASE ~(i <= arriving)
            <7>1. text[w][i] \in Nat /\ text[w][i] <= received
              BY <1>0, <1>3, <6>2
            <7> QED BY <1>0, <6>2, <7>1, SMT
          <6> QED BY <6>1, <6>2
        <5> HIDE DEF w
        <5> QED BY <1>1, <5>1, <5>2, <5>3 DEF Holds
      <4>2. CASE j # Pending
        <5>1. j \in 0 .. Pending - 1
          BY <1>0, <4>2, SMT
        <5>2. Index(rptr + j) # w /\ Index(rptr + j) \in Cell
          BY <1>0, <3>2, <5>1, WriterApart, Ranges
        <5>3. len'[Index(rptr + j)] = len[Index(rptr + j)]
          BY <1>0, <1>1, <5>2 DEF TypeOK
        <5> QED BY <3>1, <5>1, <5>3 DEF Waiting
      <4> QED BY <4>1, <4>2
    <3>6. Waiting'
      <4>1. ASSUME NEW j \in 0 .. Pending' - 1
            PROVE  Holds(text[Index(rptr + j)], len'[Index(rptr + j)], received' - Pending' + 1 + j)
        <5>1. j \in 0 .. Pending /\ received' - Pending' + 1 + j = received - Pending + 1 + j
          BY <1>0, <1>1, <3>3, SMT
        <5> QED BY <3>5, <5>1
      <4> QED BY <1>1, <4>1 DEF Waiting
    <3>7. Taken'
      BY <1>0, <1>1, <3>3, SMT DEF Taken
    <3> QED BY <3>4, <3>6, <3>7
  <2> QED BY <2>1, <2>2
<1> QED BY <1>2, <1>5, <1>6 DEF RingInv

LEMMA PopKeeps == ASSUME RingInv, my_fifo_pop PROVE RingInv'
<1>0. /\ TypeOK /\ Arriving /\ Pending \in Nat /\ Num \in Nat \ {0}
      /\ received \in Nat /\ rptr \in Counters /\ rptr \in Int /\ Inc(rptr) \in Counters
  BY Ranges DEF RingInv, TypeOK
<1>1. /\ step = "pop" /\ step' = "idle" /\ rptr' = Inc(rptr)
      /\ overrun' = (overrun /\ rptr' # wptr)
      /\ UNCHANGED <<text, len, wptr, arriving, received>>
  BY DEF my_fifo_pop
<1>2. TypeOK'
  BY <1>0, <1>1 DEF TypeOK
<1>3. Arriving'
  BY <1>0, <1>1 DEF Arriving
<1>4. Taken'
  BY <1>1 DEF Taken
<1>5. ASSUME ~overrun'
      PROVE  NotFull' /\ Waiting'
  <2>1. CASE overrun
    <3>1. wptr' = rptr'
      BY <1>1, <1>5, <2>1
    <3>2. Pending' = 0
      BY <1>2, <3>1, BetweenIs DEF Pending, TypeOK
    <3> QED BY <1>0, <3>2, SMT DEF NotFull, Waiting
  <2>2. CASE ~overrun
    <3>1. NotFull /\ Waiting /\ Pending >= 1
      BY <1>1, <2>2 DEF RingInv, Taken
    <3>2. rptr # wptr
      BY <1>0, <3>1, BetweenIs, SMT DEF Pending, TypeOK
    <3>3. Pending' = Pending - 1
      BY <1>0, <1>1, <3>2, OneLess DEF Pending, TypeOK
    <3>4. NotFull'
      BY <1>0, <3>1, <3>3, SMT DEF NotFull
    <3>5. ASSUME NEW j \in 0 .. Pending' - 1
          PROVE  Holds(text[Index(rptr' + j)], len[Index(rptr' + j)], received - Pending' + 1 + j)
      <4>1. /\ j \in Int /\ j + 1 \in 0 .. Pending - 1
            /\ received - Pending' + 1 + j = received - Pending + 1 + (j + 1)
            /\ rptr + j + 1 = rptr + (j + 1)
        BY <1>0, <3>3, SMT
      <4>2. Index(rptr' + j) = Index(rptr + (j + 1))
        BY <1>0, <1>1, <4>1, ReaderMoves
      <4> QED BY <3>1, <4>1, <4>2 DEF Waiting
    <3> QED BY <1>1, <3>4, <3>5 DEF Waiting
  <2> QED BY <2>1, <2>2
<1> QED BY <1>2, <1>3, <1>4, <1>5 DEF RingInv

\* The other steps of the main loop leave the ring alone.
LEMMA HandleKeeps == ASSUME RingInv, Get \/ Echo \/ Parse \/ Transmit PROVE RingInv'
<1>0. TypeOK /\ Arriving /\ Pending \in Nat
  BY Ranges DEF RingInv
<1>1. UNCHANGED <<text, len, wptr, rptr, arriving, received, overrun>>
  BY DEF Get, Echo, Parse, Transmit, ring
<1>2. TypeOK' /\ Arriving' /\ UNCHANGED Pending
  BY <1>0, <1>1 DEF Get, Echo, Parse, Transmit, TypeOK, Arriving, Pending
<1>3. ASSUME ~overrun PROVE NotFull' /\ Waiting' /\ Taken'
  <2>1. NotFull /\ Waiting /\ Taken
    BY <1>3 DEF RingInv
  <2>2. NotFull' /\ Waiting'
    BY <1>1, <1>2, <2>1 DEF NotFull, Waiting
  <2>3. Taken'
    <3>1. CASE Get
      <4>1. rptr # wptr
        BY <3>1 DEF Get
      <4>2. Pending >= 1
        BY <1>0, <4>1, BetweenIs, SMT DEF Pending, TypeOK
      <4> QED BY <1>2, <4>2 DEF Taken
    <3>2. CASE Echo \/ Parse \/ Transmit
      BY <1>2, <2>1, <3>2 DEF Echo, Parse, Transmit, Taken
    <3> QED BY <3>1, <3>2
  <2> QED BY <2>2, <2>3
<1> QED BY <1>1, <1>2, <1>3 DEF RingInv

LEMMA NextRingInv == ASSUME RingInv, [Next]_vars PROVE RingInv'
<1>1. CASE UNCHANGED vars
  BY <1>1 DEF vars, ring, RingInv, TypeOK, Arriving, NotFull, Waiting, Taken, Pending
<1> QED BY <1>1, ReceiveKeeps, IrqKeeps, PopKeeps, HandleKeeps DEF Next, MainLoop

\* The ring's counters stay counters, and lengths fit the cells.
THEOREM RingType == Spec => []TypeOK
<1>1. Init => RingInv
  BY InitRingInv
<1>2. RingInv /\ [Next]_vars => RingInv'
  BY NextRingInv
<1>3. RingInv => TypeOK
  BY DEF RingInv
<1> QED BY <1>1, <1>2, <1>3, PTL DEF Spec

\* InTurn: the frame that is echoed, parsed and popped is the oldest one, whole
\* and with nothing newer behind it, unless the DMA overran the reader.
THEOREM HandledInTurn == Spec => []InTurn
<1>1. Init => RingInv
  BY InitRingInv
<1>2. RingInv /\ [Next]_vars => RingInv'
  BY NextRingInv
<1>3. ASSUME RingInv PROVE InTurn
  <2> SUFFICES ASSUME ~overrun, step # "idle"
               PROVE  LET c == Index(rptr)
                          handled == received - Pending
                      IN  /\ len[c] > 0
                          /\ \A i \in 1 .. Blocks :
                               IF i <= len[c] THEN text[c][i] = handled + 1 ELSE text[c][i] <= handled
    BY DEF InTurn
  <2> DEFINE c == Index(rptr)
  <2>0. TypeOK /\ Pending \in Nat /\ Pending >= 1 /\ rptr \in Int /\ received \in Nat /\ c \in Cell
    BY <1>3, Ranges DEF RingInv, Taken, TypeOK
  <2>1. Holds(text[Index(rptr + 0)], len[Index(rptr + 0)], received - Pending + 1 + 0)
    <3>1. 0 \in 0 .. Pending - 1
      BY <2>0, SMT
    <3> QED BY <1>3, <3>1 DEF RingInv, Waiting
  <2>2. rptr + 0 = rptr /\ received - Pending + 1 + 0 = received - Pending + 1
    BY <2>0, SMT
  <2>3. Holds(text[c], len[c], received - Pending + 1)
    BY <2>1, <2>2
  <2>4. \A i \in 1 .. Blocks : text[c][i] \in Nat
    BY <2>0 DEF TypeOK
  <2> HIDE DEF c
  <2>5. \A i \in 1 .. Blocks : IF i <= len[c] THEN text[c][i] = received - Pending + 1
                                              ELSE text[c][i] <= received - Pending
    BY <2>0, <2>3, <2>4, SMT DEF Holds
  <2> QED BY <2>3, <2>5 DEF Holds, c
<1> QED BY <1>1, <1>2, <1>3, PTL DEF Spec

-------------------------------------------------------------------------------
(* The bridge's command slot (C).                                          *)

\* What mesh_light_command_handle makes of a frame.
Made(f) == IF f.com.dest # 0 THEN [f.com EXCEPT !.flag = 1, !.type = f.action] ELSE f.com

\* Only the byte handler takes the slot.  While it is free nothing in it is
\* marked to be sent, so a taken slot holds what its frame asked for, or
\* nothing to send.
SlotInv ==
  /\ cmd_flag \in {0, 1}
  /\ build # "byte" => cmd_flag = 0
  /\ build = "byte" /\ cmd_flag = 0 => lig_com.flag = 0
  /\ cmd_flag = 1 =>
       /\ asked \in C!Frames
       /\ lig_com.flag = 0 \/ (asked.op = C!MESH_LIGHT_CMD /\ lig_com = Made(asked))

LEMMA ByteHandlerTakes ==
  ASSUME SlotInv, NEW f \in C!Frames, C!uart_byte_data_handle(f)
  PROVE  SlotInv'
<1>1. /\ build = "byte" /\ cmd_flag = 0 /\ cmd_flag' = 1 /\ asked' = f /\ build' = build
      /\ C!mesh_command_handle(f)
  BY DEF C!uart_byte_data_handle
<1>2. CASE f.op = C!MESH_LIGHT_CMD
  BY <1>1, <1>2 DEF SlotInv, C!mesh_command_handle, C!mesh_light_command_handle, Made
<1>3. CASE f.op # C!MESH_LIGHT_CMD
  <2>1. lig_com' = lig_com /\ lig_com.flag = 0
    BY <1>1, <1>3 DEF SlotInv, C!mesh_command_handle
  <2> QED BY <1>1, <2>1 DEF SlotInv
<1> QED BY <1>2, <1>3

LEMMA SlotNext ==
  ASSUME SlotInv, [C!Next]_(C!vars)
  PROVE  SlotInv'
<1>1. ASSUME NEW f \in C!Frames, C!uart_json_data_handle(f)
      PROVE  SlotInv'
  <2>1. build = "json" /\ UNCHANGED <<build, cmd_flag>>
    BY <1>1 DEF C!uart_json_data_handle
  <2> QED BY <2>1 DEF SlotInv
<1>2. CASE C!user_func_proc
  <2>1. cmd_flag = 1 /\ cmd_flag' = 0 /\ build' = build /\ lig_com.flag = 1
        /\ lig_com' = [lig_com EXCEPT !.flag = 0]
    BY <1>2 DEF C!user_func_proc
  <2>2. asked \in C!Frames /\ lig_com = Made(asked)
    BY <2>1 DEF SlotInv
  <2>3. lig_com'.flag = 0
    BY <2>1, <2>2 DEF Made, C!Frames, C!Control
  <2> QED BY <2>1, <2>3 DEF SlotInv
<1>3. CASE (\E l \in C!SubLists : C!Subscribe(l)) \/ UNCHANGED C!vars
  BY <1>3 DEF C!Subscribe, C!vars, SlotInv
<1> QED BY <1>1, <1>2, <1>3, ByteHandlerTakes DEF C!Next

\* A step that frees the slot sends what its frame asked for.
LEMMA SlotSends ==
  ASSUME C!SlotAssumption, SlotInv, C!user_func_proc
  PROVE  /\ build = "byte" /\ asked # None
         /\ asked.op = C!MESH_LIGHT_CMD
         /\ LET c == asked.com
            IN  IF c.dest # 0
                THEN /\ asked.action = C!MESH_CMD_LIGHT_ONOFF_SET
                     /\ sent' = {[to |-> c.dest, onoff |-> c.onoff]}
                ELSE /\ c.flag = 1
                     /\ \A m \in sent' : m.onoff = c.onoff /\ m.to \in C!SentAdr
<1>1. /\ cmd_flag = 1 /\ lig_com.flag = 1 /\ lig_com.type = C!MESH_CMD_LIGHT_ONOFF_SET
      /\ sent' = {[to |-> a, onoff |-> lig_com.onoff] :
                    a \in IF lig_com.dest # 0 THEN {lig_com.dest} ELSE C!SentAdr}
  BY DEF C!user_func_proc
<1>2. build = "byte" /\ asked \in C!Frames /\ asked.op = C!MESH_LIGHT_CMD /\ lig_com = Made(asked)
  BY <1>1 DEF SlotInv
<1>3. asked # None
  BY <1>2 DEF C!SlotAssumption
<1>4. CASE asked.com.dest # 0
  <2>1. /\ lig_com.dest = asked.com.dest /\ lig_com.onoff = asked.com.onoff
        /\ lig_com.type = asked.action
    BY <1>2, <1>4 DEF Made, C!Frames, C!Control
  <2> QED BY <1>1, <1>2, <1>3, <1>4, <2>1
<1>5. CASE asked.com.dest = 0
  <2>1. lig_com = asked.com
    BY <1>2, <1>5 DEF Made
  <2> QED BY <1>1, <1>2, <1>3, <1>5, <2>1
<1> QED BY <1>4, <1>5

-------------------------------------------------------------------------------
(* The switch (S).                                                         *)

\* A flag is a report that is due.
DueFor(flag) == IF flag THEN 1 ELSE 0
Due == DueFor(flag_long_pressed) + DueFor(flag_normal_pressed)

\* Reports made and due since a scan last saw the button are two at most;
\* before the first press there are none.
SwitchInv ==
  /\ reports \in Nat /\ flag_long_pressed \in BOOLEAN /\ flag_normal_pressed \in BOOLEAN
  /\ reports + Due <= 2
  /\ pin_last_pressed = 0 => reports + Due = 0

LEMMA DueIs ==
  /\ DueFor(TRUE) = 1 /\ DueFor(FALSE) = 0
  /\ \A flag \in BOOLEAN : DueFor(flag) \in {0, 1}
  BY Zenon DEF DueFor

\* A report made is one due less.
LEMMA CountKept ==
  ASSUME NEW r \in Nat, NEW new \in {r, r + 1}, NEW a \in {0, 1}, NEW b \in {0, 1},
         NEW a1 \in {0, 1}, NEW b1 \in {0, 1}, a1 + b1 + 1 = a + b, r + a + b <= 2
  PROVE  new \in Nat /\ new + a1 + b1 <= 2
  OBVIOUS

LEMMA ScanKeeps ==
  ASSUME SwitchInv, S!swt_test
  PROVE  SwitchInv'
<1> DEFINE long == DueFor(flag_long_pressed)
           normal == DueFor(flag_normal_pressed)
<1>1. /\ reports \in Nat /\ long \in {0, 1} /\ normal \in {0, 1}
      /\ reports + long + normal <= 2
      /\ pin_last_pressed = 0 => reports + long + normal = 0
  BY DueIs DEF SwitchInv, Due
<1>2. ASSUME /\ reports' \in Nat /\ flag_long_pressed' \in BOOLEAN /\ flag_normal_pressed' \in BOOLEAN
             /\ reports' + long' + normal' <= 2
             /\ pin_last_pressed' = 0 => reports' + long' + normal' = 0
      PROVE  SwitchInv'
  BY <1>2, DueIs DEF SwitchInv, Due
<1>3. ASSUME NEW p, p # 0, S!FirstPress(p)
      PROVE  SwitchInv'
  <2>1. /\ pin_last_pressed = 0 /\ pin_last_pressed' # 0 /\ reports' = 0
        /\ UNCHANGED <<flag_long_pressed, flag_normal_pressed>>
    BY <1>3 DEF S!FirstPress, S!flags
  <2> QED BY <1>1, <1>2, <2>1 DEF SwitchInv
<1>4. ASSUME NEW p, p # 0, S!Held(p)
      PROVE  SwitchInv'
  <2>1. /\ reports' = 0 /\ pin_last_pressed' # 0
        /\ flag_long_pressed' \in BOOLEAN /\ flag_normal_pressed' \in BOOLEAN
    BY <1>4, Zenon DEF S!Held
  <2>2. long' \in {0, 1} /\ normal' \in {0, 1}
    BY <2>1, DueIs
  <2> QED BY <1>2, <2>1, <2>2
<1>5. CASE S!ReportLong
  <2>1. /\ flag_long_pressed = TRUE /\ flag_long_pressed' = FALSE
        /\ flag_normal_pressed' = flag_normal_pressed
        /\ flag_long_pressed' \in BOOLEAN /\ flag_normal_pressed' \in BOOLEAN
    BY <1>5, Zenon DEF S!ReportLong, SwitchInv
  <2>2. reports' \in {reports, reports + 1} /\ pin_last_pressed' = pin_last_pressed
    BY <1>5 DEF S!ReportLong
  <2>3. long = 1 /\ long' = 0 /\ normal' = normal
    BY <2>1, DueIs, Zenon
  <2>4. /\ reports' \in Nat /\ reports' + long' + normal' <= 2
        /\ pin_last_pressed' = 0 => reports' + long' + normal' = 0
    <3>1. /\ long' \in {0, 1} /\ normal' \in {0, 1} /\ long' + normal' + 1 = long + normal
          /\ pin_last_pressed # 0
      BY <1>1, <2>3
    <3> HIDE DEF long, normal
    <3> QED BY <1>1, <2>2, <3>1, CountKept
  <2> QED BY <1>2, <2>1, <2>4, Zenon
<1>6. CASE S!ReportNormal
  <2>1. /\ flag_normal_pressed = TRUE /\ flag_normal_pressed' = FALSE
        /\ flag_long_pressed' = flag_long_pressed
        /\ flag_long_pressed' \in BOOLEAN /\ flag_normal_pressed' \in BOOLEAN
    BY <1>6, Zenon DEF S!ReportNormal, SwitchInv
  <2>2. reports' \in {reports, reports + 1} /\ pin_last_pressed' = pin_last_pressed
    BY <1>6 DEF S!ReportNormal
  <2>3. normal = 1 /\ normal' = 0 /\ long' = long
    BY <2>1, DueIs, Zenon
  <2>4. /\ reports' \in Nat /\ reports' + long' + normal' <= 2
        /\ pin_last_pressed' = 0 => reports' + long' + normal' = 0
    <3>1. /\ long' \in {0, 1} /\ normal' \in {0, 1} /\ long' + normal' + 1 = long + normal
          /\ pin_last_pressed # 0
      BY <1>1, <2>3
    <3> HIDE DEF long, normal
    <3> QED BY <1>1, <2>2, <3>1, CountKept
  <2> QED BY <1>2, <2>1, <2>4, Zenon
<1>7. ASSUME NEW p, S!Other(p) \/ S!Idle
      PROVE  SwitchInv'
  BY <1>7 DEF S!Other, S!Idle, S!flags, SwitchInv, Due
<1> QED BY <1>3, <1>4, <1>5, <1>6, <1>7 DEF S!swt_test

LEMMA SwitchNext ==
  ASSUME SwitchInv, [S!Next]_(S!vars)
  PROVE  SwitchInv'
<1>1. CASE S!Buttons \/ UNCHANGED S!vars
  BY <1>1 DEF S!Buttons, S!vars, S!flags, SwitchInv, Due
<1> QED BY <1>1, ScanKeeps DEF S!Next

-------------------------------------------------------------------------------
(* The programs as they run in one specification: a step of one of them    *)
(* leaves the others alone.                                                *)

LEMMA Parts == MCSpec => F!Spec /\ C!Init /\ [][C!Next]_(C!vars) /\ S!Init /\ [][S!Next]_(S!vars)
<1>1. MCInit => F!Init /\ C!Init /\ S!Init
  BY DEF MCInit
<1>2. [MCNext]_all => [F!Next]_(F!vars) /\ [C!Next]_(C!vars) /\ [S!Next]_(S!vars)
  BY DEF MCNext, all, fifo, slot, swt, F!vars, C!vars, S!vars, S!flags
<1> QED BY <1>1, <1>2, PTL DEF MCSpec, F!Spec

\* IsQueue: the ring of my_fifo implements a queue, whatever its size.
THEOREM RingIsQueue == MCSpec => IsQueue
<1>1. F!Init => FifoInv /\ F!Fifo!Init
  BY InitFifoInv, InitImplements
<1>2. FifoInv /\ [F!Next]_(F!vars) => FifoInv'
  BY NextFifoInv
<1>3. FifoInv /\ [F!Next]_(F!vars) => [F!Fifo!Next]_<<F!Queue, fOut>>
  BY NextImplements
<1> QED BY <1>1, <1>2, <1>3, Parts, PTL DEF F!Spec, IsQueue, F!IsQueue, F!Fifo!Spec

\* SendsWhatWasAsked: whatever frames come in and subscriptions change between
\* the frame that takes the slot and the pass that sends, that frame is what
\* is sent, for any addresses.
THEOREM SlotIsKept == MCSpec => SendsWhatWasAsked
<1> DEFINE Right ==
      /\ build = "byte" /\ asked # None
      /\ asked.op = C!MESH_LIGHT_CMD
      /\ LET c == asked.com
         IN  IF c.dest # 0
             THEN /\ asked.action = C!MESH_CMD_LIGHT_ONOFF_SET
                  /\ sent' = {[to |-> c.dest, onoff |-> c.onoff]}
             ELSE /\ c.flag = 1
                  /\ \A m \in sent' : m.onoff = c.onoff /\ m.to \in C!SentAdr
<1>1. C!Init => SlotInv
  BY DEF C!Init, SlotInv
<1>2. SlotInv /\ [C!Next]_(C!vars) => SlotInv'
  BY SlotNext
<1>3. SlotInv /\ [C!Next]_(C!vars) => [cmd_flag = 1 /\ cmd_flag' = 0 => Right]_(C!vars)
  <2>1. ASSUME SlotInv, C!Next, cmd_flag = 1, cmd_flag' = 0
        PROVE  C!user_func_proc
    BY <2>1 DEF C!Next, C!uart_byte_data_handle, C!uart_json_data_handle, C!Subscribe
  <2> QED BY <2>1, SlotSends, NodesAssumption
<1> QED BY <1>1, <1>2, <1>3, Parts, PTL DEF SendsWhatWasAsked, C!SendsWhatWasAsked

\* ReportsPress: however the buttons are pressed and wherever the clock wraps, a
\* press is reported at most twice, and nothing before the first one.
THEOREM AtMostTwo == MCSpec => []ReportsPress
<1>1. ASSUME S!Init PROVE SwitchInv
  <2>1. /\ flag_long_pressed = FALSE /\ flag_normal_pressed = FALSE
        /\ flag_long_pressed \in BOOLEAN /\ flag_normal_pressed \in BOOLEAN
    BY <1>1, Zenon DEF S!Init
  <2>2. reports = 0
    BY <1>1 DEF S!Init
  <2>3. DueFor(flag_long_pressed) = 0 /\ DueFor(flag_normal_pressed) = 0
    BY <2>1, DueIs, Zenon
  <2>4. reports \in Nat /\ reports + Due <= 2 /\ reports + Due = 0
    BY <2>2, <2>3 DEF Due
  <2> QED BY <2>1, <2>4, Zenon DEF SwitchInv
<1>2. SwitchInv /\ [S!Next]_(S!vars) => SwitchInv'
  BY SwitchNext
<1>3. ASSUME SwitchInv PROVE ReportsPress
  <2>1. DueFor(flag_long_pressed) \in {0, 1} /\ DueFor(flag_normal_pressed) \in {0, 1}
    BY <1>3, DueIs DEF SwitchInv
  <2>2. /\ reports <= 2 /\ (pin_last_pressed = 0 => reports = 0)
        /\ reports + DueFor(flag_long_pressed) + DueFor(flag_normal_pressed) <= 2
    BY <1>3, <2>1 DEF SwitchInv, Due
  <2> QED BY <2>2, Zenon DEF ReportsPress, S!ReportsPress, DueFor
<1> QED BY <1>1, <1>2, <1>3, Parts, PTL
================================================================================
