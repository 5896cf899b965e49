-------------------------- MODULE FriendNode_proofs --------------------------
(***************************************************************************)
(* Proofs about FriendNode, for any friends, cache size and retries.       *)
(*                                                                         *)
(* What a friend's record keeps by itself (SlotInv): once there is a       *)
(* friendship the cache is never empty, and the answer that waits is its   *)
(* head.  What it has in common with the low power node (IInv): only the   *)
(* friend the node chose has both a friendship and the node's keys, and    *)
(* when the node's sequence number is ahead of that friend's, the node has *)
(* the message at the head.                                                *)
(***************************************************************************)
EXTENDS FriendNode, WellFoundedInduction, TLAPS

-----------------------------------------------------------------------------

SlotInv(f, s) ==
  /\ s.link <=> s.status = "TIMEOUT_CHECK"
  /\ s.link <=> s.n > 0
  /\ s.status \in {"OFFER", "POLL"} => s.fsn = 1
  /\ s.delay = "poll" => s.link /\ s.rsp \in Positions /\ (s.over \/ s.rsp = s.r)
  /\ s.clear # "no" => s.link /\ s.pre \in Friends /\ s.pre # f

LpnInv(l) ==
  /\ l.status \in {"OFFER", "POLL"} => l.fsn = 0
  /\ l.status = "OFFER" => ~l.link
  /\ l.link => l.fri # None

\* The head of a record's cache is not a message the node has yet to get.
HeadIsRead(s) == s.over \/ Head(s).op = "ack" \/ Head(s).got

\* Of a record made from the last request: the friendship is with the friend the node
\* chose, and before it the node polls with sequence number 0.
PairInv(f, s, l) ==
  s.fresh =>
    /\ s.link => /\ l.link /\ l.fri = f
                 /\ l.fsn # s.fsn => HeadIsRead(s)
    /\ ~s.link /\ l.link /\ l.fri = f => l.fsn = 0

IInv ==
  /\ TypeOK
  /\ LpnInv(lpn)
  /\ \A f \in Friends : SlotInv(f, fn[f]) /\ PairInv(f, fn[f], lpn)

-----------------------------------------------------------------------------
(* The ring *)

LEMMA AtIs ==
  ASSUME NEW s \in Slot, NEW i \in 0 .. CacheSize
  PROVE  /\ At(s, i) \in Positions
         /\ i > 0 /\ i < CacheSize => At(s, i) # s.r
<1>1. CacheSize \in Nat \ {0} /\ s.r \in 0 .. CacheSize - 1
  BY ConstantsAssumption DEF Slot, Positions
<1>2. \A a \in 0 .. CacheSize + CacheSize - 1 :
        a % CacheSize = IF a < CacheSize THEN a ELSE a - CacheSize
  BY <1>1, SMTT(60)
<1> DEFINE a == s.r + i
<1>3. a \in 0 .. CacheSize + CacheSize - 1
  BY <1>1
<1>4. At(s, i) = IF a < CacheSize THEN a ELSE a - CacheSize
  BY <1>2, <1>3 DEF At
<1> QED BY <1>1, <1>3, <1>4 DEF Positions

\* A record keeps everything but its ring.
OutsideRing(s, t) ==
  /\ t.status = s.status /\ t.adr = s.adr /\ t.link = s.link /\ t.fresh = s.fresh
  /\ t.fsn = s.fsn /\ t.delay = s.delay /\ t.rsp = s.rsp
  /\ t.pre = s.pre /\ t.clear = s.clear /\ (s.over => t.over)

LEMMA PopSlot ==
  ASSUME NEW s \in Slot, s.n > 0
  PROVE  /\ Pop(s) \in Slot /\ OutsideRing(s, Pop(s))
         /\ Pop(s).n = s.n - 1 /\ Pop(s).over = s.over
<1>1. At(s, 1) \in Positions /\ s.n - 1 \in 0 .. CacheSize
  BY AtIs, ConstantsAssumption DEF Slot
<1>2. NoMessage \in Message
  BY DEF NoMessage, New, Message, Ops
<1> QED BY <1>1, <1>2 DEF Pop, Slot, OutsideRing

\* A pushed message goes behind the head, unless the ring runs over.
LEMMA PushSlot ==
  ASSUME NEW s \in Slot, NEW op \in Ops
  PROVE  /\ Push(s, op) \in Slot /\ OutsideRing(s, Push(s, op))
         /\ Push(s, op).n > 0
         /\ \/ Push(s, op).over
            \/ Push(s, op).r = s.r /\ (s.n > 0 => Head(Push(s, op)) = Head(s))
<1> DEFINE q == IF s.n = CacheSize THEN [Pop(s) EXCEPT !.over = TRUE] ELSE s
<1>0. CacheSize \in Nat \ {0} /\ s.n \in 0 .. CacheSize
  BY ConstantsAssumption DEF Slot
<1>1. q \in Slot /\ OutsideRing(s, q) /\ q.n < CacheSize
      /\ (s.n = CacheSize => q.over) /\ (s.n # CacheSize => q = s)
  <2>1. CASE s.n = CacheSize
    <3>1. Pop(s) \in Slot /\ OutsideRing(s, Pop(s)) /\ Pop(s).n = s.n - 1
      BY <1>0, <2>1, PopSlot
    <3>2. q = [Pop(s) EXCEPT !.over = TRUE]
      BY <2>1
    <3>3. \A x \in Slot : /\ [x EXCEPT !.over = TRUE] \in Slot
                          /\ OutsideRing(x, [x EXCEPT !.over = TRUE])
                          /\ [x EXCEPT !.over = TRUE].n = x.n
                          /\ [x EXCEPT !.over = TRUE].over
      BY DEF Slot, OutsideRing
    <3>4. q \in Slot /\ OutsideRing(Pop(s), q) /\ q.n = Pop(s).n /\ q.over
      BY <3>1, <3>2, <3>3
    <3> QED BY <1>0, <2>1, <3>1, <3>4 DEF OutsideRing
  <2>2. CASE s.n # CacheSize
    BY <1>0, <2>2 DEF Slot, OutsideRing
  <2> QED BY <2>1, <2>2
<1> HIDE DEF q
<1>2. q.n \in 0 .. CacheSize - 1 /\ q.n + 1 \in 0 .. CacheSize
  BY <1>0, <1>1 DEF Slot
<1>3. At(q, q.n) \in Positions /\ (q.n > 0 => At(q, q.n) # q.r)
  BY <1>0, <1>1, <1>2, AtIs
<1>4. New(op) \in Message
  BY DEF New, Message
<1>5. Push(s, op) = [q EXCEPT !.cell[At(q, q.n)] = New(op), !.n = @ + 1]
  BY DEF Push, q
<1>6. Push(s, op) \in Slot /\ OutsideRing(q, Push(s, op))
      /\ Push(s, op).n = q.n + 1 /\ Push(s, op).over = q.over /\ Push(s, op).r = q.r
      /\ Push(s, op).cell = [q.cell EXCEPT ![At(q, q.n)] = New(op)]
  <2>1. [q.cell EXCEPT ![At(q, q.n)] = New(op)] \in [Positions -> Message]
    BY <1>1, <1>3, <1>4 DEF Slot
  <2>2. Push(s, op) = [q EXCEPT !.cell = [q.cell EXCEPT ![At(q, q.n)] = New(op)],
                                !.n = q.n + 1]
    BY <1>1, <1>5 DEF Slot
  <2> QED BY <1>1, <1>2, <2>1, <2>2 DEF Slot, OutsideRing
<1>7. q.n > 0 => Head(Push(s, op)) = Head(q)
  BY <1>1, <1>3, <1>6 DEF Head, Slot
<1> QED
  BY <1>1, <1>2, <1>6, <1>7 DEF OutsideRing

\* The head is only ever replaced by an acknowledgement, when it is one itself.
LEMMA ToCacheSlot ==
  ASSUME NEW s \in Slot, NEW op \in Ops
  PROVE  /\ ToCache(s, op) \in Slot /\ OutsideRing(s, ToCache(s, op))
         /\ ToCache(s, op).n > 0
         /\ \/ ToCache(s, op).over
            \/ /\ ToCache(s, op).r = s.r
               /\ s.n > 0 => \/ Head(ToCache(s, op)) = Head(s)
                             \/ Head(ToCache(s, op)).op = "ack"
<1>1. CASE Replaceable(s, op) = {}
  BY <1>1, PushSlot DEF ToCache
<1>2. CASE Replaceable(s, op) # {}
  <2> DEFINE i == CHOOSE i \in Replaceable(s, op) : \A j \in Replaceable(s, op) : i <= j
             t == [s EXCEPT !.cell[At(s, i)].got = FALSE]
  <2>1. ToCache(s, op) = t
    BY <1>2 DEF ToCache
  <2>2. t \in Slot /\ OutsideRing(s, t) /\ t.n = s.n /\ t.r = s.r
        /\ t.cell = [s.cell EXCEPT ![At(s, i)].got = FALSE]
    <3>1. t = [s EXCEPT !.cell = [s.cell EXCEPT ![At(s, i)].got = FALSE]]
      BY DEF Slot
    <3>2. [s.cell EXCEPT ![At(s, i)].got = FALSE] \in [Positions -> Message]
      BY DEF Slot, Message
    <3> HIDE DEF i
    <3> QED BY <3>1, <3>2 DEF Slot, OutsideRing
  <2>3. s.n > 0
    BY <1>2 DEF Replaceable, Slot
  <2>4. i \in Replaceable(s, op)
    <3>1. Replaceable(s, op) \subseteq Nat
      BY DEF Replaceable, Slot
    <3> DEFINE Less == OpToRel(<, Nat)
    <3>2. \A k, l \in Nat : k < l => <<k, l>> \in Less
      BY DEF OpToRel
    <3>3. IsWellFoundedOn(Less, Nat)
      BY NatLessThanWellFounded
    <3> HIDE DEF Less
    <3>4. \E j \in Replaceable(s, op) :
            \A k \in Replaceable(s, op) : ~(<<k, j>> \in Less)
      BY <1>2, <3>1, <3>3, WFMin
    <3>5. PICK j \in Replaceable(s, op) :
            \A k \in Replaceable(s, op) : ~(<<k, j>> \in Less)
      BY <3>4
    <3>6. \A k \in Replaceable(s, op) : ~(k < j)
      BY <3>1, <3>2, <3>5, Zenon
    <3>7. \A k \in Replaceable(s, op) : j <= k
      BY <3>1, <3>6
    <3> QED BY <3>7
  <2> HIDE DEF i
  <2>5. i \in 0 .. CacheSize /\ i < s.n
    BY <2>4, ConstantsAssumption DEF Replaceable, Slot
  <2>6. ASSUME i > 0 PROVE Head(t) = Head(s)
    <3>1. At(s, i) # s.r
      BY <2>5, <2>6, AtIs, ConstantsAssumption DEF Slot
    <3>2. t.cell[s.r] = s.cell[s.r]
      BY <2>2, <3>1 DEF Slot
    <3> QED BY <2>2, <3>2 DEF Head
  <2>7. ASSUME i = 0 PROVE Head(t).op = "ack"
    <3>1. At(s, 0) = s.r
      BY ConstantsAssumption DEF At, Slot, Positions
    <3>2. s.cell[s.r].op = "ack"
      BY <2>4, <2>7, <3>1 DEF Replaceable
    <3>3. t.cell[s.r].op = "ack"
      BY <2>2, <2>7, <3>1, <3>2 DEF Slot, Message
    <3> QED BY <2>2, <3>3 DEF Head
  <2> QED BY <2>1, <2>2, <2>3, <2>5, <2>6, <2>7
<1> QED BY <1>1, <1>2

-----------------------------------------------------------------------------
(* The records *)

\* An empty record keeps SlotInv, and so does one made from a request.
LEMMA ClearedSlot ==
  /\ Cleared \in Slot
  /\ \A f \in Friends : SlotInv(f, Cleared)
<1>1. 0 \in Positions /\ 0 \in 0 .. CacheSize
  BY ConstantsAssumption DEF Positions
<1>2. [p \in Positions |-> NoMessage] \in [Positions -> Message]
  BY DEF NoMessage, New, Message, Ops
<1> QED BY <1>1, <1>2 DEF Cleared, Slot, SlotInv

LEMMA RequestSlot ==
  ASSUME NEW pre \in Friends \cup {None}
  PROVE  /\ OnRequest(pre) \in Slot /\ OnRequest(pre).fresh /\ ~OnRequest(pre).link
         /\ OnRequest(pre).clear = "no"
         /\ \A f \in Friends : SlotInv(f, OnRequest(pre))
<1>1. Cleared \in Slot
  BY ClearedSlot
<1>2. /\ OnRequest(pre).status = "OFFER" /\ OnRequest(pre).fsn = 1
      /\ OnRequest(pre).n = 0 /\ OnRequest(pre).delay = "none"
      /\ OnRequest(pre).clear = "no" /\ ~OnRequest(pre).link /\ OnRequest(pre).fresh
  BY DEF OnRequest, Cleared
<1>3. OnRequest(pre) \in Slot
  BY <1>1 DEF OnRequest, Slot
<1> QED BY <1>2, <1>3 DEF SlotInv

\* A poll makes the friendship, if there is none, and leaves a message to answer with.
\* It takes none away when it has the number of the poll before.
LEMMA PollSlot ==
  ASSUME NEW f \in Friends, NEW s \in Slot, SlotInv(f, s), s.status # "IDLE",
         NEW fsn \in {0, 1}, s.status \in {"OFFER", "POLL"} => fsn = 0
  PROVE  /\ OnPoll(f, s, fsn) \in Slot /\ SlotInv(f, OnPoll(f, s, fsn))
         /\ OnPoll(f, s, fsn).link /\ OnPoll(f, s, fsn).fresh = s.fresh
         /\ OnPoll(f, s, fsn).fsn = fsn
         /\ s.over => OnPoll(f, s, fsn).over
         /\ s.link /\ s.fsn = fsn => OnPoll(f, s, fsn).r = s.r
<1> DEFINE e == Established(f, s)
           q == IF e.n > 0 THEN Pop(e) ELSE e
           u == IF q.n = 0 THEN ToCache(q, "update") ELSE q
           m == NextMessage(e, fsn)
           t == OnPoll(f, s, fsn)
<1>1. /\ e \in Slot /\ e.link /\ e.n = s.n /\ e.fsn = s.fsn /\ e.fresh = s.fresh
      /\ e.over = s.over /\ e.r = s.r
      /\ e.clear # "no" => e.pre \in Friends /\ e.pre # f
  <2>1. CASE s.status \notin {"OFFER", "POLL"}
    <3>1. e = s
      BY <2>1 DEF Established
    <3>2. s.link
      BY <2>1 DEF Slot, SlotInv
    <3> HIDE DEF e
    <3> QED BY <3>1, <3>2 DEF SlotInv
  <2>2. CASE s.status \in {"OFFER", "POLL"}
    <3>1. e = [s EXCEPT !.link = TRUE,
                        !.clear = IF s.pre \in {None, f} THEN "no" ELSE "due"]
      BY <2>2 DEF Established
    <3> HIDE DEF e
    <3> QED BY <3>1 DEF Slot
  <2> QED BY <2>1, <2>2
<1> HIDE DEF e
<1>2. /\ q \in Slot /\ q.link /\ q.fresh = s.fresh /\ q.over = s.over
      /\ q.clear # "no" => q.pre \in Friends /\ q.pre # f
  BY <1>1, PopSlot DEF Slot, OutsideRing
<1> HIDE DEF q
<1>3. /\ u \in Slot /\ u.link /\ u.fresh = s.fresh /\ (s.over => u.over) /\ u.n > 0
      /\ u.clear # "no" => u.pre \in Friends /\ u.pre # f
  <2>1. CASE q.n = 0
    BY <1>2, <2>1, ToCacheSlot DEF OutsideRing, Ops
  <2>2. CASE q.n # 0
    BY <1>2, <2>2 DEF Slot
  <2> QED BY <2>1, <2>2
<1> HIDE DEF u
<1>4. /\ m \in Slot /\ m.link /\ m.fresh = s.fresh /\ (s.over => m.over) /\ m.n > 0
      /\ m.fsn = fsn /\ (s.link /\ s.fsn = fsn => m.r = s.r)
      /\ m.clear # "no" => m.pre \in Friends /\ m.pre # f
  <2>1. CASE e.fsn = fsn
    <3>1. m = e
      BY <2>1 DEF NextMessage
    <3>2. s.link
      BY <1>1, <2>1 DEF Slot, SlotInv
    <3> HIDE DEF m
    <3> QED BY <1>1, <2>1, <3>1, <3>2 DEF SlotInv, Slot
  <2>2. CASE e.fsn # fsn
    <3>1. m = [u EXCEPT !.fsn = fsn]
      BY <2>2 DEF NextMessage, u, q
    <3> HIDE DEF m
    <3> QED BY <1>1, <1>3, <2>2, <3>1 DEF Slot
  <2> QED BY <2>1, <2>2
<1>5. t = [m EXCEPT !.delay = "poll", !.rsp = m.r, !.status = "TIMEOUT_CHECK"]
  BY <1>4 DEF OnPoll, Answering, e
<1> HIDE DEF m, t
<1>6. t \in Slot /\ SlotInv(f, t)
  BY <1>4, <1>5 DEF Slot, SlotInv
<1>7. /\ t.link = m.link /\ t.fresh = m.fresh /\ t.fsn = m.fsn /\ t.over = m.over
      /\ t.r = m.r
  BY <1>4, <1>5 DEF Slot
<1> QED BY <1>4, <1>6, <1>7 DEF t

\* What is cached does not disturb what the node was sent.
LEMMA CacheSlot ==
  ASSUME NEW f \in Friends, NEW s \in Slot, SlotInv(f, s), s.link, NEW op \in Ops
  PROVE  /\ ToCache(s, op) \in Slot /\ SlotInv(f, ToCache(s, op))
         /\ ToCache(s, op).link /\ ToCache(s, op).fresh = s.fresh
         /\ ToCache(s, op).fsn = s.fsn /\ ToCache(s, op).adr = s.adr
         /\ ToCache(s, op).over \/ ToCache(s, op).r = s.r
         /\ HeadIsRead(s) => HeadIsRead(ToCache(s, op))
<1> DEFINE t == ToCache(s, op)
<1>1. /\ t \in Slot /\ OutsideRing(s, t) /\ t.n > 0
      /\ \/ t.over
         \/ t.r = s.r /\ (s.n > 0 => Head(t) = Head(s) \/ Head(t).op = "ack")
  BY ToCacheSlot
<1>2. s.n > 0
  BY DEF SlotInv
<1> HIDE DEF t
<1>3. SlotInv(f, t)
  BY <1>1, <1>2 DEF SlotInv, OutsideRing
<1>4. HeadIsRead(s) => HeadIsRead(t)
  BY <1>1, <1>2 DEF HeadIsRead, OutsideRing
<1> QED BY <1>1, <1>3, <1>4 DEF OutsideRing, t

\* The answer is sent, whether the node hears it or not.
Sent(s) ==
  [s EXCEPT !.delay = "none", !.rsp = None, !.clear = IF @ = "due" THEN "on" ELSE @]

LEMMA SentSlot ==
  ASSUME NEW f \in Friends, NEW s \in Slot, SlotInv(f, s)
  PROVE  /\ Sent(s) \in Slot /\ SlotInv(f, Sent(s))
         /\ Sent(s).link = s.link /\ Sent(s).fresh = s.fresh /\ Sent(s).fsn = s.fsn
         /\ Sent(s).over = s.over /\ Sent(s).r = s.r /\ Sent(s).cell = s.cell
<1> DEFINE t == Sent(s)
<1>1. t = [s EXCEPT !.delay = "none", !.rsp = None,
                    !.clear = IF s.clear = "due" THEN "on" ELSE s.clear]
  BY DEF Sent, Slot
<1> HIDE DEF t
<1>2. /\ t \in Slot /\ t.delay = "none"
      /\ t.link = s.link /\ t.fresh = s.fresh /\ t.fsn = s.fsn /\ t.status = s.status
      /\ t.over = s.over /\ t.r = s.r /\ t.cell = s.cell /\ t.n = s.n /\ t.pre = s.pre
      /\ t.clear # "no" => s.clear # "no"
  BY <1>1 DEF Slot
<1>3. SlotInv(f, t)
  BY <1>2 DEF SlotInv
<1> QED BY <1>2, <1>3 DEF t

\* The node hears it: the head of the cache is read.
LEMMA GotSlot ==
  ASSUME NEW f \in Friends, NEW s \in Slot, SlotInv(f, s), s.delay = "poll"
  PROVE  LET t == Sent([s EXCEPT !.cell[s.rsp].got = TRUE])
         IN  /\ t \in Slot /\ SlotInv(f, t) /\ HeadIsRead(t)
             /\ t.link /\ t.fresh = s.fresh /\ t.r = s.r
<1> DEFINE u == [s EXCEPT !.cell[s.rsp].got = TRUE]
           t == Sent(u)
<1>1. s.rsp \in Positions /\ s.link /\ (s.over \/ s.rsp = s.r) /\ s.r \in Positions
  BY DEF SlotInv, Slot
<1>2. u = [s EXCEPT !.cell = [s.cell EXCEPT ![s.rsp].got = TRUE]]
  BY DEF Slot
<1>3. [s.cell EXCEPT ![s.rsp].got = TRUE] \in [Positions -> Message]
  BY <1>1 DEF Slot, Message
<1>4. [s.cell EXCEPT ![s.rsp].got = TRUE][s.rsp].got
  BY <1>1 DEF Slot, Message
<1> HIDE DEF u
<1>5. /\ u \in Slot /\ u.link = s.link /\ u.fresh = s.fresh /\ u.fsn = s.fsn
      /\ u.status = s.status /\ u.over = s.over /\ u.r = s.r /\ u.n = s.n
      /\ u.pre = s.pre /\ u.clear = s.clear /\ u.delay = s.delay /\ u.rsp = s.rsp
      /\ u.cell[s.rsp].got
  BY <1>2, <1>3, <1>4 DEF Slot
<1>6. SlotInv(f, u)
  BY <1>5 DEF SlotInv
<1>7. u.over \/ u.cell[u.r].got
  BY <1>1, <1>5
<1>8. /\ t \in Slot /\ SlotInv(f, t)
      /\ t.link = u.link /\ t.fresh = u.fresh
      /\ t.over = u.over /\ t.r = u.r /\ t.cell = u.cell
  BY <1>5, <1>6, SentSlot
<1> HIDE DEF t
<1>9. HeadIsRead(t)
  BY <1>7, <1>8 DEF HeadIsRead, Head
<1> QED BY <1>1, <1>5, <1>8, <1>9 DEF t, u

\* A confirmation of the subscription list takes the place of the answer.
LEMMA SubsSlot ==
  ASSUME NEW f \in Friends, NEW s \in Slot, SlotInv(f, s)
  PROVE  /\ OnSubsList(s) \in Slot /\ SlotInv(f, OnSubsList(s))
         /\ OnSubsList(s).link = s.link /\ OnSubsList(s).fresh = s.fresh
         /\ OnSubsList(s).fsn = s.fsn /\ OnSubsList(s).r = s.r
         /\ HeadIsRead(s) => HeadIsRead(OnSubsList(s))
<1> DEFINE t == OnSubsList(s)
<1>1. t = [s EXCEPT !.delay = "subsc", !.rsp = None]
  BY DEF OnSubsList
<1> HIDE DEF t
<1>2. /\ t \in Slot /\ t.delay = "subsc"
      /\ t.link = s.link /\ t.fresh = s.fresh /\ t.fsn = s.fsn /\ t.status = s.status
      /\ t.over = s.over /\ t.r = s.r /\ t.cell = s.cell /\ t.n = s.n /\ t.pre = s.pre
      /\ t.clear = s.clear
  BY <1>1 DEF Slot
<1> QED BY <1>2 DEF t, SlotInv, HeadIsRead, Head

-----------------------------------------------------------------------------
(* The steps *)

LEMMA InitInv ==
  Init => IInv
<1> SUFFICES ASSUME Init PROVE IInv
  OBVIOUS
<1>1. lpn \in Lpn /\ LpnInv(lpn)
  BY ConstantsAssumption DEF Init, Lpn, LpnInv
<1>2. \A f \in Friends : fn[f] \in Slot /\ SlotInv(f, fn[f]) /\ PairInv(f, fn[f], lpn)
  BY ClearedSlot DEF Init, PairInv, Cleared
<1>3. fn \in [Friends -> Slot]
  BY ClearedSlot DEF Init
<1> QED BY <1>1, <1>2, <1>3 DEF IInv, TypeOK

\* Only the low power node changes.
LEMMA LpnAlone ==
  ASSUME IInv, fn' = fn, lpn' \in Lpn, LpnInv(lpn'),
         \A f \in Friends : PairInv(f, fn[f], lpn) => PairInv(f, fn[f], lpn')
  PROVE  IInv'
BY DEF IInv, TypeOK

\* One friend changes, and the node's sequence number when it is the node's friend.
LEMMA OneRecord ==
  ASSUME IInv, NEW f \in Friends, NEW t \in Slot, fn' = [fn EXCEPT ![f] = t],
         SlotInv(f, t), PairInv(f, t, lpn'), lpn' \in Lpn, LpnInv(lpn'),
         lpn'.link = lpn.link, lpn'.fri = lpn.fri,
         lpn'.fsn = lpn.fsn \/ lpn.fri = f
  PROVE  IInv'
<1>1. fn' \in [Friends -> Slot] /\ fn'[f] = t
  BY DEF IInv, TypeOK
<1>2. ASSUME NEW g \in Friends, g # f
      PROVE  SlotInv(g, fn'[g]) /\ PairInv(g, fn'[g], lpn')
  <2>1. fn'[g] = fn[g] /\ SlotInv(g, fn[g]) /\ PairInv(g, fn[g], lpn)
    BY <1>2 DEF IInv, TypeOK
  <2>2. PairInv(g, fn[g], lpn')
    BY <1>2, <2>1 DEF PairInv
  <2> QED BY <2>1, <2>2
<1> QED BY <1>1, <1>2 DEF IInv, TypeOK

\* With a new request no friendship has the node's keys.
LEMMA RequestInv ==
  ASSUME IInv, NEW l \in Lpn, NEW H \in SUBSET Friends, SendRequest(l, H)
  PROVE  IInv'
<1> DEFINE t(f) == IF f \in H THEN OnRequest(l.pre) ELSE [fn[f] EXCEPT !.fresh = FALSE]
<1>1. fn' = [f \in Friends |-> t(f)]
  BY DEF SendRequest
<1>2. /\ lpn' \in Lpn /\ LpnInv(lpn') /\ ~lpn'.link
  BY DEF SendRequest, Lpn, LpnInv
<1>3. ASSUME NEW f \in Friends
      PROVE  t(f) \in Slot /\ SlotInv(f, t(f)) /\ PairInv(f, t(f), lpn')
  <2>1. CASE f \in H
    <3>1. l.pre \in Friends \cup {None}
      BY DEF Lpn
    <3> QED BY <1>2, <2>1, <3>1, RequestSlot DEF PairInv
  <2>2. CASE f \notin H
    <3>1. fn[f] \in Slot /\ SlotInv(f, fn[f])
      BY DEF IInv, TypeOK
    <3>2. t(f) = [fn[f] EXCEPT !.fresh = FALSE]
      BY <2>2
    <3> HIDE DEF t
    <3> QED BY <3>1, <3>2 DEF Slot, SlotInv, PairInv
  <2> QED BY <2>1, <2>2
<1> HIDE DEF t
<1>4. fn' \in [Friends -> Slot] /\ \A f \in Friends : fn'[f] = t(f)
  BY <1>1, <1>3
<1> QED BY <1>2, <1>3, <1>4 DEF IInv, TypeOK

\* What a friend's record is when a poll reaches it.
LEMMA ReachedSlot ==
  ASSUME IInv, lpn.link, Reached(lpn.fri)
  PROVE  /\ lpn.fri \in Friends /\ fn[lpn.fri] \in Slot /\ SlotInv(lpn.fri, fn[lpn.fri])
         /\ fn[lpn.fri].fresh /\ fn[lpn.fri].status # "IDLE"
         /\ fn[lpn.fri].status \in {"OFFER", "POLL"} => lpn.fsn = 0
         /\ lpn.fsn \in {0, 1}
         /\ fn[lpn.fri].link /\ fn[lpn.fri].fsn # lpn.fsn => HeadIsRead(fn[lpn.fri])
<1>1. lpn.fri \in Friends /\ lpn.fsn \in {0, 1}
  BY DEF IInv, LpnInv, TypeOK, Lpn
<1>2. fn[lpn.fri] \in Slot /\ SlotInv(lpn.fri, fn[lpn.fri]) /\ PairInv(lpn.fri, fn[lpn.fri], lpn)
  BY <1>1 DEF IInv, TypeOK
<1> QED BY <1>1, <1>2 DEF Reached, SlotInv, PairInv

LEMMA PollInv ==
  ASSUME IInv, NEW heard \in BOOLEAN, SendPoll(lpn.fsn, heard),
         lpn' \in Lpn, LpnInv(lpn'),
         lpn'.link = lpn.link, lpn'.fri = lpn.fri, lpn'.fsn = lpn.fsn
  PROVE  IInv'
<1>1. CASE ~heard
  <2>1. fn' = fn
    BY <1>1 DEF SendPoll
  <2> QED BY <2>1, LpnAlone DEF PairInv
<1>2. CASE heard
  <2> DEFINE f == lpn.fri
             t == OnPoll(f, fn[f], lpn.fsn)
  <2>1. lpn.link /\ Reached(f) /\ fn' = [fn EXCEPT ![f] = t]
    BY <1>2 DEF SendPoll
  <2>2. t \in Slot /\ SlotInv(f, t) /\ t.link /\ t.fsn = lpn.fsn
    BY <2>1, ReachedSlot, PollSlot
  <2>3. PairInv(f, t, lpn')
    BY <2>1, <2>2 DEF PairInv
  <2>4. f \in Friends
    BY <2>1, ReachedSlot
  <2> HIDE DEF t
  <2> QED BY <2>1, <2>2, <2>3, <2>4, OneRecord
<1> QED BY <1>1, <1>2

\* The values the repetitions are set to are in their ranges.
LEMMA RetryRange ==
  /\ 0 \in 0 .. FRI_POLL_RETRY_MAX
  /\ FRI_POLL_RETRY_MAX \in 0 .. FRI_POLL_RETRY_MAX
  /\ 0 \in 0 .. (FRI_GET_UPDATE_RETRY_MAX + FRI_POLL_RETRY_MAX + 1)
  /\ FRI_GET_UPDATE_RETRY_MAX + 1
       \in 0 .. (FRI_GET_UPDATE_RETRY_MAX + FRI_POLL_RETRY_MAX + 1)
  /\ FRI_POLL_RETRY_MAX + 1
       \in 0 .. (FRI_GET_UPDATE_RETRY_MAX + FRI_POLL_RETRY_MAX + 1)
BY ConstantsAssumption

\* An answer that is heard leaves the head of the friend's cache read.
LEMMA GetRecord ==
  ASSUME IInv, NEW f \in Friends, fn[f].delay = "poll", Listens(f),
         GetMessage(f, fn[f].rsp)
  PROVE  /\ \E t \in Slot : /\ fn' = [fn EXCEPT ![f] = t] /\ SlotInv(f, t)
                            /\ HeadIsRead(t) /\ t.link /\ t.r = fn[f].r
         /\ lpn' \in Lpn /\ lpn'.link = lpn.link /\ lpn'.fri = lpn.fri
         /\ lpn'.status \in {lpn.status, "IDLE"}
<1> DEFINE s == fn[f]
           u == [s EXCEPT !.cell[s.rsp].got = TRUE]
           t == Sent(u)
           first == lpn.status = "UPDATE" /\ s.cell[s.rsp].op = "update"
<1>1. s \in Slot /\ SlotInv(f, s) /\ lpn \in Lpn
  BY DEF IInv, TypeOK
<1>fsn. lpn.fsn \in {0, 1} /\ 1 - lpn.fsn \in {0, 1}
  BY <1>1 DEF Lpn
<1>2. t \in Slot /\ SlotInv(f, t) /\ HeadIsRead(t) /\ t.link /\ t.r = s.r
  BY <1>1, GotSlot
<1>3. t = [s EXCEPT !.cell[s.rsp].got = TRUE, !.delay = "none", !.rsp = None,
                    !.clear = IF @ = "due" THEN "on" ELSE @]
  BY <1>1 DEF Sent, Slot
<1> HIDE DEF t
<1>4. CASE ~first
  <2>1. /\ lpn' = [lpn EXCEPT !.retry = 0, !.fsn = 1 - @]
        /\ fn' = [fn EXCEPT ![f] = t]
    BY <1>3, <1>4 DEF GetMessage
  <2>2. /\ lpn' \in Lpn /\ lpn'.status = lpn.status
        /\ lpn'.link = lpn.link /\ lpn'.fri = lpn.fri
    BY <1>fsn, <1>1, <2>1, RetryRange DEF Lpn
  <2> QED BY <1>2, <2>1, <2>2
<1>5. CASE first
  <2>1. PICK k \in {0, FRI_POLL_RETRY_MAX}, heard \in BOOLEAN :
          /\ lpn' = [lpn EXCEPT !.retry = 0, !.fsn = 1 - @, !.status = "IDLE", !.pre = f,
                                !.subRetry = k]
          /\ fn' = [fn EXCEPT ![f] = IF k > 0 /\ heard THEN OnSubsList(t) ELSE t]
    BY <1>3, <1>5, SMTT(30) DEF GetMessage
  <2> DEFINE v == IF k > 0 /\ heard THEN OnSubsList(t) ELSE t
  <2>2. v \in Slot /\ SlotInv(f, v) /\ HeadIsRead(v) /\ v.link /\ v.r = s.r
    BY <1>2, SubsSlot
  <2>3. /\ lpn' \in Lpn /\ lpn'.status = "IDLE"
        /\ lpn'.link = lpn.link /\ lpn'.fri = lpn.fri
    BY <1>fsn, <1>1, <2>1, RetryRange DEF Lpn
  <2>4. fn' = [fn EXCEPT ![f] = v]
    BY <2>1
  <2> HIDE DEF v
  <2> QED BY <2>2, <2>3, <2>4
<1> QED BY <1>4, <1>5

\* The answers change the node's sequence number and its friend's record together.
LEMMA GetInv ==
  ASSUME IInv, NEW f \in Friends, fn[f].delay = "poll", Listens(f),
         GetMessage(f, fn[f].rsp)
  PROVE  IInv'
<1>1. PICK t \in Slot : /\ fn' = [fn EXCEPT ![f] = t] /\ SlotInv(f, t)
                        /\ HeadIsRead(t) /\ t.link /\ t.r = fn[f].r
  BY GetRecord
<1>2. /\ lpn' \in Lpn /\ lpn'.link = lpn.link /\ lpn'.fri = lpn.fri
      /\ lpn'.status \in {lpn.status, "IDLE"}
  BY GetRecord
<1>3. lpn.link /\ lpn.fri = f /\ lpn.status \in {"IDLE", "UPDATE"}
  BY DEF Listens
<1>4. LpnInv(lpn')
  BY <1>2, <1>3 DEF IInv, LpnInv
<1>5. PairInv(f, t, lpn')
  BY <1>1, <1>2, <1>3 DEF PairInv
<1> QED BY <1>1, <1>2, <1>3, <1>4, <1>5, OneRecord

LEMMA LpnStepInv ==
  ASSUME IInv
  PROVE  /\ LpnRequest => IInv'
         /\ LpnOfferEnd \/ LpnNoOffer \/ LpnUpdateFail \/ LpnWakeAlone
              \/ LpnWorkingTimeout => IInv'
         /\ LpnPollFail \/ LpnSubFail => IInv'
         /\ \A heard \in BOOLEAN : LpnPoll(heard) \/ LpnSubRetry(heard) => IInv'
<1>1. lpn \in Lpn /\ LpnInv(lpn)
  BY DEF IInv, TypeOK
<1>2. ASSUME LpnRequest PROVE IInv'
  BY <1>1, <1>2, RequestInv DEF LpnRequest
<1>3. ASSUME LpnOfferEnd PROVE IInv'
  <2>1. lpn' \in Lpn /\ LpnInv(lpn')
    BY <1>1, <1>3 DEF LpnOfferEnd, Lpn, LpnInv
  <2>2. lpn.fsn = 0 /\ ~lpn.link /\ lpn'.fsn = lpn.fsn
    BY <1>1, <1>3 DEF LpnOfferEnd, Lpn, LpnInv
  <2>3. \A f \in Friends : PairInv(f, fn[f], lpn) => PairInv(f, fn[f], lpn')
    BY <2>2 DEF PairInv
  <2> QED BY <1>3, <2>1, <2>3, LpnAlone DEF LpnOfferEnd
<1>4. ASSUME LpnNoOffer \/ LpnUpdateFail \/ LpnWakeAlone \/ LpnWorkingTimeout
      PROVE  IInv'
  <2>1. /\ lpn' \in Lpn /\ lpn'.status \in {"IDLE", "REQUEST"} /\ fn' = fn
        /\ lpn'.link = lpn.link /\ lpn'.fri = lpn.fri /\ lpn'.fsn = lpn.fsn
    BY <1>1, <1>4, RetryRange
       DEF LpnNoOffer, LpnUpdateFail, LpnWakeAlone, LpnWorkingTimeout, Lpn
  <2>2. LpnInv(lpn')
    BY <1>1, <2>1 DEF LpnInv
  <2> QED BY <2>1, <2>2, LpnAlone DEF PairInv
<1>5. ASSUME LpnPollFail PROVE IInv'
  <2>1. [lpn EXCEPT !.retry = 0, !.subRetry = 0] \in Lpn
    BY <1>1, RetryRange DEF Lpn
  <2> QED BY <1>5, <2>1, RequestInv DEF LpnPollFail
<1>6. ASSUME LpnSubFail PROVE IInv'
  <2>1. [lpn EXCEPT !.subRetry = 0] \in Lpn
    BY <1>1, RetryRange DEF Lpn
  <2> QED BY <1>6, <2>1, RequestInv DEF LpnSubFail
<1>7. ASSUME NEW heard \in BOOLEAN, LpnPoll(heard) PROVE IInv'
  <2>1. CASE LpnFirstPoll(heard)
    <3>1. lpn.fsn = 0
      BY <1>1, <2>1 DEF LpnFirstPoll, LpnInv
    <3>2. /\ lpn' \in Lpn /\ lpn'.status = "UPDATE" /\ lpn'.fsn = 0
          /\ lpn'.link = lpn.link /\ lpn'.fri = lpn.fri
      BY <1>1, <2>1, RetryRange DEF LpnFirstPoll, Lpn
    <3>3. LpnInv(lpn')
      BY <1>1, <3>2 DEF LpnInv
    <3> QED BY <2>1, <3>1, <3>2, <3>3, PollInv DEF LpnFirstPoll
  <2>2. CASE LpnPollRetry(heard) \/ LpnWake(heard)
    <3>0. lpn.retry > 1
            => lpn.retry - 1 \in 0 .. (FRI_GET_UPDATE_RETRY_MAX + FRI_POLL_RETRY_MAX + 1)
      BY <1>1, ConstantsAssumption DEF Lpn
    <3>1. /\ lpn' \in Lpn /\ lpn'.status = lpn.status /\ lpn'.fsn = lpn.fsn
          /\ lpn'.link = lpn.link /\ lpn'.fri = lpn.fri
      BY <1>1, <2>2, <3>0, RetryRange DEF LpnPollRetry, LpnWake, Lpn
    <3>2. LpnInv(lpn')
      BY <1>1, <3>1 DEF LpnInv
    <3> QED BY <2>2, <3>1, <3>2, PollInv DEF LpnPollRetry, LpnWake
  <2> QED BY <1>7, <2>1, <2>2 DEF LpnPoll
<1>8. ASSUME NEW heard \in BOOLEAN, LpnSubRetry(heard) PROVE IInv'
  <2>1. /\ lpn' \in Lpn /\ lpn'.status = lpn.status /\ lpn'.fsn = lpn.fsn
        /\ lpn'.link = lpn.link /\ lpn'.fri = lpn.fri
    BY <1>1, <1>8, RetryRange DEF LpnSubRetry, Lpn
  <2>2. LpnInv(lpn')
    BY <1>1, <2>1 DEF LpnInv
  <2>3. CASE ~heard
    BY <1>8, <2>1, <2>2, <2>3, LpnAlone DEF LpnSubRetry, PairInv
  <2>4. CASE heard
    <3> DEFINE f == lpn.fri
               s == fn[f]
               t == OnSubsList(s)
    <3>1. lpn.link /\ Reached(f) /\ fn' = [fn EXCEPT ![f] = t]
      BY <1>8, <2>4 DEF LpnSubRetry
    <3>2. f \in Friends /\ s \in Slot /\ SlotInv(f, s) /\ PairInv(f, s, lpn)
      BY <3>1, ReachedSlot DEF IInv
    <3>3. /\ t \in Slot /\ SlotInv(f, t) /\ t.link = s.link /\ t.fresh = s.fresh
          /\ t.fsn = s.fsn /\ (HeadIsRead(s) => HeadIsRead(t))
      BY <3>2, SubsSlot
    <3> HIDE DEF t
    <3>4. PairInv(f, t, lpn')
      BY <2>1, <3>2, <3>3 DEF PairInv
    <3> QED BY <2>1, <2>2, <3>1, <3>2, <3>3, <3>4, OneRecord
  <2> QED BY <2>3, <2>4
<1> QED BY <1>2, <1>3, <1>4, <1>5, <1>6, <1>7, <1>8

LEMMA FnStepInv ==
  ASSUME IInv, NEW f \in Friends
  PROVE  /\ FnOffer(f) => IInv'
         /\ FnOfferTimeout(f) \/ FnPollTimeout(f) \/ FnClearStop(f) => IInv'
         /\ FnIvUpdate(f) => IInv'
         /\ \A heard \in BOOLEAN :
              FnAnswer(f, heard) \/ FnSubsConf(f, heard) \/ FnClear(f, heard) => IInv'
<1> DEFINE s == fn[f]
<1>1. s \in Slot /\ SlotInv(f, s) /\ PairInv(f, s, lpn) /\ lpn \in Lpn /\ LpnInv(lpn)
  BY DEF IInv, TypeOK
\* A record that changes, with the node as it is.
<1>2. ASSUME NEW t \in Slot, SlotInv(f, t), fn' = [fn EXCEPT ![f] = t], lpn' = lpn,
             PairInv(f, t, lpn)
      PROVE  IInv'
  BY <1>1, <1>2, OneRecord
<1>3. ASSUME FnOffer(f) PROVE IInv'
  <2> DEFINE t == [s EXCEPT !.status = "POLL"]
  <2>1. fn' = [fn EXCEPT ![f] = t] /\ s.status = "OFFER" /\ ~s.link
    BY <1>1, <1>3 DEF FnOffer, SlotInv, IInv, TypeOK
  <2>2. /\ t \in Slot /\ SlotInv(f, t) /\ ~t.link /\ t.fresh = s.fresh
    BY <1>1, <2>1 DEF Slot, SlotInv
  <2> HIDE DEF t
  <2>3. CASE lpn' = lpn
    <3>1. PairInv(f, t, lpn)
      BY <1>1, <2>1, <2>2 DEF PairInv
    <3> QED BY <1>2, <2>1, <2>2, <2>3, <3>1
  <2>4. CASE lpn.status = "OFFER" /\ lpn' = [lpn EXCEPT !.fri = f]
    <3>1. /\ lpn' \in Lpn /\ ~lpn.link /\ ~lpn'.link /\ lpn'.fsn = 0
          /\ LpnInv(lpn')
      BY <1>1, <2>4 DEF Lpn, LpnInv
    <3>2. ASSUME NEW g \in Friends
          PROVE  fn'[g] \in Slot /\ SlotInv(g, fn'[g]) /\ PairInv(g, fn'[g], lpn')
      <4>1. fn[g] \in Slot /\ SlotInv(g, fn[g]) /\ PairInv(g, fn[g], lpn)
        BY DEF IInv, TypeOK
      <4>2. fn'[g] = IF g = f THEN t ELSE fn[g]
        BY <2>1 DEF IInv, TypeOK
      <4> QED BY <2>2, <3>1, <4>1, <4>2 DEF PairInv
    <3>3. fn' \in [Friends -> Slot]
      BY <2>1, <2>2 DEF IInv, TypeOK
    <3> QED BY <3>1, <3>2, <3>3 DEF IInv, TypeOK
  <2> QED BY <1>3, <2>3, <2>4 DEF FnOffer
<1>4. ASSUME FnOfferTimeout(f) PROVE IInv'
  <2> DEFINE t == [s EXCEPT !.status = "IDLE"]
  <2>1. fn' = [fn EXCEPT ![f] = t] /\ s.status = "POLL" /\ ~s.link /\ lpn' = lpn
    BY <1>1, <1>4 DEF FnOfferTimeout, SlotInv, IInv, TypeOK
  <2>2. t \in Slot /\ SlotInv(f, t) /\ PairInv(f, t, lpn)
    BY <1>1, <2>1 DEF Slot, SlotInv, PairInv
  <2> HIDE DEF t
  <2> QED BY <1>2, <2>1, <2>2
<1>5. ASSUME FnPollTimeout(f) PROVE IInv'
  <2>1. PairInv(f, Cleared, lpn)
    BY DEF PairInv, Cleared
  <2> QED BY <1>2, <1>5, <2>1, ClearedSlot DEF FnPollTimeout
<1>6. ASSUME FnClearStop(f) PROVE IInv'
  <2> DEFINE t == [s EXCEPT !.clear = "no"]
  <2>1. fn' = [fn EXCEPT ![f] = t] /\ lpn' = lpn
    BY <1>6 DEF FnClearStop, IInv, TypeOK
  <2>2. t \in Slot /\ SlotInv(f, t) /\ PairInv(f, t, lpn)
    BY <1>1 DEF Slot, SlotInv, PairInv, HeadIsRead, Head
  <2> HIDE DEF t
  <2> QED BY <1>2, <2>1, <2>2
<1>7. ASSUME FnIvUpdate(f) PROVE IInv'
  <2> DEFINE t == ToCache(s, "update")
  <2>1. fn' = [fn EXCEPT ![f] = t] /\ lpn' = lpn /\ s.link
    BY <1>7 DEF FnIvUpdate, IInv, TypeOK
  <2>2. /\ t \in Slot /\ SlotInv(f, t) /\ t.link /\ t.fresh = s.fresh /\ t.fsn = s.fsn
        /\ HeadIsRead(s) => HeadIsRead(t)
    BY <1>1, <2>1, CacheSlot DEF Ops
  <2> HIDE DEF t
  <2>3. PairInv(f, t, lpn)
    BY <1>1, <2>1, <2>2 DEF PairInv
  <2> QED BY <1>2, <2>1, <2>2, <2>3
<1>8. ASSUME NEW heard \in BOOLEAN, FnAnswer(f, heard) PROVE IInv'
  <2>1. CASE heard
    BY <1>8, <2>1, GetInv DEF FnAnswer
  <2>2. CASE ~heard
    <3> DEFINE t == Sent(s)
    <3>1. fn' = [fn EXCEPT ![f] = t] /\ lpn' = lpn
      BY <1>1, <1>8, <2>2 DEF FnAnswer, Sent, IInv, TypeOK, Slot
    <3>2. /\ t \in Slot /\ SlotInv(f, t) /\ t.link = s.link /\ t.fresh = s.fresh
          /\ t.fsn = s.fsn /\ t.over = s.over /\ t.r = s.r /\ t.cell = s.cell
      BY <1>1, SentSlot
    <3> HIDE DEF t
    <3>3. PairInv(f, t, lpn)
      BY <1>1, <3>2 DEF PairInv, HeadIsRead, Head
    <3> QED BY <1>2, <3>1, <3>2, <3>3
  <2> QED BY <2>1, <2>2
<1>9. ASSUME NEW heard \in BOOLEAN, FnSubsConf(f, heard) PROVE IInv'
  <2> DEFINE t == [s EXCEPT !.delay = "none"]
  <2>1. fn' = [fn EXCEPT ![f] = t]
    BY <1>9 DEF FnSubsConf, IInv, TypeOK
  <2>2. /\ lpn' \in Lpn /\ lpn'.status = lpn.status /\ lpn'.fsn = lpn.fsn
        /\ lpn'.link = lpn.link /\ lpn'.fri = lpn.fri
    BY <1>1, <1>9, RetryRange DEF FnSubsConf, Lpn
  <2>3. t \in Slot /\ SlotInv(f, t) /\ PairInv(f, t, lpn')
    BY <1>1, <2>2 DEF Slot, SlotInv, PairInv, HeadIsRead, Head
  <2>4. LpnInv(lpn')
    BY <1>1, <2>2 DEF LpnInv
  <2> HIDE DEF t
  <2> QED BY <2>1, <2>2, <2>3, <2>4, OneRecord
<1>10. ASSUME NEW heard \in BOOLEAN, FnClear(f, heard) PROVE IInv'
  <2> DEFINE g == s.pre
             c == OnClear(fn[g])
             t == [s EXCEPT !.clear = IF heard THEN "no" ELSE s.clear]
             mid == [fn EXCEPT ![g] = c]
  <2>1. g \in Friends /\ g # f /\ lpn' = lpn
    BY <1>1, <1>10 DEF FnClear, SlotInv
  <2>2. fn' = [mid EXCEPT ![f] = t]
    BY <1>1, <1>10, <2>1 DEF FnClear, IInv, TypeOK, Slot
  <2>3. c = Cleared
    BY <1>10 DEF FnClear, OnClear
  <2>4. t \in Slot /\ SlotInv(f, t) /\ PairInv(f, t, lpn)
    BY <1>1 DEF Slot, SlotInv, PairInv, HeadIsRead, Head
  <2> HIDE DEF t, c
  <2>5. c \in Slot /\ SlotInv(g, c) /\ PairInv(g, c, lpn)
    BY <2>1, <2>3, ClearedSlot DEF PairInv, Cleared
  <2>6. fn' \in [Friends -> Slot]
    BY <2>1, <2>2, <2>4, <2>5 DEF IInv, TypeOK
  <2>7. \A h \in Friends : fn'[h] = IF h = f THEN t ELSE IF h = g THEN c ELSE fn[h]
    BY <2>1, <2>2 DEF IInv, TypeOK
  <2> QED BY <1>1, <2>1, <2>4, <2>5, <2>6, <2>7 DEF IInv, TypeOK
<1> QED BY <1>3, <1>4, <1>5, <1>6, <1>7, <1>8, <1>9, <1>10

LEMMA ArriveInv ==
  ASSUME IInv, NEW F \in SUBSET Friends, NEW op \in {"data", "ack"}, Arrive(F, op)
  PROVE  IInv'
<1> DEFINE t(f) == IF f \in F THEN ToCache(fn[f], op) ELSE fn[f]
<1>1. fn' = [f \in Friends |-> t(f)] /\ lpn' = lpn
  BY DEF Arrive
<1>2. ASSUME NEW f \in Friends
      PROVE  t(f) \in Slot /\ SlotInv(f, t(f)) /\ PairInv(f, t(f), lpn)
  <2>1. fn[f] \in Slot /\ SlotInv(f, fn[f]) /\ PairInv(f, fn[f], lpn)
    BY DEF IInv, TypeOK
  <2>2. CASE f \notin F
    BY <2>1, <2>2
  <2>3. CASE f \in F
    <3>1. t(f) = ToCache(fn[f], op) /\ fn[f].link
      BY <2>3 DEF Arrive
    <3>2. /\ t(f) \in Slot /\ SlotInv(f, t(f)) /\ t(f).link /\ t(f).fresh = fn[f].fresh
          /\ t(f).fsn = fn[f].fsn /\ (HeadIsRead(fn[f]) => HeadIsRead(t(f)))
      BY <2>1, <3>1, CacheSlot DEF Ops
    <3> HIDE DEF t
    <3>3. PairInv(f, t(f), lpn)
      BY <2>1, <3>1, <3>2 DEF PairInv
    <3> QED BY <3>2, <3>3
  <2> QED BY <2>2, <2>3
<1> HIDE DEF t
<1>3. fn' \in [Friends -> Slot] /\ \A f \in Friends : fn'[f] = t(f)
  BY <1>1, <1>2
<1> QED BY <1>1, <1>2, <1>3 DEF IInv, TypeOK

LEMMA NextInv ==
  IInv /\ [Next]_vars => IInv'
<1> SUFFICES ASSUME IInv, [Next]_vars PROVE IInv'
  OBVIOUS
<1>1. CASE UNCHANGED vars
  BY <1>1 DEF vars, IInv, TypeOK
<1>2. CASE Next
  BY <1>2, LpnStepInv, FnStepInv, ArriveInv, Zenon DEF Next
<1> QED BY <1>1, <1>2

-----------------------------------------------------------------------------
(* What holds of the specification *)

THEOREM Invariance == Spec => []IInv
<1> QED BY InitInv, NextInv, PTL DEF Spec

\* The records of the friends and of the node stay what their types say.
THEOREM TypeCorrect == Spec => []TypeOK
<1>1. IInv => TypeOK
  BY DEF IInv
<1> QED BY <1>1, Invariance, PTL

\* An answer that waits for the receive delay is the message at the head of the cache.
THEOREM AnswersAreHeads == Spec => []AnswerIsHead
<1>1. IInv => AnswerIsHead
  <2> SUFFICES ASSUME IInv, NEW f \in Friends, fn[f].delay = "poll"
               PROVE  /\ fn[f].n > 0 /\ fn[f].rsp # None
                      /\ fn[f].over \/ fn[f].rsp = fn[f].r
    BY DEF AnswerIsHead
  <2>1. fn[f] \in Slot /\ SlotInv(f, fn[f])
    BY DEF IInv, TypeOK
  <2>2. None \notin Positions
    BY ConstantsAssumption DEF Positions
  <2> QED BY <2>1, <2>2 DEF SlotInv
<1> QED BY <1>1, Invariance, PTL

\* With the keys of one request the node has a friendship with one friend at most.
THEOREM OneFriend == Spec => []OneFriendPerRequest
<1>1. IInv => OneFriendPerRequest
  BY DEF IInv, OneFriendPerRequest, Current, PairInv
<1> QED BY <1>1, Invariance, PTL

\* A friend that heard the last request does not clear the friendship made by it.
THEOREM ClearSpares == Spec => []ClearSparesCurrent
<1>1. IInv => ClearSparesCurrent
  <2> SUFFICES ASSUME IInv, NEW f \in Friends, fn[f].clear = "on", fn[f].fresh,
                      Current(fn[f].pre)
               PROVE  FALSE
    BY DEF ClearSparesCurrent
  <2>1. fn[f].link /\ fn[f].pre \in Friends /\ fn[f].pre # f
    BY DEF IInv, SlotInv
  <2> QED BY <2>1 DEF IInv, PairInv, Current
<1> QED BY <1>1, Invariance, PTL

\* Whatever is lost, no message is taken from a cache before the node has it.
THEOREM NoneSkipped == Spec => ReadBeforeTaken
<1> DEFINE Taken(f) == /\ fn[f].n > 0 /\ Head(fn[f]).op # "ack"
                       /\ fn'[f].link /\ fn'[f].r # fn[f].r /\ ~fn'[f].over
<1>1. IInv /\ IInv' /\ [Next]_vars => [\A f \in Friends : Taken(f) => Head(fn[f]).got]_vars
  <2> SUFFICES ASSUME IInv, IInv', Next, NEW f \in Friends, Taken(f)
               PROVE  Head(fn[f]).got
    BY Zenon
  <2>1. fn[f] \in Slot /\ SlotInv(f, fn[f]) /\ fn[f].link /\ fn \in [Friends -> Slot]
    BY DEF IInv, TypeOK, SlotInv
  \* The node's poll, with its own sequence number, is what takes messages.
  <2>2. ASSUME NEW heard \in BOOLEAN, SendPoll(lpn.fsn, heard) PROVE Head(fn[f]).got
    <3>1. lpn.fri = f /\ lpn.link /\ Reached(f) /\ fn'[f] = OnPoll(f, fn[f], lpn.fsn)
      BY <2>1, <2>2 DEF SendPoll
    <3>2. fn[f].fsn # lpn.fsn /\ ~fn[f].over
      BY <2>1, <3>1, ReachedSlot, PollSlot
    <3>3. HeadIsRead(fn[f])
      BY <2>1, <3>1, <3>2, ReachedSlot
    <3> QED BY <3>2, <3>3 DEF HeadIsRead
  <2>3. ASSUME NEW heard \in BOOLEAN, LpnPoll(heard) PROVE Head(fn[f]).got
    <3>1. LpnFirstPoll(heard) => lpn.fsn = 0
      BY DEF LpnFirstPoll, IInv, LpnInv
    <3> QED BY <2>2, <2>3, <3>1 DEF LpnPoll, LpnFirstPoll, LpnPollRetry, LpnWake
  \* A request, an offer or the end of a friendship leaves the record without link.
  <2>4. ASSUME NEW l \in Lpn, NEW H \in SUBSET Friends, SendRequest(l, H) PROVE FALSE
    <3>1. fn'[f] = IF f \in H THEN OnRequest(l.pre) ELSE [fn[f] EXCEPT !.fresh = FALSE]
      BY <2>4 DEF SendRequest
    <3>2. l.pre \in Friends \cup {None}
      BY DEF Lpn
    <3> QED BY <2>1, <3>1, <3>2, RequestSlot DEF Slot
  <2>5. ASSUME LpnRequest \/ LpnPollFail \/ LpnSubFail PROVE FALSE
    <3>1. lpn \in Lpn
      BY DEF IInv, TypeOK
    <3>2. /\ [lpn EXCEPT !.retry = 0, !.subRetry = 0] \in Lpn
          /\ [lpn EXCEPT !.subRetry = 0] \in Lpn
      BY <3>1, RetryRange DEF Lpn
    <3> QED BY <2>4, <2>5, <3>1, <3>2 DEF LpnRequest, LpnPollFail, LpnSubFail
  \* What is cached moves the head only when the ring runs over.
  <2>6. ASSUME NEW F \in SUBSET Friends, NEW op \in {"data", "ack"}, Arrive(F, op)
        PROVE  FALSE
    <3>1. fn'[f] = fn[f] \/ fn'[f] = ToCache(fn[f], op)
      BY <2>6 DEF Arrive
    <3> QED BY <2>1, <3>1, CacheSlot DEF Ops
  <2>7. ASSUME NEW g \in Friends,
               FnOffer(g) \/ FnOfferTimeout(g) \/ FnIvUpdate(g) \/ FnPollTimeout(g)
                 \/ FnClearStop(g)
        PROVE  FALSE
    <3>1. CASE FnIvUpdate(g)
      <4>1. fn'[f] = fn[f] \/ fn'[f] = ToCache(fn[f], "update")
        BY <2>1, <3>1 DEF FnIvUpdate
      <4> QED BY <2>1, <4>1, CacheSlot DEF Ops
    <3>2. CASE FnPollTimeout(g)
      <4>1. fn'[f] = fn[f] \/ fn'[f] = Cleared
        BY <2>1, <3>2 DEF FnPollTimeout
      <4> QED BY <4>1 DEF Cleared
    <3>3. CASE FnOffer(g) \/ FnOfferTimeout(g) \/ FnClearStop(g)
      <4>1. fn'[f].r = fn[f].r
        BY <2>1, <3>3 DEF FnOffer, FnOfferTimeout, FnClearStop, Slot
      <4> QED BY <4>1
    <3> QED BY <2>7, <3>1, <3>2, <3>3
  <2>8. ASSUME NEW heard \in BOOLEAN, NEW g \in Friends,
               FnAnswer(g, heard) \/ FnSubsConf(g, heard) \/ FnClear(g, heard)
        PROVE  FALSE
    <3>1. CASE FnAnswer(g, heard)
      <4>1. g # f => fn'[f] = fn[f]
        BY <2>1, <3>1 DEF FnAnswer, GetMessage
      <4>2. ASSUME g = f PROVE fn'[f].r = fn[f].r
        <5>1. CASE heard
          <6>1. fn[f].delay = "poll" /\ Listens(f) /\ GetMessage(f, fn[f].rsp)
            BY <3>1, <4>2, <5>1 DEF FnAnswer
          <6>2. PICK t \in Slot : fn' = [fn EXCEPT ![f] = t] /\ t.r = fn[f].r
            BY <6>1, GetRecord
          <6> QED BY <2>1, <6>2
        <5>2. CASE ~heard
          <6>1. fn'[f] = Sent(fn[f])
            BY <2>1, <3>1, <4>2, <5>2 DEF FnAnswer, Sent, Slot
          <6> QED BY <2>1, <6>1, SentSlot
        <5> QED BY <5>1, <5>2
      <4> QED BY <4>1, <4>2
    <3>2. CASE FnSubsConf(g, heard)
      <4>1. fn'[f].r = fn[f].r
        BY <2>1, <3>2 DEF FnSubsConf, Slot
      <4> QED BY <4>1
    <3>3. CASE FnClear(g, heard)
      <4>1. fn[g] \in Slot /\ SlotInv(g, fn[g])
        BY DEF IInv, TypeOK
      <4>2. fn[g].pre \in Friends /\ fn[g].pre # g
        BY <3>3, <4>1 DEF FnClear, SlotInv
      <4>3. \/ fn'[f] = fn[f] \/ fn'[f] = Cleared
            \/ f = g /\ fn'[f] = [fn[f] EXCEPT !.clear = IF heard THEN "no" ELSE @]
        BY <2>1, <3>3, <4>2 DEF FnClear, OnClear
      <4>4. fn'[f].r = fn[f].r \/ ~fn'[f].link
        BY <2>1, <4>3 DEF Cleared, Slot
      <4> QED BY <4>4
    <3> QED BY <2>8, <3>1, <3>2, <3>3
  <2>9. ASSUME LpnOfferEnd \/ LpnNoOffer \/ LpnUpdateFail \/ LpnWakeAlone
                 \/ LpnWorkingTimeout
        PROVE  FALSE
    BY <2>9 DEF LpnOfferEnd, LpnNoOffer, LpnUpdateFail, LpnWakeAlone, LpnWorkingTimeout
  <2>10. ASSUME NEW heard \in BOOLEAN, LpnSubRetry(heard) PROVE FALSE
    <3>1. fn'[f].r = fn[f].r
      BY <2>1, <2>10, SubsSlot DEF LpnSubRetry
    <3> QED BY <3>1
  <2> QED BY <2>3, <2>5, <2>6, <2>7, <2>8, <2>9, <2>10, Zenon DEF Next
<1>2. Spec => []IInv
  BY Invariance
<1> QED BY <1>1, <1>2, PTL DEF Spec, ReadBeforeTaken
=============================================================================
