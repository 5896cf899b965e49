----------------------------- MODULE PbAdv_proofs -----------------------------
(***************************************************************************)
(* Proofs about PbAdv, for any number of links and any size of the queue.  *)
(*                                                                         *)
(* A side judges a packet by its command, its link and its number alone.   *)
(* The invariant therefore says of every packet still in a queue, and of   *)
(* every message that will be said again, which state its sender is in, or *)
(* was in before it gave the link up; and a link given up is opened again  *)
(* only while nothing said later on it is left.                            *)
(***************************************************************************)
EXTENDS PbAdv, SequenceTheorems, FiniteSetTheorems, TLAPS

States ==
  {"LINK_UNPROVISION_STATE", "LINK_ESTABLISHED", "LINK_ESTABLISHED_ACK", "STATE_DEV_CAPA",
   "STATE_DEV_CAPA_ACK", "STATE_PRO_START_ACK", "STATE_PRO_PUB_KEY_ACK", "STATE_DEV_PUB_KEY",
   "STATE_DEV_PUB_KEY_ACK", "STATE_DEV_CONFIRM", "STATE_DEV_RANDOM", "STATE_PRO_COMPLETE",
   "STATE_PRO_SUC", "STATE_PRO_FAILED_ACK"}
Commands ==
  {"LINK_OPEN", "LINK_ACK", "INVITE", "CAPABLI", "START", "PUB_KEY", "CONFIRM", "RANDOM",
   "DATA", "COMPLETE", "FAIL", "ACK"}
Packets == [cmd : Commands, link_id : Nat, trans_num : Nat, idx : Nat]
Pieces  == [idx : Nat, cmd : Commands, link_id : Nat]
Segs    == [trans_num : Nat, link_id : Nat, seg_n : Nat, got : SUBSET Pieces, decrypted : BOOLEAN]
Sides   == [state : States, link_id : Nat, link_id_filter : BOOLEAN, trans_num : Nat,
            trans_num_last : Nat, rsp_ack_transnum : Nat, pro_cmd : Commands,
            cmd_retry_flag : BOOLEAN, ack_retry_flag : BOOLEAN, tx : Seq(Packets), seg : Segs]

IsSide(d) == d \in Sides /\ Len(d.tx) <= Cap

\* The packets saying c with number n on link l.
PacketsOf(l, c, n) == {m \in Packets : m.link_id = l /\ m.cmd = c /\ m.trans_num = n}

\* The queue t is s followed by packets of the set S.
Grows(s, t, S) ==
  /\ Len(s) <= Len(t)
  /\ \A i \in 1 .. Len(t) : IF i <= Len(s) THEN t[i] = s[i] ELSE t[i] \in S

Holds(t, S) == \A i \in 1 .. Len(t) : t[i] \in S

\* The sides d and e differ in the queue and the segments only.
Same(d, e) ==
  /\ e.state = d.state /\ e.link_id = d.link_id /\ e.link_id_filter = d.link_id_filter
  /\ e.trans_num = d.trans_num /\ e.trans_num_last = d.trans_num_last
  /\ e.rsp_ack_transnum = d.rsp_ack_transnum /\ e.pro_cmd = d.pro_cmd
  /\ e.cmd_retry_flag = d.cmd_retry_flag /\ e.ack_retry_flag = d.ack_retry_flag

-------------------------------------------------------------------------------
(* What the helpers of a side do.                                          *)

LEMMA PushIs ==
  ASSUME NEW d, IsSide(d), NEW ps \in Seq(Packets), NEW S, \A i \in 1 .. Len(ps) : ps[i] \in S
  PROVE  /\ IsSide(Push(d, ps)) /\ Same(d, Push(d, ps))
         /\ Grows(d.tx, Push(d, ps).tx, S)
<1> DEFINE all == d.tx \o ps
           new == IF Len(all) <= Cap THEN all ELSE SubSeq(all, 1, Cap)
<1>1. /\ d.tx \in Seq(Packets) /\ Len(d.tx) \in Nat /\ Len(d.tx) <= Cap /\ Cap \in Nat
      /\ Len(ps) \in Nat
  BY PbAdvAssumption DEF IsSide, Sides
<1>2. /\ all \in Seq(Packets) /\ Len(all) = Len(d.tx) + Len(ps)
      /\ \A i \in 1 .. Len(all) : IF i <= Len(d.tx) THEN all[i] = d.tx[i] ELSE all[i] = ps[i - Len(d.tx)]
  BY <1>1
<1>3. \A i \in 1 .. Len(all) : IF i <= Len(d.tx) THEN all[i] = d.tx[i] ELSE all[i] \in S
  BY <1>1, <1>2
<1> HIDE DEF all
<1>4. /\ new \in Seq(Packets) /\ Len(new) <= Cap /\ Len(d.tx) <= Len(new)
      /\ Len(new) <= Len(all) /\ Len(new) \in Nat
      /\ \A i \in 1 .. Len(new) : new[i] = all[i]
  <2>1. CASE Len(all) <= Cap
    BY <1>1, <1>2, <2>1
  <2>2. CASE ~(Len(all) <= Cap)
    <3>1. /\ SubSeq(all, 1, Cap) \in Seq(Packets) /\ Len(SubSeq(all, 1, Cap)) = Cap
          /\ \A i \in 1 .. Cap : SubSeq(all, 1, Cap)[i] = all[i]
      BY <1>1, <1>2, <2>2
    <3> QED BY <1>1, <1>2, <2>2, <3>1
  <2> QED BY <2>1, <2>2
<1>5. Push(d, ps) = [d EXCEPT !.tx = new]
  BY DEF Push, all
<1> HIDE DEF new
<1>6. IsSide(Push(d, ps)) /\ Same(d, Push(d, ps)) /\ Push(d, ps).tx = new
  BY <1>4, <1>5 DEF IsSide, Sides, Same
<1>7. Grows(d.tx, new, S)
  BY <1>1, <1>2, <1>3, <1>4 DEF Grows
<1> QED BY <1>6, <1>7

LEMMA PacketIs ==
  ASSUME NEW d, IsSide(d), NEW c \in Commands, NEW n \in Nat, NEW i \in Nat
  PROVE  /\ Packet(d, c, n, i) \in PacketsOf(d.link_id, c, n)
         /\ Packet(d, c, n, i) \in Packets
  BY DEF Packet, PacketsOf, Packets, IsSide, Sides

LEMMA PushOne ==
  ASSUME NEW d, IsSide(d), NEW c \in Commands, NEW n \in Nat
  PROVE  /\ IsSide(Push(d, <<Packet(d, c, n, 0)>>)) /\ Same(d, Push(d, <<Packet(d, c, n, 0)>>))
         /\ Grows(d.tx, Push(d, <<Packet(d, c, n, 0)>>).tx, PacketsOf(d.link_id, c, n))
<1> DEFINE ps == <<Packet(d, c, n, 0)>>
<1>1. Packet(d, c, n, 0) \in PacketsOf(d.link_id, c, n) /\ Packet(d, c, n, 0) \in Packets
  BY PacketIs
<1>2. ps \in Seq(Packets) /\ \A i \in 1 .. Len(ps) : ps[i] \in PacketsOf(d.link_id, c, n)
  BY <1>1
<1> HIDE DEF ps
<1>3. /\ IsSide(Push(d, ps)) /\ Same(d, Push(d, ps))
      /\ Grows(d.tx, Push(d, ps).tx, PacketsOf(d.link_id, c, n))
  BY <1>2, PushIs
<1> QED BY <1>3 DEF ps

LEMMA AckIs ==
  ASSUME NEW d, IsSide(d)
  PROVE  /\ IsSide(Ack(d)) /\ Same(d, Ack(d))
         /\ Grows(d.tx, Ack(d).tx, PacketsOf(d.link_id, "ACK", d.rsp_ack_transnum))
<1>1. d.rsp_ack_transnum \in Nat /\ "ACK" \in Commands
  BY DEF IsSide, Sides, Commands
<1> QED BY <1>1, PushOne DEF Ack

LEMMA LinkAckIs ==
  ASSUME NEW d, IsSide(d)
  PROVE  /\ IsSide(LinkAck(d)) /\ Same(d, LinkAck(d))
         /\ Grows(d.tx, LinkAck(d).tx, PacketsOf(d.link_id, "LINK_ACK", d.rsp_ack_transnum))
<1>1. d.rsp_ack_transnum \in Nat /\ "LINK_ACK" \in Commands
  BY DEF IsSide, Sides, Commands
<1> QED BY <1>1, PushOne DEF LinkAck

\* The number the message cmd gets.
NumberOf(d, cmd) == IF d.cmd_retry_flag \/ cmd = "CAPABLI" THEN d.trans_num ELSE d.trans_num + 1

LEMMA SendIs ==
  ASSUME NEW d, IsSide(d), NEW cmd \in Commands
  PROVE  LET e == send_multi_type_data(d, cmd)
             n == NumberOf(d, cmd)
         IN  /\ IsSide(e) /\ n \in Nat /\ e.trans_num = n
             /\ e.state = d.state /\ e.link_id = d.link_id /\ e.link_id_filter = d.link_id_filter
             /\ e.trans_num_last = d.trans_num_last /\ e.rsp_ack_transnum = d.rsp_ack_transnum
             /\ e.pro_cmd = d.pro_cmd /\ e.cmd_retry_flag = d.cmd_retry_flag
             /\ e.ack_retry_flag = d.ack_retry_flag
             /\ Grows(d.tx, e.tx, PacketsOf(d.link_id, cmd, n))
<1> DEFINE n == NumberOf(d, cmd)
           f == NextTrans(d, cmd)
           ps == [i \in 1 .. Segments(cmd) |-> Packet(f, cmd, f.trans_num, i - 1)]
<1>1. n \in Nat
  BY DEF IsSide, Sides, NumberOf
<1>2. f = [d EXCEPT !.trans_num = n]
  BY DEF NextTrans, NumberOf
<1> HIDE DEF f, n
<1>3. /\ IsSide(f) /\ f.trans_num = n /\ f.tx = d.tx
      /\ f.state = d.state /\ f.link_id = d.link_id /\ f.link_id_filter = d.link_id_filter
      /\ f.trans_num_last = d.trans_num_last /\ f.rsp_ack_transnum = d.rsp_ack_transnum
      /\ f.pro_cmd = d.pro_cmd /\ f.cmd_retry_flag = d.cmd_retry_flag
      /\ f.ack_retry_flag = d.ack_retry_flag
  BY <1>1, <1>2 DEF IsSide, Sides
<1>4. Segments(cmd) \in Nat
  BY DEF Segments
<1>5. \A i \in 1 .. Segments(cmd) : /\ Packet(f, cmd, f.trans_num, i - 1) \in PacketsOf(d.link_id, cmd, n)
                                    /\ Packet(f, cmd, f.trans_num, i - 1) \in Packets
  <2> TAKE i \in 1 .. Segments(cmd)
  <2>1. i - 1 \in Nat
    BY <1>4
  <2> QED BY <1>1, <1>3, <2>1, PacketIs
<1>6. /\ ps \in Seq(Packets) /\ Len(ps) = Segments(cmd)
      /\ \A i \in 1 .. Len(ps) : ps[i] \in PacketsOf(d.link_id, cmd, n)
  BY <1>4, <1>5
<1>7. send_multi_type_data(d, cmd) = Push(f, ps)
  BY DEF send_multi_type_data, f
<1> HIDE DEF ps
<1>8. /\ IsSide(Push(f, ps)) /\ Same(f, Push(f, ps))
      /\ Grows(f.tx, Push(f, ps).tx, PacketsOf(d.link_id, cmd, n))
  BY <1>3, <1>6, PushIs
<1> QED BY <1>1, <1>3, <1>7, <1>8 DEF Same, n

LEMMA ResetIs ==
  ASSUME NEW d, IsSide(d)
  PROVE  LET e == mesh_provision_para_reset(d)
         IN  /\ IsSide(e) /\ e.state = "LINK_UNPROVISION_STATE" /\ e.link_id = 0
             /\ e.link_id_filter = FALSE /\ e.trans_num = 0
             /\ e.cmd_retry_flag = FALSE /\ e.ack_retry_flag = FALSE
             /\ e.rsp_ack_transnum = d.rsp_ack_transnum /\ e.tx = d.tx
  BY DEF mesh_provision_para_reset, Idle, IsSide, Sides, States, Commands

\* An empty queue that grew.
LEMMA GrownFromNothing ==
  ASSUME NEW s, NEW t, NEW u, NEW S, NEW T, s = <<>>, t \in Seq(Packets), u \in Seq(Packets),
         Grows(s, t, S), Grows(t, u, T)
  PROVE  Holds(t, S) /\ Holds(u, S \cup T)
  BY DEF Grows, Holds

LEMMA ClearIs ==
  ASSUME NEW d, IsSide(d)
  PROVE  LET e == send_rcv_retry_clr(d)
         IN  /\ IsSide(e) /\ e.state = d.state /\ e.link_id = d.link_id
             /\ e.link_id_filter = d.link_id_filter /\ e.trans_num = d.trans_num
             /\ e.trans_num_last = d.trans_num_last /\ e.rsp_ack_transnum = d.rsp_ack_transnum
             /\ e.cmd_retry_flag = FALSE /\ e.ack_retry_flag = FALSE /\ e.tx = <<>>
<1>1. <<>> \in Seq(Packets) /\ Len(<<>>) = 0 /\ 0 <= Cap
  BY PbAdvAssumption
<1>2. d \in Sides
  BY DEF IsSide
<1>3. send_rcv_retry_clr(d) = [d EXCEPT !.cmd_retry_flag = FALSE, !.ack_retry_flag = FALSE, !.tx = <<>>]
  BY DEF send_rcv_retry_clr
<1>4. send_rcv_retry_clr(d) \in Sides /\ send_rcv_retry_clr(d).tx = <<>>
  BY <1>1, <1>2, <1>3 DEF Sides
<1> QED BY <1>1, <1>2, <1>3, <1>4 DEF IsSide, Sides

LEMMA ClearedAndAcked ==
  ASSUME NEW d, IsSide(d), NEW m \in Packets
  PROVE  LET e == Ack(send_rcv_retry_clr([d EXCEPT !.rsp_ack_transnum = m.trans_num]))
         IN  /\ IsSide(e) /\ e.state = d.state /\ e.link_id = d.link_id
             /\ e.link_id_filter = d.link_id_filter /\ e.trans_num = d.trans_num
             /\ e.trans_num_last = d.trans_num_last /\ e.rsp_ack_transnum = m.trans_num
             /\ e.cmd_retry_flag = FALSE /\ e.ack_retry_flag = FALSE
             /\ Grows(<<>>, e.tx, PacketsOf(d.link_id, "ACK", m.trans_num))
<1> DEFINE g == [d EXCEPT !.rsp_ack_transnum = m.trans_num]
           f == send_rcv_retry_clr(g)
<1>1. /\ IsSide(g) /\ g.state = d.state /\ g.link_id = d.link_id
      /\ g.link_id_filter = d.link_id_filter /\ g.trans_num = d.trans_num
      /\ g.trans_num_last = d.trans_num_last /\ g.rsp_ack_transnum = m.trans_num
  BY DEF Packets, IsSide, Sides
<1> HIDE DEF g
<1>2. /\ IsSide(f) /\ f.state = d.state /\ f.link_id = d.link_id
      /\ f.link_id_filter = d.link_id_filter /\ f.trans_num = d.trans_num
      /\ f.trans_num_last = d.trans_num_last /\ f.rsp_ack_transnum = m.trans_num
      /\ f.cmd_retry_flag = FALSE /\ f.ack_retry_flag = FALSE /\ f.tx = <<>>
  BY <1>1, ClearIs
<1> HIDE DEF f
<1>3. /\ IsSide(Ack(f)) /\ Same(f, Ack(f))
      /\ Grows(f.tx, Ack(f).tx, PacketsOf(f.link_id, "ACK", f.rsp_ack_transnum))
  BY <1>2, AckIs
<1> QED BY <1>2, <1>3 DEF Same, f, g

\* e is d when it has answered m with c, with number n.
Answered(e, d, m, c, state, n) ==
  /\ IsSide(e) /\ e.state = state /\ e.link_id = d.link_id
  /\ e.link_id_filter = d.link_id_filter /\ e.rsp_ack_transnum = m.trans_num
  /\ e.trans_num = n /\ e.trans_num_last = n /\ e.pro_cmd = c
  /\ e.cmd_retry_flag = TRUE /\ e.ack_retry_flag = TRUE
  /\ Holds(e.tx, PacketsOf(d.link_id, "ACK", m.trans_num) \cup PacketsOf(d.link_id, c, n))

LEMMA AnswerIs ==
  ASSUME NEW d, IsSide(d), NEW m \in Packets, NEW cmd \in Commands, NEW state \in States
  PROVE  Answered(Answer(d, m, cmd, state), d, m, cmd, state,
                  IF cmd = "CAPABLI" THEN d.trans_num ELSE d.trans_num + 1)
<1> DEFINE n == IF cmd = "CAPABLI" THEN d.trans_num ELSE d.trans_num + 1
           a == Ack(send_rcv_retry_clr([d EXCEPT !.rsp_ack_transnum = m.trans_num]))
           s == send_multi_type_data(a, cmd)
<1>1. /\ IsSide(a) /\ a.state = d.state /\ a.link_id = d.link_id
      /\ a.link_id_filter = d.link_id_filter /\ a.trans_num = d.trans_num
      /\ a.trans_num_last = d.trans_num_last /\ a.rsp_ack_transnum = m.trans_num
      /\ a.cmd_retry_flag = FALSE /\ a.ack_retry_flag = FALSE
      /\ Grows(<<>>, a.tx, PacketsOf(d.link_id, "ACK", m.trans_num))
  BY ClearedAndAcked
<1> HIDE DEF a
<1>2. n = NumberOf(a, cmd)
  BY <1>1 DEF NumberOf
<1>3. /\ IsSide(s) /\ n \in Nat /\ s.trans_num = n
      /\ s.link_id = d.link_id /\ s.link_id_filter = d.link_id_filter
      /\ s.rsp_ack_transnum = m.trans_num
      /\ Grows(a.tx, s.tx, PacketsOf(d.link_id, cmd, n))
  BY <1>1, <1>2, SendIs
<1> HIDE DEF s, n
<1>4. Holds(s.tx, PacketsOf(d.link_id, "ACK", m.trans_num) \cup PacketsOf(d.link_id, cmd, n))
  BY <1>1, <1>3, GrownFromNothing DEF IsSide, Sides
<1>5. Answer(d, m, cmd, state) =
        [send_rcv_retry_set(s, cmd, TRUE) EXCEPT !.state = state, !.trans_num_last = s.trans_num]
  BY DEF Answer, s, a
<1>6. /\ IsSide(Answer(d, m, cmd, state))
      /\ Answer(d, m, cmd, state).state = state /\ Answer(d, m, cmd, state).link_id = s.link_id
      /\ Answer(d, m, cmd, state).link_id_filter = s.link_id_filter
      /\ Answer(d, m, cmd, state).rsp_ack_transnum = s.rsp_ack_transnum
      /\ Answer(d, m, cmd, state).trans_num = n /\ Answer(d, m, cmd, state).trans_num_last = n
      /\ Answer(d, m, cmd, state).pro_cmd = cmd /\ Answer(d, m, cmd, state).tx = s.tx
      /\ Answer(d, m, cmd, state).cmd_retry_flag = TRUE
      /\ Answer(d, m, cmd, state).ack_retry_flag = TRUE
  BY <1>3, <1>5 DEF IsSide, Sides, send_rcv_retry_set
<1> QED BY <1>3, <1>4, <1>6 DEF n, Answered

\* e is d when it has acknowledged m and waits for more.
OnlyAcked(e, d, m, state) ==
  /\ IsSide(e) /\ e.state = state /\ e.link_id = d.link_id
  /\ e.link_id_filter = d.link_id_filter /\ e.rsp_ack_transnum = m.trans_num
  /\ e.pro_cmd = "ACK" /\ e.cmd_retry_flag = TRUE /\ e.ack_retry_flag = FALSE
  /\ Holds(e.tx, PacketsOf(d.link_id, "ACK", m.trans_num))

LEMMA OnlyAckIs ==
  ASSUME NEW d, IsSide(d), NEW m \in Packets, NEW state \in States
  PROVE  OnlyAcked(OnlyAck(d, m, state), d, m, state)
<1> DEFINE a == Ack(send_rcv_retry_clr([d EXCEPT !.rsp_ack_transnum = m.trans_num]))
           e == OnlyAck(d, m, state)
<1>1. /\ IsSide(a) /\ a.link_id = d.link_id
      /\ a.link_id_filter = d.link_id_filter /\ a.rsp_ack_transnum = m.trans_num
      /\ Grows(<<>>, a.tx, PacketsOf(d.link_id, "ACK", m.trans_num))
  BY ClearedAndAcked
<1> DEFINE s == send_rcv_retry_set(a, "ACK", FALSE)
<1>2. e = [s EXCEPT !.state = state, !.trans_num_last = s.trans_num_last + 2]
  BY DEF OnlyAck
<1> HIDE DEF a, e
<1>3. /\ IsSide(s) /\ s.link_id = d.link_id
      /\ s.link_id_filter = d.link_id_filter /\ s.rsp_ack_transnum = m.trans_num
      /\ s.pro_cmd = "ACK" /\ s.cmd_retry_flag = TRUE /\ s.ack_retry_flag = FALSE /\ s.tx = a.tx
  BY <1>1 DEF IsSide, Sides, send_rcv_retry_set, Commands
<1> HIDE DEF s
<1>4. s.trans_num_last + 2 \in Nat
  BY <1>3 DEF IsSide, Sides
<1>5. /\ IsSide(e) /\ e.state = state /\ e.link_id = d.link_id
      /\ e.link_id_filter = d.link_id_filter /\ e.rsp_ack_transnum = m.trans_num
      /\ e.pro_cmd = "ACK" /\ e.cmd_retry_flag = TRUE /\ e.ack_retry_flag = FALSE /\ e.tx = a.tx
  BY <1>2, <1>3, <1>4 DEF IsSide, Sides
<1>6. Holds(a.tx, PacketsOf(d.link_id, "ACK", m.trans_num))
  BY <1>1 DEF Grows, Holds
<1> QED BY <1>5, <1>6 DEF e, OnlyAcked

\* e is d when it has said c, with number n.
Said(e, d, c, state, n) ==
  /\ IsSide(e) /\ e.state = state /\ e.link_id = d.link_id
  /\ e.link_id_filter = d.link_id_filter
  /\ e.trans_num = n /\ e.trans_num_last = n /\ e.pro_cmd = c
  /\ e.cmd_retry_flag = TRUE /\ e.ack_retry_flag = FALSE
  /\ Grows(d.tx, e.tx, PacketsOf(d.link_id, c, n))

LEMMA SayIs ==
  ASSUME NEW d, IsSide(d), NEW cmd \in Commands, NEW state \in States
  PROVE  Said(Say(d, cmd, state), d, cmd, state, NumberOf(d, cmd))
<1> DEFINE n == NumberOf(d, cmd)
           s == send_multi_type_data(d, cmd)
           e == Say(d, cmd, state)
<1>1. /\ IsSide(s) /\ n \in Nat /\ s.trans_num = n
      /\ s.link_id = d.link_id /\ s.link_id_filter = d.link_id_filter
      /\ Grows(d.tx, s.tx, PacketsOf(d.link_id, cmd, n))
  BY SendIs
<1>2. e = [send_rcv_retry_set(s, cmd, FALSE) EXCEPT !.state = state, !.trans_num_last = s.trans_num]
  BY DEF Say
<1> HIDE DEF n, s, e
<1>3. /\ IsSide(e) /\ e.state = state /\ e.link_id = s.link_id /\ e.link_id_filter = s.link_id_filter
      /\ e.trans_num = n /\ e.trans_num_last = n /\ e.pro_cmd = cmd
      /\ e.cmd_retry_flag = TRUE /\ e.ack_retry_flag = FALSE /\ e.tx = s.tx
  BY <1>1, <1>2 DEF IsSide, Sides, send_rcv_retry_set
<1> QED BY <1>1, <1>3 DEF n, e, Said

LEMMA SegIs ==
  ASSUME NEW d, IsSide(d), NEW m \in Packets
  PROVE  LET e == mesh_provision_seg_check(d, m)
         IN  IsSide(e) /\ Same(d, e) /\ e.tx = d.tx
<1> DEFINE start == IF m.trans_num = d.seg.trans_num /\ d.seg.link_id = d.link_id THEN d.seg
                    ELSE [NoSeg EXCEPT !.trans_num = m.trans_num, !.link_id = d.link_id]
           piece == [idx |-> m.idx, cmd |-> m.cmd, link_id |-> m.link_id]
           more  == [start EXCEPT !.got = @ \cup {piece},
                                  !.seg_n = IF m.idx = 0 THEN Segments(m.cmd) - 1 ELSE @]
<1>1. d.seg \in Segs /\ d.link_id \in Nat /\ piece \in Pieces /\ m.trans_num \in Nat
  BY DEF IsSide, Sides, Packets, Pieces
<1>2. NoSeg \in Segs
  BY DEF NoSeg, Segs
<1>3. start \in Segs
  BY <1>1, <1>2 DEF Segs
<1>4. Segments(m.cmd) - 1 \in Nat
  BY DEF Segments
<1> HIDE DEF start, piece
<1>5. more \in Segs
  BY <1>1, <1>3, <1>4 DEF Segs
<1>6. \/ mesh_provision_seg_check(d, m) = [d EXCEPT !.seg = start]
      \/ mesh_provision_seg_check(d, m) = [d EXCEPT !.seg = more]
  BY DEF mesh_provision_seg_check, start, piece
<1> HIDE DEF more
<1> QED BY <1>3, <1>5, <1>6 DEF IsSide, Sides, Same

-------------------------------------------------------------------------------
(* The invariant.                                                          *)

\* What a side says on a link, by its state, and the number it gives to it; of
\* the node, the number it acknowledges.
ProvSays ==
  [LINK_ESTABLISHED_ACK  |-> {"LINK_OPEN"}, STATE_DEV_CAPA_ACK    |-> {"LINK_OPEN", "INVITE"},
   STATE_PRO_START_ACK   |-> {"START"},     STATE_PRO_PUB_KEY_ACK |-> {"PUB_KEY"},
   STATE_DEV_PUB_KEY     |-> {"PUB_KEY"},   STATE_DEV_CONFIRM     |-> {"CONFIRM"},
   STATE_DEV_RANDOM      |-> {"RANDOM"},    STATE_PRO_COMPLETE    |-> {"DATA"}]
ProvNum ==
  [LINK_ESTABLISHED_ACK  |-> 0, STATE_DEV_CAPA_ACK    |-> 0, STATE_PRO_START_ACK |-> 1,
   STATE_PRO_PUB_KEY_ACK |-> 2, STATE_DEV_PUB_KEY     |-> 2, STATE_DEV_CONFIRM   |-> 3,
   STATE_DEV_RANDOM      |-> 4, STATE_PRO_COMPLETE    |-> 5]
NodeSays ==
  [LINK_ESTABLISHED    |-> {"LINK_ACK"}, STATE_DEV_CAPA        |-> {"CAPABLI"},
   STATE_PRO_START_ACK |-> {"ACK"},      STATE_DEV_PUB_KEY_ACK |-> {"ACK", "PUB_KEY"},
   STATE_DEV_CONFIRM   |-> {"CONFIRM"},  STATE_DEV_RANDOM      |-> {"RANDOM"},
   STATE_PRO_COMPLETE  |-> {"COMPLETE"}]
NodeNum ==
  [LINK_ESTABLISHED    |-> 0, STATE_DEV_CAPA        |-> 0,
   STATE_PRO_START_ACK |-> 1, STATE_DEV_PUB_KEY_ACK |-> 2,
   STATE_DEV_CONFIRM   |-> 3, STATE_DEV_RANDOM      |-> 4,
   STATE_PRO_COMPLETE  |-> 5]

\* The provisioner p is in the dialogue of its link.
Talking(p) == p.state \in DOMAIN Near

\* What the provisioner may have in its queue on its link.
ProvPacket(p, m) ==
  /\ m.link_id <= opened
  /\ m.cmd = "LINK_OPEN" => m.link_id # 0 /\ m.trans_num = 0
  /\ Talking(p) /\ m.link_id = p.link_id /\ m.cmd # "ACK" =>
       m.cmd \in ProvSays[p.state] /\ m.trans_num = p.trans_num

ProvInv(p) ==
  /\ p.link_id <= opened
  /\ Talking(p) \/ p.state \in {"LINK_UNPROVISION_STATE", "STATE_PRO_SUC"}
  /\ p.cmd_retry_flag = TRUE => Talking(p)
  /\ Talking(p) =>
       /\ p.link_id = opened /\ opened # 0 /\ p.trans_num = ProvNum[p.state]
       /\ p.state \in {"STATE_PRO_START_ACK", "STATE_PRO_PUB_KEY_ACK"} => p.trans_num_last = p.trans_num
       /\ p.state = "LINK_ESTABLISHED_ACK" => p.cmd_retry_flag = TRUE
       /\ p.state # "LINK_ESTABLISHED_ACK" => p.link_id_filter = TRUE
       /\ p.cmd_retry_flag = TRUE =>
            /\ p.pro_cmd \in ProvSays[p.state]
            /\ p.pro_cmd = "LINK_OPEN" => p.state = "LINK_ESTABLISHED_ACK"
  /\ \A i \in 1 .. Len(p.tx) : ProvPacket(p, p.tx[i])

\* The invitation follows the opening of the link.
InOrder(p) ==
  Talking(p) => \A i, j \in 1 .. Len(p.tx) :
    (i < j /\ p.tx[i].link_id = p.link_id /\ p.tx[i].cmd = "INVITE") =>
      ~(p.tx[j].link_id = p.link_id /\ p.tx[j].cmd = "LINK_OPEN")

NodeInv(n) ==
  /\ n.link_id <= opened
  /\ n.link_id = 0 <=> n.state = "LINK_UNPROVISION_STATE"
  /\ n.link_id # 0 => n.state \in DOMAIN NodeSays /\ n.link_id_filter = TRUE
  /\ n.cmd_retry_flag = TRUE => n.link_id # 0 /\ n.pro_cmd \in NodeSays[n.state]
  /\ n.state = "LINK_ESTABLISHED" => n.ack_retry_flag = FALSE
  /\ \A i \in 1 .. Len(n.tx) : n.tx[i].link_id <= opened /\ n.tx[i].link_id # 0

\* What the node may have in its queue on the link it is on.
NodePacket(n, m) ==
  m.link_id = n.link_id =>
    \/ m.cmd = "ACK" /\ m.trans_num = n.rsp_ack_transnum
    \/ m.cmd # "ACK" /\ m.cmd \in NodeSays[n.state]

\* Both are on one link.
Together(p, n) ==
  Talking(p) /\ n.link_id = p.link_id =>
    /\ n.state \in Near[p.state] /\ n.rsp_ack_transnum = NodeNum[n.state]
    /\ \A i \in 1 .. Len(n.tx) : NodePacket(n, n.tx[i])

\* The link of p may still be opened.
MayOpen(p) ==
  /\ Talking(p)
  /\ \/ p.state = "LINK_ESTABLISHED_ACK"
     \/ \E i \in 1 .. Len(p.tx) : p.tx[i].link_id = p.link_id /\ p.tx[i].cmd = "LINK_OPEN"

Early(m) == m.cmd = "LINK_ACK" \/ (m.cmd = "ACK" /\ m.trans_num = 0)

\* While a link may be opened, the node said nothing on it that came later.
Opening(p, n) ==
  MayOpen(p) =>
    /\ \A i \in 1 .. Len(n.tx) : n.tx[i].link_id = p.link_id => Early(n.tx[i])
    /\ n.link_id = p.link_id => n.state = "LINK_ESTABLISHED"

\* The node has the data of link l, or had it when it lost power.
Given(l) == l \in lost \/ net = l \/ (tick_check_complete = TRUE /\ pro_net_info = l)

\* What is given, or said to be given, is stored.
Storing(n) ==
  /\ \A l \in completed : l # 0 /\ Given(l)
  /\ \A i \in 1 .. Len(n.tx) : n.tx[i].cmd = "COMPLETE" => Given(n.tx[i].link_id)
  /\ n.state = "STATE_PRO_COMPLETE" => tick_check_complete = TRUE /\ net = 0 /\ pro_net_info = n.link_id
  /\ tick_check_complete = TRUE /\ net = 0 => n.state = "STATE_PRO_COMPLETE"
  /\ tick_check_complete = TRUE /\ net # 0 => pro_net_info = net
  /\ net # 0 => n.state = "LINK_UNPROVISION_STATE" /\ auth = TRUE
  /\ n.state \in {"STATE_DEV_RANDOM", "STATE_PRO_COMPLETE"} => auth = TRUE

Types ==
  /\ dev \in [Roles -> Sides] /\ \A r \in Roles : IsSide(dev[r])
  /\ opened \in Nat

Inv ==
  /\ Types /\ ProvInv(dev["prov"]) /\ InOrder(dev["prov"]) /\ NodeInv(dev["node"])
  /\ Together(dev["prov"], dev["node"]) /\ Opening(dev["prov"], dev["node"])
  /\ Storing(dev["node"])

-------------------------------------------------------------------------------
(* Steps of the provisioner.                                               *)

LEMMA RolesAre ==
  /\ Roles = {"prov", "node"} /\ Peer("prov") = "node" /\ Peer("node") = "prov"
  BY DEF Roles, Peer

LEMMA TalkingStates ==
  DOMAIN Near = {"LINK_ESTABLISHED_ACK", "STATE_DEV_CAPA_ACK", "STATE_PRO_START_ACK",
                 "STATE_PRO_PUB_KEY_ACK", "STATE_DEV_PUB_KEY", "STATE_DEV_CONFIRM",
                 "STATE_DEV_RANDOM", "STATE_PRO_COMPLETE"}
  BY DEF Near

LEMMA SidesAre ==
  ASSUME Inv
  PROVE  /\ IsSide(dev["prov"]) /\ IsSide(dev["node"])
         /\ dev = [r \in Roles |-> dev[r]] /\ opened \in Nat
         /\ \A i \in 1 .. Len(dev["prov"].tx) : dev["prov"].tx[i] \in Packets
         /\ \A i \in 1 .. Len(dev["node"].tx) : dev["node"].tx[i] \in Packets
  BY RolesAre DEF Inv, Types, IsSide, Sides

\* The invariant after a step of the provisioner, ...
LEMMA ProvMove ==
  ASSUME Inv, NEW e, IsSide(e), Becomes("prov", e), UNCHANGED opened,
         ProvInv(e), InOrder(e), Together(e, dev["node"]), Opening(e, dev["node"]),
         Storing(dev["node"])'
  PROVE  Inv'
<1>1. /\ dev' \in [Roles -> Sides] /\ dev'["prov"] = e /\ dev'["node"] = dev["node"]
  BY RolesAre DEF Inv, Types, Becomes, IsSide
<1>2. Types'
  BY <1>1, RolesAre DEF Inv, Types
<1>3. ProvInv(dev["prov"])' /\ InOrder(dev["prov"])' /\ NodeInv(dev["node"])'
  BY <1>1 DEF Inv, ProvInv, ProvPacket, InOrder, NodeInv, Talking
<1>4. Together(dev["prov"], dev["node"])' /\ Opening(dev["prov"], dev["node"])'
  BY <1>1 DEF Together, NodePacket, Opening, MayOpen, Talking, Early
<1> QED BY <1>2, <1>3, <1>4 DEF Inv

\* ... and of the node.
LEMMA NodeMove ==
  ASSUME Inv, NEW e, IsSide(e), Becomes("node", e), UNCHANGED opened,
         NodeInv(e), Together(dev["prov"], e), Opening(dev["prov"], e),
         Storing(dev["node"])'
  PROVE  Inv'
<1>1. /\ dev' \in [Roles -> Sides] /\ dev'["node"] = e /\ dev'["prov"] = dev["prov"]
  BY RolesAre DEF Inv, Types, Becomes, IsSide
<1>2. Types'
  BY <1>1, RolesAre DEF Inv, Types
<1>3. ProvInv(dev["prov"])' /\ InOrder(dev["prov"])' /\ NodeInv(dev["node"])'
  BY <1>1 DEF Inv, ProvInv, ProvPacket, InOrder, NodeInv, Talking
<1>4. Together(dev["prov"], dev["node"])' /\ Opening(dev["prov"], dev["node"])'
  BY <1>1 DEF Together, NodePacket, Opening, MayOpen, Talking, Early
<1> QED BY <1>2, <1>3, <1>4 DEF Inv

\* The provisioner hears what it waited for: it clears its queue and says c.
LEMMA ProvAdvance ==
  ASSUME Inv, NEW e, IsSide(e),
         Talking(dev["prov"]), e.link_id = dev["prov"].link_id, e.link_id_filter = TRUE,
         e.state \in DOMAIN Near \ {"LINK_ESTABLISHED_ACK", "STATE_DEV_CAPA_ACK"},
         e.trans_num = ProvNum[e.state], e.trans_num_last = e.trans_num,
         NEW c \in ProvSays[e.state], e.pro_cmd = c,
         NEW k, Holds(e.tx, PacketsOf(e.link_id, "ACK", k) \cup PacketsOf(e.link_id, c, e.trans_num)),
         dev["node"].link_id = e.link_id => dev["node"].state \in Near[e.state]
  PROVE  ProvInv(e) /\ InOrder(e) /\ Together(e, dev["node"]) /\ Opening(e, dev["node"])
<1>1. /\ Together(dev["prov"], dev["node"]) /\ opened \in Nat
      /\ e.link_id = opened /\ opened # 0 /\ Talking(e)
  BY DEF Inv, Types, ProvInv, Talking
<1>2. c \notin {"LINK_OPEN", "INVITE", "ACK"}
  BY TalkingStates DEF ProvSays
<1>3. ASSUME NEW i \in 1 .. Len(e.tx)
      PROVE  /\ e.tx[i].link_id = e.link_id
             /\ e.tx[i].cmd = "ACK" \/ (e.tx[i].cmd = c /\ e.tx[i].trans_num = e.trans_num)
  BY DEF Holds, PacketsOf
<1>4. \A i \in 1 .. Len(e.tx) : ProvPacket(e, e.tx[i])
  BY <1>1, <1>2, <1>3 DEF ProvPacket
<1>5. ProvInv(e)
  BY <1>1, <1>2, <1>4 DEF ProvInv
<1>6. InOrder(e) /\ Opening(e, dev["node"])
  BY <1>2, <1>3 DEF InOrder, Opening, MayOpen
<1>7. Together(e, dev["node"])
  BY <1>1 DEF Together
<1> QED BY <1>5, <1>6, <1>7

\* The provisioner says more of what it says in its state.
LEMMA ProvGrow ==
  ASSUME Inv, NEW e, IsSide(e), Same(dev["prov"], e), NEW S, Grows(dev["prov"].tx, e.tx, S),
         \A m \in S : /\ ProvPacket(dev["prov"], m)
                      /\ m.cmd = "LINK_OPEN" => dev["prov"].state = "LINK_ESTABLISHED_ACK"
  PROVE  ProvInv(e) /\ InOrder(e) /\ Together(e, dev["node"]) /\ Opening(e, dev["node"])
<1> DEFINE p == dev["prov"]
<1>1. /\ ProvInv(p) /\ InOrder(p) /\ Together(p, dev["node"]) /\ Opening(p, dev["node"])
      /\ IsSide(p) /\ Len(p.tx) \in Nat /\ Len(e.tx) \in Nat
  BY SidesAre DEF Inv, IsSide, Sides
<1> HIDE DEF p
<1>2. /\ e.state = p.state /\ e.link_id = p.link_id /\ e.link_id_filter = p.link_id_filter
      /\ e.trans_num = p.trans_num /\ e.trans_num_last = p.trans_num_last
      /\ e.pro_cmd = p.pro_cmd /\ e.cmd_retry_flag = p.cmd_retry_flag
      /\ Talking(e) = Talking(p)
  BY DEF Same, p, Talking
<1>3. ASSUME NEW i \in 1 .. Len(e.tx)
      PROVE  \/ i \in 1 .. Len(p.tx) /\ e.tx[i] = p.tx[i]
             \/ /\ i > Len(p.tx) /\ ProvPacket(p, e.tx[i])
                /\ e.tx[i].cmd = "LINK_OPEN" => p.state = "LINK_ESTABLISHED_ACK"
  BY <1>1 DEF Grows, p
<1>4. \A i \in 1 .. Len(e.tx) : ProvPacket(p, e.tx[i])
  BY <1>1, <1>3 DEF ProvInv
<1>5. ProvInv(e)
  BY <1>1, <1>2, <1>4 DEF ProvInv, ProvPacket
<1>6. InOrder(e)
  <2> SUFFICES ASSUME Talking(p), NEW i \in 1 .. Len(e.tx), NEW j \in 1 .. Len(e.tx), i < j,
                      e.tx[i].link_id = p.link_id, e.tx[i].cmd = "INVITE",
                      e.tx[j].link_id = p.link_id, e.tx[j].cmd = "LINK_OPEN"
               PROVE  FALSE
    BY <1>2 DEF InOrder
  <2>1. CASE j \in 1 .. Len(p.tx)
    <3>1. i \in 1 .. Len(p.tx) /\ e.tx[i] = p.tx[i] /\ e.tx[j] = p.tx[j]
      BY <1>1, <1>3, <2>1
    <3> QED BY <1>1, <2>1, <3>1 DEF InOrder
  <2>2. CASE j \notin 1 .. Len(p.tx)
    <3>1. p.state = "LINK_ESTABLISHED_ACK"
      BY <1>3, <2>2
    <3> QED BY <1>4, <3>1 DEF ProvPacket, ProvSays
  <2> QED BY <2>1, <2>2
<1>7. Together(e, dev["node"])
  BY <1>1, <1>2 DEF Together
<1>8. MayOpen(e) => MayOpen(p)
  BY <1>2, <1>3 DEF MayOpen
<1>9. Opening(e, dev["node"])
  BY <1>1, <1>2, <1>8 DEF Opening
<1> QED BY <1>5, <1>6, <1>7, <1>9

\* The provisioner e is in no dialogue any more.
Quiet(e) ==
  /\ IsSide(e) /\ e.state \in {"LINK_UNPROVISION_STATE", "STATE_PRO_SUC"}
  /\ e.cmd_retry_flag = FALSE /\ e.link_id <= opened
  /\ \A i \in 1 .. Len(e.tx) :
       /\ e.tx[i].link_id <= opened
       /\ e.tx[i].cmd = "LINK_OPEN" => e.tx[i].link_id # 0 /\ e.tx[i].trans_num = 0

LEMMA ProvQuiet ==
  ASSUME NEW e, Quiet(e)
  PROVE  ProvInv(e) /\ InOrder(e) /\ Together(e, dev["node"]) /\ Opening(e, dev["node"])
<1>1. ~Talking(e)
  BY TalkingStates DEF Talking, Quiet
<1> QED BY <1>1 DEF Quiet, ProvInv, ProvPacket, InOrder, Together, Opening, MayOpen

LEMMA StoringStays ==
  ASSUME Inv, dev'["node"] = dev["node"],
         UNCHANGED <<net, pro_net_info, tick_check_complete, lost, completed, auth>>
  PROVE  Storing(dev["node"])'
  BY DEF Inv, Storing, Given

\* d is the side r with the segments of m looked at; m is at the head of its peer's queue.
Hears(r, d, m) ==
  /\ IsSide(d) /\ Same(dev[r], d) /\ d.tx = dev[r].tx
  /\ Len(dev[Peer(r)].tx) > 0 /\ m = dev[Peer(r)].tx[1]
  /\ dev[r].link_id_filter = TRUE => m.link_id = dev[r].link_id

\* What the provisioner knows of a message on its link.
ProvKnows(d, m) ==
  LET p == dev["prov"]
      n == dev["node"]
  IN  /\ m \in Packets /\ IsSide(d) /\ d.tx = p.tx
      /\ d.state = p.state /\ d.link_id = p.link_id /\ d.link_id_filter = p.link_id_filter
      /\ d.trans_num = p.trans_num /\ d.trans_num_last = p.trans_num_last
      /\ d.cmd_retry_flag = p.cmd_retry_flag /\ d.pro_cmd = p.pro_cmd
      /\ d.state \in DOMAIN Awaits["prov"]
      /\ m.cmd = "COMPLETE" => Given(m.link_id)
      /\ Talking(p) /\ d.state # "LINK_ESTABLISHED_ACK" =>
           /\ d.link_id_filter = TRUE /\ m.link_id = d.link_id
           /\ n.link_id = d.link_id =>
                /\ n.state \in Near[d.state]
                /\ \/ m.cmd = "ACK" /\ m.trans_num = NodeNum[n.state]
                   \/ m.cmd # "ACK" /\ m.cmd \in NodeSays[n.state]

LEMMA ProvHears ==
  ASSUME Inv, NEW d, NEW m, Hears("prov", d, m)
  PROVE  ProvKnows(d, m)
<1>1. /\ m = dev["node"].tx[1] /\ 1 \in 1 .. Len(dev["node"].tx)
      /\ IsSide(d) /\ Same(dev["prov"], d) /\ d.tx = dev["prov"].tx
      /\ dev["prov"].link_id_filter = TRUE => m.link_id = dev["prov"].link_id
  <2>1. Len(dev["node"].tx) \in Nat
    BY SidesAre DEF IsSide, Sides
  <2> QED BY <2>1, RolesAre DEF Hears
<1>2. m \in Packets
  BY <1>1, SidesAre
<1>3. ProvInv(dev["prov"]) /\ Together(dev["prov"], dev["node"]) /\ Storing(dev["node"])
  BY DEF Inv
<1>4. dev["prov"].state \in DOMAIN Awaits["prov"]
  BY <1>3, TalkingStates DEF ProvInv, Talking, Awaits
<1> QED BY <1>1, <1>2, <1>3, <1>4 DEF ProvKnows, Same, ProvInv, Together, NodePacket, Storing

LEMMA ProvLinkAckKeeps ==
  ASSUME Inv, NEW d, NEW m, Hears("prov", d, m), Expected("prov", d, m), ProvLinkAck(d, m),
         UNCHANGED <<opened, net, pro_net_info, tick_check_complete, lost, auth>>
  PROVE  Inv'
<1> DEFINE p == dev["prov"]
           f == [d EXCEPT !.rsp_ack_transnum = 0]
           s == Say(f, "INVITE", "STATE_DEV_CAPA_ACK")
           e == [s EXCEPT !.link_id_filter = TRUE]
<1>1. /\ m.cmd = "LINK_ACK" /\ Becomes("prov", e) /\ completed' = completed
      /\ Awaits["prov"][d.state] = "LINK_ACK"
  BY DEF ProvLinkAck, Expected
<1>2. ProvKnows(d, m) /\ d.state = "LINK_ESTABLISHED_ACK"
  <2>1. ProvKnows(d, m)
    BY ProvHears
  <2>2. d.state \in DOMAIN Awaits["prov"]
    BY <2>1 DEF ProvKnows
  <2> QED BY <1>1, <2>1, <2>2 DEF Awaits
<1>3. /\ p.state = "LINK_ESTABLISHED_ACK" /\ Talking(p) /\ p.cmd_retry_flag = TRUE /\ p.trans_num = 0
      /\ p.link_id = opened /\ opened # 0 /\ opened \in Nat
      /\ ProvInv(p) /\ InOrder(p) /\ Together(p, dev["node"]) /\ Opening(p, dev["node"])
  <2>1. p.state = "LINK_ESTABLISHED_ACK"
    BY <1>2 DEF ProvKnows
  <2>2. Talking(p) /\ ProvNum["LINK_ESTABLISHED_ACK"] = 0
    BY <2>1, TalkingStates DEF Talking, ProvNum
  <2> QED BY <2>1, <2>2, SidesAre DEF Inv, ProvInv
<1>4. /\ IsSide(f) /\ f.link_id = p.link_id /\ f.cmd_retry_flag = TRUE /\ f.trans_num = 0
      /\ f.tx = p.tx
  BY <1>2, <1>3 DEF ProvKnows, IsSide, Sides
<1> HIDE DEF f, p
<1>5. "INVITE" \in Commands /\ "STATE_DEV_CAPA_ACK" \in States /\ NumberOf(f, "INVITE") = 0
  BY <1>4 DEF Commands, States, NumberOf
<1>6. /\ IsSide(s) /\ s.state = "STATE_DEV_CAPA_ACK" /\ s.link_id = p.link_id
      /\ s.trans_num = 0 /\ s.trans_num_last = 0 /\ s.pro_cmd = "INVITE"
      /\ s.cmd_retry_flag = TRUE /\ Grows(p.tx, s.tx, PacketsOf(p.link_id, "INVITE", 0))
  <2>1. Said(s, f, "INVITE", "STATE_DEV_CAPA_ACK", NumberOf(f, "INVITE"))
    BY <1>4, <1>5, SayIs
  <2> QED BY <1>4, <1>5, <2>1 DEF Said
<1> HIDE DEF s
<1>7. /\ IsSide(e) /\ e.state = "STATE_DEV_CAPA_ACK" /\ e.link_id = p.link_id
      /\ e.trans_num = 0 /\ e.pro_cmd = "INVITE" /\ e.link_id_filter = TRUE /\ e.tx = s.tx
  BY <1>6 DEF IsSide, Sides
<1> HIDE DEF e
<1>8. /\ Talking(e) /\ ProvNum[e.state] = 0 /\ ProvSays[e.state] = {"LINK_OPEN", "INVITE"}
      /\ ProvSays[p.state] = {"LINK_OPEN"}
  BY <1>3, <1>7, TalkingStates DEF Talking, ProvNum, ProvSays
<1>9. Len(p.tx) \in Nat /\ Len(e.tx) \in Nat
  BY <1>7, SidesAre DEF IsSide, Sides, p
<1>10. ASSUME NEW i \in 1 .. Len(e.tx)
       PROVE  \/ i \in 1 .. Len(p.tx) /\ e.tx[i] = p.tx[i] /\ ProvPacket(p, e.tx[i])
              \/ i > Len(p.tx) /\ e.tx[i].link_id = p.link_id /\ e.tx[i].cmd = "INVITE" /\ e.tx[i].trans_num = 0
  BY <1>3, <1>6, <1>7, <1>9 DEF Grows, PacketsOf, ProvInv
<1>11. \A i \in 1 .. Len(e.tx) : ProvPacket(e, e.tx[i])
  BY <1>3, <1>7, <1>8, <1>10 DEF ProvPacket
<1>12. ProvInv(e)
  BY <1>3, <1>7, <1>8, <1>11 DEF ProvInv
<1>13. InOrder(e)
  BY <1>3, <1>7, <1>8, <1>9, <1>10 DEF InOrder, ProvPacket
<1>14. Together(e, dev["node"])
  BY <1>3, <1>7, <1>8 DEF Together, Near
<1>15. MayOpen(p)
  BY <1>3 DEF MayOpen
<1>16. Opening(e, dev["node"])
  BY <1>3, <1>7, <1>15 DEF Opening
<1>17. dev'["node"] = dev["node"]
  BY <1>1, RolesAre DEF Becomes, Inv, Types
<1>18. Storing(dev["node"])'
  BY <1>1, <1>17, StoringStays
<1> QED BY <1>1, <1>7, <1>12, <1>13, <1>14, <1>16, <1>18, ProvMove

\* The provisioner answers m with c and goes to state st.
LEMMA ProvAnswers ==
  ASSUME Inv, NEW d, NEW m, ProvKnows(d, m), Talking(dev["prov"]),
         d.state # "LINK_ESTABLISHED_ACK", NEW c \in Commands, c # "CAPABLI",
         NEW st \in States, st \in DOMAIN Near \ {"LINK_ESTABLISHED_ACK", "STATE_DEV_CAPA_ACK"},
         c \in ProvSays[st], ProvNum[d.state] + 1 = ProvNum[st],
         dev["node"].link_id = d.link_id => dev["node"].state \in Near[st],
         Becomes("prov", Answer(d, m, c, st)),
         UNCHANGED <<opened, net, pro_net_info, tick_check_complete, lost, completed, auth>>
  PROVE  Inv'
<1> DEFINE e == Answer(d, m, c, st)
<1>1. /\ IsSide(d) /\ m \in Packets /\ d.link_id = dev["prov"].link_id /\ d.link_id_filter = TRUE
      /\ d.trans_num = ProvNum[d.state]
  BY DEF ProvKnows, Inv, ProvInv
<1>2. Answered(e, d, m, c, st, IF c = "CAPABLI" THEN d.trans_num ELSE d.trans_num + 1)
  BY <1>1, AnswerIs
<1> HIDE DEF e
<1>3. /\ IsSide(e) /\ e.state = st /\ e.link_id = d.link_id /\ e.link_id_filter = TRUE
      /\ e.trans_num = ProvNum[st] /\ e.trans_num_last = e.trans_num /\ e.pro_cmd = c
      /\ Holds(e.tx, PacketsOf(e.link_id, "ACK", m.trans_num) \cup PacketsOf(e.link_id, c, e.trans_num))
  BY <1>1, <1>2 DEF Answered
<1>4. ProvInv(e) /\ InOrder(e) /\ Together(e, dev["node"]) /\ Opening(e, dev["node"])
  BY <1>1, <1>3, ProvAdvance
<1>5. Becomes("prov", e)
  BY DEF e
<1>6. dev'["node"] = dev["node"]
  BY <1>5, RolesAre DEF Becomes, Inv, Types
<1>7. Storing(dev["node"])'
  BY <1>6, StoringStays
<1> QED BY <1>3, <1>4, <1>5, <1>7, ProvMove

\* The provisioner says c, with an empty queue, and goes to state st.
LEMMA ProvGoesOn ==
  ASSUME Inv, NEW d, NEW m, ProvKnows(d, m), Talking(dev["prov"]),
         d.state # "LINK_ESTABLISHED_ACK", NEW c \in Commands, c # "CAPABLI",
         NEW st \in States, st \in DOMAIN Near \ {"LINK_ESTABLISHED_ACK", "STATE_DEV_CAPA_ACK"},
         c \in ProvSays[st], ProvNum[d.state] + 1 = ProvNum[st],
         dev["node"].link_id = d.link_id => dev["node"].state \in Near[st],
         Becomes("prov", Say(send_rcv_retry_clr(d), c, st)),
         UNCHANGED <<opened, net, pro_net_info, tick_check_complete, lost, completed, auth>>
  PROVE  Inv'
<1> DEFINE f == send_rcv_retry_clr(d)
           e == Say(f, c, st)
<1>1. /\ IsSide(d) /\ d.link_id = dev["prov"].link_id /\ d.link_id_filter = TRUE
      /\ d.trans_num = ProvNum[d.state]
  BY DEF ProvKnows, Inv, ProvInv
<1>2. /\ IsSide(f) /\ f.link_id = d.link_id /\ f.link_id_filter = TRUE
      /\ f.trans_num = d.trans_num /\ f.cmd_retry_flag = FALSE /\ f.tx = <<>>
  BY <1>1, ClearIs
<1> HIDE DEF f
<1>3. NumberOf(f, c) = ProvNum[st]
  BY <1>1, <1>2 DEF NumberOf
<1>4. Said(e, f, c, st, NumberOf(f, c))
  BY <1>2, SayIs
<1> HIDE DEF e
<1>5. /\ IsSide(e) /\ e.state = st /\ e.link_id = d.link_id /\ e.link_id_filter = TRUE
      /\ e.trans_num = ProvNum[st] /\ e.trans_num_last = e.trans_num /\ e.pro_cmd = c
      /\ Grows(<<>>, e.tx, PacketsOf(e.link_id, c, e.trans_num))
  BY <1>2, <1>3, <1>4 DEF Said
<1>6. Holds(e.tx, PacketsOf(e.link_id, "ACK", 0) \cup PacketsOf(e.link_id, c, e.trans_num))
  BY <1>5 DEF Grows, Holds
<1>7. ProvInv(e) /\ InOrder(e) /\ Together(e, dev["node"]) /\ Opening(e, dev["node"])
  BY <1>1, <1>5, <1>6, ProvAdvance
<1>8. Becomes("prov", e)
  BY DEF e, f
<1>9. dev'["node"] = dev["node"]
  BY <1>8, RolesAre DEF Becomes, Inv, Types
<1>10. Storing(dev["node"])'
  BY <1>9, StoringStays
<1> QED BY <1>5, <1>7, <1>8, <1>10, ProvMove

\* The state in which the provisioner waits for what it heard.
LEMMA ProvAwaits ==
  ASSUME Inv, NEW d, NEW m, ProvKnows(d, m), Expected("prov", d, m)
  PROVE  /\ Talking(dev["prov"])
         /\ m.cmd = "CAPABLI" => d.state = "STATE_DEV_CAPA_ACK"
         /\ m.cmd = "ACK" => d.state \in {"STATE_PRO_START_ACK", "STATE_PRO_PUB_KEY_ACK"}
         /\ m.cmd = "PUB_KEY" => d.state = "STATE_DEV_PUB_KEY"
         /\ m.cmd = "CONFIRM" => d.state = "STATE_DEV_CONFIRM"
         /\ m.cmd = "RANDOM" => d.state = "STATE_DEV_RANDOM"
         /\ m.cmd = "COMPLETE" => d.state = "STATE_PRO_COMPLETE"
<1>1. /\ m.cmd = Awaits["prov"][d.state] /\ d.state \in DOMAIN Awaits["prov"]
      /\ m.cmd \in Commands /\ d.state = dev["prov"].state
  BY DEF Expected, ProvKnows, Packets
<1> QED BY <1>1, TalkingStates DEF Awaits, Talking, Commands

LEMMA ProvAnswersKeep ==
  ASSUME Inv, NEW d, NEW m, Hears("prov", d, m), Expected("prov", d, m),
         ProvCapabli(d, m) \/ ProvPubKey(d, m) \/ ProvConfirm(d, m) \/ ProvRandom(d, m),
         UNCHANGED <<opened, net, pro_net_info, tick_check_complete, lost, auth>>
  PROVE  Inv'
<1>1. ProvKnows(d, m)
  BY ProvHears
<1>2. Talking(dev["prov"])
  BY <1>1, ProvAwaits
<1>3. CASE ProvCapabli(d, m)
  <2> DEFINE st == "STATE_PRO_START_ACK"
             c == "START"
  <2>1. d.state = "STATE_DEV_CAPA_ACK" /\ m.cmd = "CAPABLI"
    BY <1>1, <1>3, ProvAwaits DEF ProvCapabli
  <2>2. dev["node"].link_id = d.link_id => dev["node"].state \in Near[st]
    BY <1>1, <1>2, <2>1 DEF ProvKnows, Near, NodeSays
  <2>3. Becomes("prov", Answer(d, m, c, st)) /\ UNCHANGED completed
    BY <1>3 DEF ProvCapabli
  <2>4. /\ c \in Commands /\ c # "CAPABLI" /\ c \in ProvSays[st] /\ ProvNum[d.state] + 1 = ProvNum[st]
        /\ st \in States /\ st \in DOMAIN Near \ {"LINK_ESTABLISHED_ACK", "STATE_DEV_CAPA_ACK"}
        /\ d.state # "LINK_ESTABLISHED_ACK"
    BY <2>1, TalkingStates DEF Commands, States, ProvSays, ProvNum
  <2> HIDE DEF st, c
  <2> QED BY <1>1, <1>2, <2>2, <2>3, <2>4, ProvAnswers
<1>4. CASE ProvPubKey(d, m)
  <2> DEFINE st == "STATE_DEV_CONFIRM"
             c == "CONFIRM"
  <2>1. d.state = "STATE_DEV_PUB_KEY" /\ m.cmd = "PUB_KEY"
    BY <1>1, <1>4, ProvAwaits DEF ProvPubKey
  <2>2. dev["node"].link_id = d.link_id => dev["node"].state \in Near[st]
    BY <1>1, <1>2, <2>1 DEF ProvKnows, Near, NodeSays
  <2>3. Becomes("prov", Answer(d, m, c, st)) /\ UNCHANGED completed
    BY <1>4 DEF ProvPubKey
  <2>4. /\ c \in Commands /\ c # "CAPABLI" /\ c \in ProvSays[st] /\ ProvNum[d.state] + 1 = ProvNum[st]
        /\ st \in States /\ st \in DOMAIN Near \ {"LINK_ESTABLISHED_ACK", "STATE_DEV_CAPA_ACK"}
        /\ d.state # "LINK_ESTABLISHED_ACK"
    BY <2>1, TalkingStates DEF Commands, States, ProvSays, ProvNum
  <2> HIDE DEF st, c
  <2> QED BY <1>1, <1>2, <2>2, <2>3, <2>4, ProvAnswers
<1>5. CASE ProvConfirm(d, m)
  <2> DEFINE st == "STATE_DEV_RANDOM"
             c == "RANDOM"
  <2>1. d.state = "STATE_DEV_CONFIRM" /\ m.cmd = "CONFIRM"
    BY <1>1, <1>5, ProvAwaits DEF ProvConfirm
  <2>2. dev["node"].link_id = d.link_id => dev["node"].state \in Near[st]
    BY <1>1, <1>2, <2>1 DEF ProvKnows, Near, NodeSays
  <2>3. Becomes("prov", Answer(d, m, c, st)) /\ UNCHANGED completed
    BY <1>5 DEF ProvConfirm
  <2>4. /\ c \in Commands /\ c # "CAPABLI" /\ c \in ProvSays[st] /\ ProvNum[d.state] + 1 = ProvNum[st]
        /\ st \in States /\ st \in DOMAIN Near \ {"LINK_ESTABLISHED_ACK", "STATE_DEV_CAPA_ACK"}
        /\ d.state # "LINK_ESTABLISHED_ACK"
    BY <2>1, TalkingStates DEF Commands, States, ProvSays, ProvNum
  <2> HIDE DEF st, c
  <2> QED BY <1>1, <1>2, <2>2, <2>3, <2>4, ProvAnswers
<1>6. CASE ProvRandom(d, m)
  <2> DEFINE st == "STATE_PRO_COMPLETE"
             c == "DATA"
  <2>1. d.state = "STATE_DEV_RANDOM" /\ m.cmd = "RANDOM"
    BY <1>1, <1>6, ProvAwaits DEF ProvRandom
  <2>2. dev["node"].link_id = d.link_id => dev["node"].state \in Near[st]
    BY <1>1, <1>2, <2>1 DEF ProvKnows, Near, NodeSays
  <2>3. Becomes("prov", Answer(d, m, c, st)) /\ UNCHANGED completed
    BY <1>6 DEF ProvRandom
  <2>4. /\ c \in Commands /\ c # "CAPABLI" /\ c \in ProvSays[st] /\ ProvNum[d.state] + 1 = ProvNum[st]
        /\ st \in States /\ st \in DOMAIN Near \ {"LINK_ESTABLISHED_ACK", "STATE_DEV_CAPA_ACK"}
        /\ d.state # "LINK_ESTABLISHED_ACK"
    BY <2>1, TalkingStates DEF Commands, States, ProvSays, ProvNum
  <2> HIDE DEF st, c
  <2> QED BY <1>1, <1>2, <2>2, <2>3, <2>4, ProvAnswers
<1> QED BY <1>3, <1>4, <1>5, <1>6

LEMMA ProvStartAckedKeeps ==
  ASSUME Inv, NEW d, NEW m, Hears("prov", d, m), Expected("prov", d, m), ProvStartAcked(d, m),
         UNCHANGED <<opened, net, pro_net_info, tick_check_complete, lost, auth>>
  PROVE  Inv'
<1> DEFINE st == "STATE_PRO_PUB_KEY_ACK"
           c == "PUB_KEY"
<1>1. ProvKnows(d, m)
  BY ProvHears
<1>2. d.state = "STATE_PRO_START_ACK" /\ m.cmd = "ACK" /\ Talking(dev["prov"])
  BY <1>1, ProvAwaits DEF ProvStartAcked
<1>3. d.trans_num_last = 1 /\ m.trans_num >= 1
  BY <1>1, <1>2 DEF ProvKnows, Inv, ProvInv, ProvNum, Expected, Acked
<1>4. dev["node"].link_id = d.link_id => dev["node"].state \in Near[st]
  BY <1>1, <1>2, <1>3 DEF ProvKnows, Near, NodeNum
<1>5. Becomes("prov", Say(send_rcv_retry_clr(d), c, st)) /\ UNCHANGED completed
  BY DEF ProvStartAcked
<1>6. /\ c \in Commands /\ c # "CAPABLI" /\ c \in ProvSays[st] /\ ProvNum[d.state] + 1 = ProvNum[st]
      /\ st \in States /\ st \in DOMAIN Near \ {"LINK_ESTABLISHED_ACK", "STATE_DEV_CAPA_ACK"}
      /\ d.state # "LINK_ESTABLISHED_ACK"
  BY <1>2, TalkingStates DEF Commands, States, ProvSays, ProvNum
<1> HIDE DEF st, c
<1> QED BY <1>1, <1>2, <1>4, <1>5, <1>6, ProvGoesOn

LEMMA ProvPubKeyAckedKeeps ==
  ASSUME Inv, NEW d, NEW m, Hears("prov", d, m), Expected("prov", d, m), ProvPubKeyAcked(d, m),
         UNCHANGED <<opened, net, pro_net_info, tick_check_complete, lost, auth>>
  PROVE  Inv'
<1> DEFINE p == dev["prov"]
<1>1. ProvKnows(d, m)
  BY ProvHears
<1>2. d.state = "STATE_PRO_PUB_KEY_ACK" /\ m.cmd = "ACK" /\ Talking(p)
  BY <1>1, ProvAwaits DEF ProvPubKeyAcked
<1>3. d.trans_num_last = 2 /\ m.trans_num >= 2
  BY <1>1, <1>2 DEF ProvKnows, Inv, ProvInv, ProvNum, Expected, Acked
<1>4. dev["node"].link_id = d.link_id => dev["node"].state = "STATE_DEV_PUB_KEY_ACK"
  BY <1>1, <1>2, <1>3 DEF ProvKnows, Near, NodeNum
<1>5. UNCHANGED completed
  BY DEF ProvPubKeyAcked
<1>6. CASE Becomes("prov", Say(send_rcv_retry_clr(d), "CONFIRM", "STATE_DEV_CONFIRM"))
  <2> DEFINE st == "STATE_DEV_CONFIRM"
             c == "CONFIRM"
  <2>1. /\ c \in Commands /\ c # "CAPABLI" /\ c \in ProvSays[st] /\ ProvNum[d.state] + 1 = ProvNum[st]
        /\ st \in States /\ st \in DOMAIN Near \ {"LINK_ESTABLISHED_ACK", "STATE_DEV_CAPA_ACK"}
        /\ d.state # "LINK_ESTABLISHED_ACK"
    BY <1>2, TalkingStates DEF Commands, States, ProvSays, ProvNum
  <2>2. dev["node"].link_id = d.link_id => dev["node"].state \in Near[st]
    BY <1>4 DEF Near
  <2>3. Becomes("prov", Say(send_rcv_retry_clr(d), c, st))
    BY <1>6
  <2> HIDE DEF st, c
  <2> QED BY <1>1, <1>2, <1>5, <2>1, <2>2, <2>3, ProvGoesOn
<1>7. CASE Becomes("prov", [d EXCEPT !.state = "STATE_DEV_PUB_KEY"])
  <2> DEFINE e == [d EXCEPT !.state = "STATE_DEV_PUB_KEY"]
  <2>1. /\ IsSide(d) /\ d.state = p.state /\ d.link_id = p.link_id /\ d.link_id_filter = p.link_id_filter
        /\ d.trans_num = p.trans_num /\ d.cmd_retry_flag = p.cmd_retry_flag
        /\ d.pro_cmd = p.pro_cmd /\ d.tx = p.tx
    BY <1>1 DEF ProvKnows
  <2>2. /\ ProvInv(p) /\ p.state = "STATE_PRO_PUB_KEY_ACK"
    BY <1>2, <2>1 DEF Inv
  <2> HIDE DEF p
  <2>3. /\ IsSide(e) /\ e.state = "STATE_DEV_PUB_KEY" /\ e.link_id = p.link_id
        /\ e.link_id_filter = p.link_id_filter /\ e.trans_num = p.trans_num
        /\ e.cmd_retry_flag = p.cmd_retry_flag /\ e.pro_cmd = p.pro_cmd /\ e.tx = p.tx
    BY <2>1 DEF IsSide, Sides, States
  <2> HIDE DEF e
  <2>4. /\ Talking(e) /\ ProvSays[e.state] = {"PUB_KEY"} /\ ProvSays[p.state] = {"PUB_KEY"}
        /\ ProvNum[e.state] = 2 /\ ProvNum[p.state] = 2
    BY <2>2, <2>3, TalkingStates DEF Talking, ProvSays, ProvNum
  <2>5. ProvInv(e)
    BY <1>2, <2>2, <2>3, <2>4 DEF ProvInv, ProvPacket
  <2>6. InOrder(e) /\ Opening(e, dev["node"])
    BY <1>2, <2>2, <2>3, <2>4 DEF ProvInv, ProvPacket, InOrder, Opening, MayOpen
  <2>7. Together(e, dev["node"])
    <3>1. Together(p, dev["node"])
      BY DEF Inv, p
    <3> QED BY <1>2, <1>4, <2>1, <2>3, <3>1 DEF Together, Near
  <2>8. dev'["node"] = dev["node"]
    BY <1>7, RolesAre DEF Becomes, Inv, Types
  <2>9. Storing(dev["node"])'
    BY <1>5, <2>8, StoringStays
  <2> QED BY <1>7, <2>3, <2>5, <2>6, <2>7, <2>9, ProvMove DEF e
<1> QED BY <1>6, <1>7 DEF ProvPubKeyAcked

LEMMA ProvCompleteKeeps ==
  ASSUME Inv, NEW d, NEW m, Hears("prov", d, m), Expected("prov", d, m), ProvComplete(d, m),
         UNCHANGED <<opened, net, pro_net_info, tick_check_complete, lost, auth>>
  PROVE  Inv'
<1> DEFINE a == Ack(send_rcv_retry_clr([d EXCEPT !.rsp_ack_transnum = m.trans_num]))
           e == mesh_provision_para_reset(a)
<1>1. ProvKnows(d, m)
  BY ProvHears
<1>2. d.state = "STATE_PRO_COMPLETE" /\ m.cmd = "COMPLETE" /\ Talking(dev["prov"])
  BY <1>1, ProvAwaits DEF ProvComplete
<1>3. /\ IsSide(d) /\ m \in Packets /\ Given(m.link_id) /\ m.link_id = d.link_id
      /\ d.link_id = opened /\ opened # 0 /\ opened \in Nat
  BY <1>1, <1>2 DEF ProvKnows, Inv, ProvInv, Types
<1>4. Becomes("prov", e) /\ completed' = completed \cup {d.link_id}
  BY DEF ProvComplete
<1>5. IsSide(a) /\ Grows(<<>>, a.tx, PacketsOf(d.link_id, "ACK", m.trans_num))
  BY <1>3, ClearedAndAcked
<1> HIDE DEF a
<1>6. /\ IsSide(e) /\ e.state = "LINK_UNPROVISION_STATE" /\ e.link_id = 0
      /\ e.cmd_retry_flag = FALSE /\ e.tx = a.tx
  BY <1>5, ResetIs
<1> HIDE DEF e
<1>7. \A i \in 1 .. Len(e.tx) : e.tx[i].link_id = d.link_id /\ e.tx[i].cmd = "ACK"
  BY <1>5, <1>6 DEF Grows, PacketsOf
<1>8. ProvInv(e) /\ InOrder(e) /\ Together(e, dev["node"]) /\ Opening(e, dev["node"])
  <2>1. Quiet(e)
    BY <1>3, <1>6, <1>7 DEF Quiet
  <2> QED BY <2>1, ProvQuiet
<1>9. dev'["node"] = dev["node"]
  BY <1>4, RolesAre DEF Becomes, Inv, Types
<1>10. Storing(dev["node"])'
  BY <1>3, <1>4, <1>9 DEF Inv, Storing, Given
<1> QED BY <1>4, <1>6, <1>8, <1>10, ProvMove

\* The provisioner hears what it did not wait for, or a segment of a longer message.
LEMMA ProvSame ==
  ASSUME Inv, NEW d, NEW m, Hears("prov", d, m), Becomes("prov", d),
         UNCHANGED <<opened, net, pro_net_info, tick_check_complete, lost, completed, auth>>
  PROVE  Inv'
<1>1. IsSide(d) /\ Same(dev["prov"], d) /\ Grows(dev["prov"].tx, d.tx, {})
  BY SidesAre DEF Hears, Grows, IsSide, Sides
<1>2. ProvInv(d) /\ InOrder(d) /\ Together(d, dev["node"]) /\ Opening(d, dev["node"])
  BY <1>1, ProvGrow
<1>3. dev'["node"] = dev["node"]
  BY RolesAre DEF Becomes, Inv, Types
<1>4. Storing(dev["node"])'
  BY <1>3, StoringStays
<1> QED BY <1>1, <1>2, <1>4, ProvMove

LEMMA ProvAcksAgain ==
  ASSUME Inv, NEW d, NEW m, Hears("prov", d, m),
         Becomes("prov", Push(d, <<Packet(d, "ACK", m.trans_num, 0)>>)),
         UNCHANGED <<opened, net, pro_net_info, tick_check_complete, lost, completed, auth>>
  PROVE  Inv'
<1> DEFINE p == dev["prov"]
           e == Push(d, <<Packet(d, "ACK", m.trans_num, 0)>>)
           S == PacketsOf(d.link_id, "ACK", m.trans_num)
<1>1. /\ IsSide(d) /\ Same(p, d) /\ d.tx = p.tx /\ m.trans_num \in Nat /\ "ACK" \in Commands
  <2>1. m \in Packets
    BY ProvHears DEF ProvKnows
  <2>2. IsSide(d) /\ Same(p, d) /\ d.tx = p.tx
    BY DEF Hears
  <2> QED BY <2>1, <2>2 DEF Packets, Commands
<1>2. IsSide(e) /\ Same(d, e) /\ Grows(d.tx, e.tx, S)
  BY <1>1, PushOne
<1> HIDE DEF e
<1>3. Same(p, e) /\ Grows(p.tx, e.tx, S)
  BY <1>1, <1>2 DEF Same
<1>4. d.link_id = p.link_id /\ p.link_id <= opened
  BY <1>1 DEF Same, Inv, ProvInv
<1>5. \A k \in S : ProvPacket(p, k) /\ k.cmd = "ACK"
  BY <1>4 DEF PacketsOf, ProvPacket
<1> HIDE DEF S
<1>6. ProvInv(e) /\ InOrder(e) /\ Together(e, dev["node"]) /\ Opening(e, dev["node"])
  BY <1>2, <1>3, <1>5, ProvGrow
<1>7. Becomes("prov", e)
  BY DEF e
<1>8. dev'["node"] = dev["node"]
  BY <1>7, RolesAre DEF Becomes, Inv, Types
<1>9. Storing(dev["node"])'
  BY <1>8, StoringStays
<1> QED BY <1>2, <1>6, <1>7, <1>9, ProvMove

LEMMA ProvDispatchKeeps ==
  ASSUME Inv, NEW d, NEW m, Hears("prov", d, m), mesh_pro_rc_adv_dispatch(d, m),
         UNCHANGED <<opened, lost, auth>>
  PROVE  Inv'
<1>1. UNCHANGED <<net, pro_net_info, tick_check_complete>>
  BY DEF mesh_pro_rc_adv_dispatch
<1>2. CASE Expected("prov", d, m)
  <2>1. \/ ProvLinkAck(d, m) \/ ProvStartAcked(d, m) \/ ProvPubKeyAcked(d, m) \/ ProvComplete(d, m)
        \/ ProvCapabli(d, m) \/ ProvPubKey(d, m) \/ ProvConfirm(d, m) \/ ProvRandom(d, m)
    BY <1>2 DEF mesh_pro_rc_adv_dispatch
  <2>2. CASE ProvLinkAck(d, m)
    BY <1>1, <1>2, <2>2, ProvLinkAckKeeps
  <2>3. CASE ProvStartAcked(d, m)
    BY <1>1, <1>2, <2>3, ProvStartAckedKeeps
  <2>4. CASE ProvPubKeyAcked(d, m)
    BY <1>1, <1>2, <2>4, ProvPubKeyAckedKeeps
  <2>5. CASE ProvComplete(d, m)
    BY <1>1, <1>2, <2>5, ProvCompleteKeeps
  <2>6. CASE ProvCapabli(d, m) \/ ProvPubKey(d, m) \/ ProvConfirm(d, m) \/ ProvRandom(d, m)
    BY <1>1, <1>2, <2>6, ProvAnswersKeep
  <2> QED BY <2>1, <2>2, <2>3, <2>4, <2>5, <2>6
<1>3. CASE ~Expected("prov", d, m)
  <2>1. UNCHANGED completed
    BY <1>3 DEF mesh_pro_rc_adv_dispatch
  <2>2. \/ Becomes("prov", Push(d, <<Packet(d, "ACK", m.trans_num, 0)>>))
        \/ Becomes("prov", d)
    BY <1>3 DEF mesh_pro_rc_adv_dispatch
  <2> QED BY <1>1, <2>1, <2>2, ProvSame, ProvAcksAgain
<1> QED BY <1>2, <1>3

-------------------------------------------------------------------------------
(* Steps of the node.                                                      *)

\* What the node knows of a message.
NodeKnows(d, m) ==
  LET p == dev["prov"]
      n == dev["node"]
  IN  /\ m \in Packets /\ IsSide(d) /\ d.tx = n.tx
      /\ d.state = n.state /\ d.link_id = n.link_id /\ d.link_id_filter = n.link_id_filter
      /\ d.rsp_ack_transnum = n.rsp_ack_transnum /\ d.cmd_retry_flag = n.cmd_retry_flag
      /\ d.ack_retry_flag = n.ack_retry_flag /\ d.pro_cmd = n.pro_cmd
      /\ d.state \in DOMAIN Awaits["node"]
      /\ d.state # "LINK_UNPROVISION_STATE" => d.link_id # 0
      /\ d.link_id # 0 => d.link_id_filter = TRUE /\ m.link_id = d.link_id
      /\ m.link_id <= opened /\ d.link_id <= opened
      /\ m.cmd = "LINK_OPEN" => m.link_id # 0 /\ m.trans_num = 0
      /\ Talking(p) /\ m.link_id = p.link_id /\ m.cmd # "ACK" =>
           m.cmd \in ProvSays[p.state] /\ m.trans_num = ProvNum[p.state]
      /\ Talking(p) /\ n.link_id = p.link_id => n.state \in Near[p.state]

LEMMA NodeHears ==
  ASSUME Inv, NEW d, NEW m, Hears("node", d, m)
  PROVE  NodeKnows(d, m)
<1> DEFINE p == dev["prov"]
           n == dev["node"]
<1>1. /\ m = p.tx[1] /\ 1 \in 1 .. Len(p.tx)
      /\ IsSide(d) /\ Same(n, d) /\ d.tx = n.tx
      /\ n.link_id_filter = TRUE => m.link_id = n.link_id
  <2>1. Len(p.tx) \in Nat
    BY SidesAre DEF IsSide, Sides
  <2> QED BY <2>1, RolesAre DEF Hears
<1>2. m \in Packets
  BY <1>1, SidesAre
<1>3. ProvInv(p) /\ NodeInv(n) /\ Together(p, n)
  BY DEF Inv
<1> HIDE DEF p, n
<1>4. n.state \in DOMAIN Awaits["node"]
  BY <1>3 DEF NodeInv, NodeSays, Awaits
<1>5. ProvPacket(p, m) /\ (Talking(p) => p.trans_num = ProvNum[p.state])
  BY <1>1, <1>3 DEF ProvInv
<1> QED BY <1>1, <1>2, <1>3, <1>4, <1>5 DEF NodeKnows, Same, ProvPacket, NodeInv, Together, p, n

\* The state in which the node waits for what it heard.
LEMMA NodeAwaits ==
  ASSUME Inv, NEW d, NEW m, NodeKnows(d, m), Expected("node", d, m)
  PROVE  /\ m.cmd = "LINK_OPEN" => d.state = "LINK_UNPROVISION_STATE" /\ net = 0
         /\ m.cmd = "INVITE" => d.state = "LINK_ESTABLISHED"
         /\ m.cmd = "START" => d.state = "STATE_DEV_CAPA"
         /\ m.cmd = "PUB_KEY" => d.state = "STATE_PRO_START_ACK"
         /\ m.cmd = "CONFIRM" => d.state = "STATE_DEV_PUB_KEY_ACK"
         /\ m.cmd = "RANDOM" => d.state = "STATE_DEV_CONFIRM"
         /\ m.cmd = "DATA" => d.state = "STATE_DEV_RANDOM"
<1>1. /\ m.cmd = Awaits["node"][d.state] /\ d.state \in DOMAIN Awaits["node"]
      /\ m.cmd \in Commands /\ (m.cmd = "LINK_OPEN" => net = 0)
  BY DEF Expected, NodeKnows, Packets
<1> QED BY <1>1 DEF Awaits, Commands

\* Once the provisioner is answered on its link, the link is not opened any more.
LEMMA NoMoreOpening ==
  ASSUME Inv, NEW d, NEW m, Hears("node", d, m), Expected("node", d, m), m.cmd # "LINK_OPEN",
         Talking(dev["prov"]), dev["node"].link_id = dev["prov"].link_id
  PROVE  ~MayOpen(dev["prov"])
<1> DEFINE p == dev["prov"]
<1>1. NodeKnows(d, m)
  BY NodeHears
<1>2. SUFFICES ASSUME MayOpen(p) PROVE FALSE
  OBVIOUS
<1>3. d.state = "LINK_ESTABLISHED" /\ d.link_id = p.link_id
  BY <1>1, <1>2 DEF Inv, Opening, NodeKnows
<1>4. m.cmd = "INVITE"
  BY <1>3 DEF Expected, Awaits
<1>5. m.link_id = p.link_id /\ p.state # "LINK_ESTABLISHED_ACK"
  <2>1. d.link_id # 0
    BY <1>1, <1>3 DEF NodeKnows
  <2> QED BY <1>1, <1>3, <1>4, <2>1 DEF NodeKnows, ProvSays
<1>6. m = p.tx[1] /\ Len(p.tx) \in Nat /\ Len(p.tx) > 0
  BY RolesAre, SidesAre DEF Hears, IsSide, Sides
<1>7. PICK i \in 1 .. Len(p.tx) : p.tx[i].link_id = p.link_id /\ p.tx[i].cmd = "LINK_OPEN"
  BY <1>2, <1>5 DEF MayOpen
<1>8. 1 < i /\ 1 \in 1 .. Len(p.tx)
  BY <1>4, <1>6, <1>7
<1> QED BY <1>4, <1>5, <1>6, <1>7, <1>8 DEF Inv, InOrder

\* The node e has heard m, acknowledges it and says its part of state st.
Spoke(e, d, m, st) ==
  /\ IsSide(e) /\ e.state = st /\ e.link_id = d.link_id /\ e.link_id_filter = d.link_id_filter
  /\ e.rsp_ack_transnum = m.trans_num /\ e.pro_cmd \in NodeSays[st]
  /\ \A i \in 1 .. Len(e.tx) :
       /\ e.tx[i].link_id = d.link_id
       /\ \/ e.tx[i].cmd = "ACK" /\ e.tx[i].trans_num = m.trans_num
          \/ e.tx[i].cmd # "ACK" /\ e.tx[i].cmd = e.pro_cmd

LEMMA AnswerSpeaks ==
  ASSUME NEW d, IsSide(d), NEW m \in Packets, NEW c \in Commands, NEW st \in States,
         c \in NodeSays[st], c # "ACK"
  PROVE  Spoke(Answer(d, m, c, st), d, m, st) /\ Answer(d, m, c, st).pro_cmd = c
<1> DEFINE e == Answer(d, m, c, st)
<1>1. Answered(e, d, m, c, st, IF c = "CAPABLI" THEN d.trans_num ELSE d.trans_num + 1)
  BY AnswerIs
<1> HIDE DEF e
<1>2. \A i \in 1 .. Len(e.tx) :
        /\ e.tx[i].link_id = d.link_id
        /\ \/ e.tx[i].cmd = "ACK" /\ e.tx[i].trans_num = m.trans_num
           \/ e.tx[i].cmd # "ACK" /\ e.tx[i].cmd = c
  BY <1>1 DEF Answered, Holds, PacketsOf
<1>3. Spoke(e, d, m, st) /\ e.pro_cmd = c
  BY <1>1, <1>2 DEF Answered, Spoke
<1> QED BY <1>3 DEF e

LEMMA OnlyAckSpeaks ==
  ASSUME NEW d, IsSide(d), NEW m \in Packets, NEW st \in States, "ACK" \in NodeSays[st]
  PROVE  Spoke(OnlyAck(d, m, st), d, m, st) /\ OnlyAck(d, m, st).pro_cmd = "ACK"
<1> DEFINE e == OnlyAck(d, m, st)
<1>1. OnlyAcked(e, d, m, st)
  BY OnlyAckIs
<1> HIDE DEF e
<1>2. \A i \in 1 .. Len(e.tx) :
        e.tx[i].link_id = d.link_id /\ e.tx[i].cmd = "ACK" /\ e.tx[i].trans_num = m.trans_num
  BY <1>1 DEF OnlyAcked, Holds, PacketsOf
<1>3. Spoke(e, d, m, st) /\ e.pro_cmd = "ACK"
  BY <1>1, <1>2 DEF OnlyAcked, Spoke
<1> QED BY <1>3 DEF e

\* Where the node goes when it has heard m.
Follows(m, st) ==
  /\ st \in DOMAIN NodeSays \ {"LINK_ESTABLISHED"}
  /\ \A s \in DOMAIN Near : m.cmd \in ProvSays[s] => st \in Near[s] /\ ProvNum[s] = NodeNum[st]

LEMMA NodeAdvance ==
  ASSUME Inv, NEW d, NEW m, Hears("node", d, m), Expected("node", d, m),
         m.cmd \notin {"LINK_OPEN", "ACK"}, d.state # "LINK_UNPROVISION_STATE",
         NEW st, Follows(m, st), NEW e, Spoke(e, d, m, st)
  PROVE  NodeInv(e) /\ Together(dev["prov"], e) /\ Opening(dev["prov"], e)
<1> DEFINE p == dev["prov"]
<1>1. NodeKnows(d, m)
  BY NodeHears
<1>2. d.link_id # 0 /\ d.link_id_filter = TRUE /\ m.link_id = d.link_id /\ d.link_id <= opened
  BY <1>1 DEF NodeKnows
<1>3. e.link_id = d.link_id /\ e.state = st
  BY DEF Spoke
<1>4. NodeInv(e)
  BY <1>2 DEF Spoke, Follows, NodeInv, NodeSays
<1>5. Together(p, e)
  <2> SUFFICES ASSUME Talking(p), e.link_id = p.link_id
               PROVE  /\ st \in Near[p.state] /\ m.trans_num = NodeNum[st]
                      /\ \A i \in 1 .. Len(e.tx) : NodePacket(e, e.tx[i])
    BY DEF Together, Spoke
  <2>1. m.cmd \in ProvSays[p.state] /\ m.trans_num = ProvNum[p.state]
    BY <1>1, <1>2, <1>3 DEF NodeKnows
  <2>2. st \in Near[p.state] /\ m.trans_num = NodeNum[st]
    BY <2>1 DEF Follows, Talking
  <2> QED BY <2>2 DEF Spoke, NodePacket
<1>6. Opening(p, e)
  <2>1. CASE Talking(p) /\ e.link_id = p.link_id
    BY <1>1, <1>3, <2>1, NoMoreOpening DEF NodeKnows, Opening
  <2>2. CASE e.link_id # p.link_id
    BY <2>2 DEF Opening, Spoke
  <2>3. CASE ~Talking(p)
    BY <2>3 DEF Opening, MayOpen
  <2> QED BY <2>1, <2>2, <2>3
<1> QED BY <1>4, <1>5, <1>6

\* The node answers a message that gives it nothing to store.
LEMMA NodeSpeaks ==
  ASSUME Inv, NEW d, NEW m, Hears("node", d, m), Expected("node", d, m),
         m.cmd \notin {"LINK_OPEN", "ACK"}, d.state \notin {"LINK_UNPROVISION_STATE", "STATE_PRO_COMPLETE"},
         NEW st, Follows(m, st), st # "STATE_PRO_COMPLETE", st = "STATE_DEV_RANDOM" => auth = TRUE,
         NEW e, Spoke(e, d, m, st), e.pro_cmd # "COMPLETE", Becomes("node", e),
         UNCHANGED <<opened, net, pro_net_info, tick_check_complete, lost, completed, auth>>
  PROVE  Inv'
<1>1. NodeInv(e) /\ Together(dev["prov"], e) /\ Opening(dev["prov"], e)
  BY NodeAdvance
<1>2. dev'["node"] = e
  BY RolesAre DEF Becomes, Inv, Types
<1>3. \A i \in 1 .. Len(e.tx) : e.tx[i].cmd # "COMPLETE"
  BY DEF Spoke
<1>4. dev["node"].state = d.state /\ Storing(dev["node"])
  BY NodeHears DEF NodeKnows, Inv
<1>5. e.state = st /\ st # "LINK_UNPROVISION_STATE" /\ IsSide(e)
  BY DEF Spoke, Follows, NodeSays
<1>6. Storing(dev["node"])'
  BY <1>2, <1>3, <1>4, <1>5 DEF Storing, Given
<1> QED BY <1>1, <1>5, <1>6, NodeMove

\* Each message has one state it leads to.
LEMMA FollowsIs ==
  ASSUME NEW m
  PROVE  /\ m.cmd = "INVITE"  => Follows(m, "STATE_DEV_CAPA")
         /\ m.cmd = "START"   => Follows(m, "STATE_PRO_START_ACK")
         /\ m.cmd = "PUB_KEY" => Follows(m, "STATE_DEV_PUB_KEY_ACK")
         /\ m.cmd = "CONFIRM" => Follows(m, "STATE_DEV_CONFIRM")
         /\ m.cmd = "RANDOM"  => Follows(m, "STATE_DEV_RANDOM")
         /\ m.cmd = "DATA"    => Follows(m, "STATE_PRO_COMPLETE")
<1>1. CASE m.cmd = "INVITE"
  BY <1>1, TalkingStates DEF Follows, ProvSays, ProvNum, NodeSays, NodeNum, Near
<1>2. CASE m.cmd = "START"
  BY <1>2, TalkingStates DEF Follows, ProvSays, ProvNum, NodeSays, NodeNum, Near
<1>3. CASE m.cmd = "PUB_KEY"
  BY <1>3, TalkingStates DEF Follows, ProvSays, ProvNum, NodeSays, NodeNum, Near
<1>4. CASE m.cmd = "CONFIRM"
  BY <1>4, TalkingStates DEF Follows, ProvSays, ProvNum, NodeSays, NodeNum, Near
<1>5. CASE m.cmd = "RANDOM"
  BY <1>5, TalkingStates DEF Follows, ProvSays, ProvNum, NodeSays, NodeNum, Near
<1>6. CASE m.cmd = "DATA"
  BY <1>6, TalkingStates DEF Follows, ProvSays, ProvNum, NodeSays, NodeNum, Near
<1> QED BY <1>1, <1>2, <1>3, <1>4, <1>5, <1>6

LEMMA NodeAnswersKeep ==
  ASSUME Inv, NEW d, NEW m, Hears("node", d, m), Expected("node", d, m),
         NodeInvite(d, m) \/ NodeStart(d, m) \/ NodePubKey(d, m) \/ NodeConfirm(d, m),
         UNCHANGED <<opened, lost, completed, auth>>
  PROVE  Inv'
<1>1. NodeKnows(d, m) /\ IsSide(d) /\ m \in Packets
  BY NodeHears DEF NodeKnows
<1>2. UNCHANGED <<net, pro_net_info, tick_check_complete>>
  BY DEF NodeInvite, NodeStart, NodePubKey, NodeConfirm
<1>3. CASE NodeInvite(d, m)
  <2> DEFINE st == "STATE_DEV_CAPA"
             c == "CAPABLI"
             e == Answer(d, m, c, st)
  <2>1. m.cmd = "INVITE" /\ d.state = "LINK_ESTABLISHED" /\ Becomes("node", e)
    BY <1>1, <1>3, NodeAwaits DEF NodeInvite
  <2>2. /\ c \in Commands /\ st \in States /\ c \in NodeSays[st] /\ c # "ACK" /\ c # "COMPLETE"
        /\ st # "STATE_DEV_RANDOM" /\ st # "STATE_PRO_COMPLETE" /\ Follows(m, st)
    BY <2>1, FollowsIs DEF Commands, States, NodeSays
  <2>3. Spoke(e, d, m, st) /\ e.pro_cmd # "COMPLETE"
    <3> HIDE DEF st, c
    <3> QED BY <1>1, <2>2, AnswerSpeaks
  <2> HIDE DEF st, e
  <2> QED BY <1>2, <2>1, <2>2, <2>3, NodeSpeaks
<1>4. CASE NodeStart(d, m)
  <2> DEFINE st == "STATE_PRO_START_ACK"
             e == OnlyAck(d, m, st)
  <2>1. m.cmd = "START" /\ d.state = "STATE_DEV_CAPA" /\ Becomes("node", e)
    BY <1>1, <1>4, NodeAwaits DEF NodeStart
  <2>2. /\ st \in States /\ "ACK" \in NodeSays[st]
        /\ st # "STATE_DEV_RANDOM" /\ st # "STATE_PRO_COMPLETE" /\ Follows(m, st)
    BY <2>1, FollowsIs DEF States, NodeSays
  <2>3. Spoke(e, d, m, st) /\ e.pro_cmd # "COMPLETE"
    <3> HIDE DEF st
    <3> QED BY <1>1, <2>2, OnlyAckSpeaks
  <2> HIDE DEF st, e
  <2> QED BY <1>2, <2>1, <2>2, <2>3, NodeSpeaks
<1>5. CASE NodePubKey(d, m)
  <2> DEFINE st == "STATE_DEV_PUB_KEY_ACK"
             c == "PUB_KEY"
             e == IF oob THEN OnlyAck(d, m, st) ELSE Answer(d, m, c, st)
  <2>1. m.cmd = "PUB_KEY" /\ d.state = "STATE_PRO_START_ACK" /\ Becomes("node", e)
    BY <1>1, <1>5, NodeAwaits DEF NodePubKey
  <2>2. /\ c \in Commands /\ st \in States /\ c \in NodeSays[st] /\ "ACK" \in NodeSays[st]
        /\ c # "ACK" /\ c # "COMPLETE"
        /\ st # "STATE_DEV_RANDOM" /\ st # "STATE_PRO_COMPLETE" /\ Follows(m, st)
    BY <2>1, FollowsIs DEF Commands, States, NodeSays
  <2>3. Spoke(e, d, m, st) /\ e.pro_cmd # "COMPLETE"
    <3> HIDE DEF st, c
    <3>1. Spoke(OnlyAck(d, m, st), d, m, st) /\ OnlyAck(d, m, st).pro_cmd = "ACK"
      BY <1>1, <2>2, OnlyAckSpeaks
    <3>2. Spoke(Answer(d, m, c, st), d, m, st) /\ Answer(d, m, c, st).pro_cmd = c
      BY <1>1, <2>2, AnswerSpeaks
    <3> QED BY <2>2, <3>1, <3>2
  <2> HIDE DEF st, e
  <2> QED BY <1>2, <2>1, <2>2, <2>3, NodeSpeaks
<1>6. CASE NodeConfirm(d, m)
  <2> DEFINE st == "STATE_DEV_CONFIRM"
             c == "CONFIRM"
             e == Answer(d, m, c, st)
  <2>1. m.cmd = "CONFIRM" /\ d.state = "STATE_DEV_PUB_KEY_ACK" /\ Becomes("node", e)
    BY <1>1, <1>6, NodeAwaits DEF NodeConfirm
  <2>2. /\ c \in Commands /\ st \in States /\ c \in NodeSays[st] /\ c # "ACK" /\ c # "COMPLETE"
        /\ st # "STATE_DEV_RANDOM" /\ st # "STATE_PRO_COMPLETE" /\ Follows(m, st)
    BY <2>1, FollowsIs DEF Commands, States, NodeSays
  <2>3. Spoke(e, d, m, st) /\ e.pro_cmd # "COMPLETE"
    <3> HIDE DEF st, c
    <3> QED BY <1>1, <2>2, AnswerSpeaks
  <2> HIDE DEF st, e
  <2> QED BY <1>2, <2>1, <2>2, <2>3, NodeSpeaks
<1> QED BY <1>3, <1>4, <1>5, <1>6

\* The node e is on no link.
Unlinked(e) ==
  /\ IsSide(e) /\ e.state = "LINK_UNPROVISION_STATE" /\ e.link_id = 0 /\ e.cmd_retry_flag = FALSE
  /\ \A i \in 1 .. Len(e.tx) :
       /\ e.tx[i].link_id # 0 /\ e.tx[i].link_id <= opened
       /\ MayOpen(dev["prov"]) /\ e.tx[i].link_id = dev["prov"].link_id => Early(e.tx[i])

LEMMA NodeQuiet ==
  ASSUME Inv, NEW e, Unlinked(e)
  PROVE  NodeInv(e) /\ Together(dev["prov"], e) /\ Opening(dev["prov"], e)
<1>1. ProvInv(dev["prov"]) /\ opened \in Nat
  BY DEF Inv, Types
<1>2. NodeInv(e)
  BY <1>1 DEF NodeInv, Unlinked
<1>3. Together(dev["prov"], e)
  BY <1>1 DEF Together, ProvInv, Unlinked
<1>4. Opening(dev["prov"], e)
  BY <1>1 DEF Opening, MayOpen, ProvInv, Unlinked
<1> QED BY <1>2, <1>3, <1>4

LEMMA NodeRandomKeeps ==
  ASSUME Inv, NEW d, NEW m, Hears("node", d, m), Expected("node", d, m), NodeRandom(d, m),
         UNCHANGED <<opened, lost, completed, auth>>
  PROVE  Inv'
<1>1. NodeKnows(d, m) /\ IsSide(d) /\ m \in Packets
  BY NodeHears DEF NodeKnows
<1>2. UNCHANGED <<net, pro_net_info, tick_check_complete>>
  BY DEF NodeRandom
<1>3. m.cmd = "RANDOM" /\ d.state = "STATE_DEV_CONFIRM"
  BY <1>1, NodeAwaits DEF NodeRandom
<1>4. CASE auth = TRUE
  <2> DEFINE st == "STATE_DEV_RANDOM"
             c == "RANDOM"
             e == Answer(d, m, c, st)
  <2>1. Becomes("node", e)
    BY <1>4 DEF NodeRandom
  <2>2. /\ c \in Commands /\ st \in States /\ c \in NodeSays[st] /\ c # "ACK" /\ c # "COMPLETE"
        /\ st # "STATE_PRO_COMPLETE" /\ Follows(m, st)
    BY <1>3, FollowsIs DEF Commands, States, NodeSays
  <2>3. Spoke(e, d, m, st) /\ e.pro_cmd # "COMPLETE"
    <3> HIDE DEF st, c
    <3> QED BY <1>1, <2>2, AnswerSpeaks
  <2> HIDE DEF st, e
  <2> QED BY <1>2, <1>3, <1>4, <2>1, <2>2, <2>3, NodeSpeaks
<1>5. CASE auth # TRUE
  <2> DEFINE n == dev["node"]
             a == Answer(d, m, "FAIL", "STATE_PRO_FAILED_ACK")
             k == IF "FAIL" = "CAPABLI" THEN d.trans_num ELSE d.trans_num + 1
             e == mesh_provision_para_reset(a)
  <2>1. Becomes("node", e)
    BY <1>5 DEF NodeRandom
  <2>2. "FAIL" \in Commands /\ "STATE_PRO_FAILED_ACK" \in States
    BY DEF Commands, States
  <2>3. Answered(a, d, m, "FAIL", "STATE_PRO_FAILED_ACK", k)
    BY <1>1, <2>2, AnswerIs
  <2> HIDE DEF a, k
  <2>4. /\ IsSide(a)
        /\ \A i \in 1 .. Len(a.tx) : a.tx[i].link_id = d.link_id /\ a.tx[i].cmd # "COMPLETE"
    BY <2>3 DEF Answered, Holds, PacketsOf
  <2>5. /\ IsSide(e) /\ e.state = "LINK_UNPROVISION_STATE" /\ e.link_id = 0
        /\ e.cmd_retry_flag = FALSE /\ e.tx = a.tx
    BY <2>4, ResetIs
  <2> HIDE DEF e
  <2>6. d.link_id = n.link_id /\ n.link_id # 0 /\ n.link_id <= opened /\ n.state = "STATE_DEV_CONFIRM"
    BY <1>1, <1>3 DEF NodeKnows
  <2>7. ~(MayOpen(dev["prov"]) /\ n.link_id = dev["prov"].link_id)
    BY <2>6 DEF Inv, Opening
  <2>8. Unlinked(e)
    BY <2>4, <2>5, <2>6, <2>7 DEF Unlinked
  <2>9. dev'["node"] = e
    BY <2>1, RolesAre DEF Becomes, Inv, Types
  <2>10. Storing(dev["node"])'
    BY <1>2, <2>4, <2>5, <2>6, <2>9 DEF Inv, Storing, Given
  <2> QED BY <2>1, <2>5, <2>8, <2>10, NodeQuiet, NodeMove
<1> QED BY <1>4, <1>5

LEMMA NodeDataKeeps ==
  ASSUME Inv, NEW d, NEW m, Hears("node", d, m), Expected("node", d, m), NodeData(d, m),
         UNCHANGED <<opened, lost, completed, auth>>
  PROVE  Inv'
<1> DEFINE st == "STATE_PRO_COMPLETE"
           c == "COMPLETE"
           a == Answer(d, m, c, st)
           e == [a EXCEPT !.seg.decrypted = TRUE]
           n == dev["node"]
<1>1. NodeKnows(d, m) /\ IsSide(d) /\ m \in Packets
  BY NodeHears DEF NodeKnows
<1>2. m.cmd = "DATA" /\ d.state = "STATE_DEV_RANDOM"
  BY <1>1, NodeAwaits DEF NodeData
<1>3. /\ c \in Commands /\ st \in States /\ c \in NodeSays[st] /\ c # "ACK"
      /\ Follows(m, st)
  BY <1>2, FollowsIs DEF Commands, States, NodeSays
<1>4. /\ Becomes("node", e) /\ pro_net_info' = m.link_id /\ tick_check_complete' = TRUE
      /\ UNCHANGED net
  BY DEF NodeData
<1>5. Spoke(a, d, m, st)
  <2> HIDE DEF st, c
  <2> QED BY <1>1, <1>3, AnswerSpeaks
<1> HIDE DEF a
<1>6. /\ IsSide(e) /\ e.state = a.state /\ e.link_id = a.link_id /\ e.link_id_filter = a.link_id_filter
      /\ e.rsp_ack_transnum = a.rsp_ack_transnum /\ e.pro_cmd = a.pro_cmd /\ e.tx = a.tx
  BY <1>5 DEF Spoke, IsSide, Sides, Segs
<1> HIDE DEF e
<1>7. Spoke(e, d, m, st)
  BY <1>5, <1>6 DEF Spoke
<1>8. NodeInv(e) /\ Together(dev["prov"], e) /\ Opening(dev["prov"], e)
  <2>1. d.state # "LINK_UNPROVISION_STATE" /\ m.cmd \notin {"LINK_OPEN", "ACK"}
    BY <1>2
  <2> QED BY <1>3, <1>7, <2>1, NodeAdvance
<1>9. dev'["node"] = e
  BY <1>4, RolesAre DEF Becomes, Inv, Types
<1>10. /\ n.state = "STATE_DEV_RANDOM" /\ d.link_id = m.link_id /\ d.link_id # 0 /\ Storing(n)
  BY <1>1, <1>2 DEF NodeKnows, Inv
<1>11. \A i \in 1 .. Len(e.tx) : e.tx[i].link_id = d.link_id
  BY <1>7 DEF Spoke
<1>12. e.state = st /\ e.link_id = d.link_id
  BY <1>7 DEF Spoke
<1>13. net = 0 /\ tick_check_complete # TRUE /\ auth = TRUE /\ completed \subseteq lost
  BY <1>10 DEF Storing, Given
<1>14. Storing(dev["node"])'
  BY <1>4, <1>9, <1>10, <1>11, <1>12, <1>13 DEF Storing, Given
<1> QED BY <1>4, <1>6, <1>8, <1>14, NodeMove

LEMMA NodeLinkOpenKeeps ==
  ASSUME Inv, NEW d, NEW m, Hears("node", d, m), Expected("node", d, m), NodeLinkOpen(d, m),
         UNCHANGED <<opened, lost, completed, auth>>
  PROVE  Inv'
<1> DEFINE p == dev["prov"]
           n == dev["node"]
           f == [d EXCEPT !.link_id = m.link_id, !.rsp_ack_transnum = m.trans_num]
           g == LinkAck(f)
           h == send_rcv_retry_set(g, "LINK_ACK", FALSE)
           e == [h EXCEPT !.state = "LINK_ESTABLISHED", !.link_id_filter = TRUE]
           new == PacketsOf(m.link_id, "LINK_ACK", 0)
<1>1. NodeKnows(d, m) /\ IsSide(d) /\ m \in Packets
  BY NodeHears DEF NodeKnows
<1>2. /\ m.cmd = "LINK_OPEN" /\ d.state = "LINK_UNPROVISION_STATE" /\ net = 0
      /\ m.link_id # 0 /\ m.link_id <= opened /\ m.trans_num = 0
      /\ n.state = "LINK_UNPROVISION_STATE" /\ d.tx = n.tx
  BY <1>1, NodeAwaits DEF NodeLinkOpen, NodeKnows
<1>3. Becomes("node", e) /\ UNCHANGED <<net, pro_net_info, tick_check_complete>>
  BY DEF NodeLinkOpen
<1>4. IsSide(f) /\ f.link_id = m.link_id /\ f.rsp_ack_transnum = 0 /\ f.tx = n.tx
  BY <1>1, <1>2 DEF IsSide, Sides, Packets
<1> HIDE DEF f
<1>5. IsSide(g) /\ Same(f, g) /\ Grows(n.tx, g.tx, new)
  BY <1>4, LinkAckIs
<1> HIDE DEF g, new
<1>6. /\ IsSide(e) /\ e.state = "LINK_ESTABLISHED" /\ e.link_id_filter = TRUE
      /\ e.pro_cmd = "LINK_ACK" /\ e.ack_retry_flag = FALSE
      /\ e.link_id = g.link_id /\ e.rsp_ack_transnum = g.rsp_ack_transnum /\ e.tx = g.tx
  BY <1>5 DEF send_rcv_retry_set, IsSide, Sides, States, Commands
<1> HIDE DEF e
<1>7. e.link_id = m.link_id /\ e.rsp_ack_transnum = 0 /\ Grows(n.tx, e.tx, new)
  BY <1>4, <1>5, <1>6 DEF Same
<1>8. /\ NodeInv(n) /\ ProvInv(p) /\ Opening(p, n) /\ Storing(n)
      /\ Len(n.tx) \in Nat /\ Len(e.tx) \in Nat
  BY <1>6, SidesAre DEF Inv, IsSide, Sides
<1>9. ASSUME NEW i \in 1 .. Len(e.tx)
      PROVE  \/ i \in 1 .. Len(n.tx) /\ e.tx[i] = n.tx[i]
             \/ e.tx[i].link_id = m.link_id /\ e.tx[i].cmd = "LINK_ACK"
  BY <1>7, <1>8 DEF Grows, new, PacketsOf
<1>10. NodeInv(e)
  BY <1>2, <1>6, <1>7, <1>8, <1>9 DEF NodeInv, NodeSays
<1>11. ASSUME Talking(p), m.link_id = p.link_id
       PROVE  MayOpen(p) /\ p.state \in {"LINK_ESTABLISHED_ACK", "STATE_DEV_CAPA_ACK"}
  <2>1. m.cmd \in ProvSays[p.state]
    BY <1>1, <1>2, <1>11 DEF NodeKnows
  <2>2. p.state \in {"LINK_ESTABLISHED_ACK", "STATE_DEV_CAPA_ACK"}
    BY <1>2, <1>11, <2>1, TalkingStates DEF Talking, ProvSays
  <2>3. m = p.tx[1] /\ 1 \in 1 .. Len(p.tx)
    BY RolesAre, SidesAre DEF Hears, IsSide, Sides
  <2> QED BY <1>2, <1>11, <2>2, <2>3 DEF MayOpen
<1>12. ASSUME MayOpen(p), NEW i \in 1 .. Len(e.tx), e.tx[i].link_id = p.link_id
       PROVE  Early(e.tx[i])
  BY <1>8, <1>9, <1>12 DEF Opening, Early
<1>13. Together(p, e)
  <2> SUFFICES ASSUME Talking(p), e.link_id = p.link_id
               PROVE  /\ e.state \in Near[p.state] /\ e.rsp_ack_transnum = NodeNum[e.state]
                      /\ \A i \in 1 .. Len(e.tx) : NodePacket(e, e.tx[i])
    BY DEF Together
  <2>1. MayOpen(p) /\ p.state \in {"LINK_ESTABLISHED_ACK", "STATE_DEV_CAPA_ACK"}
    BY <1>7, <1>11
  <2>2. e.state \in Near[p.state] /\ e.rsp_ack_transnum = NodeNum[e.state]
    BY <1>6, <1>7, <2>1 DEF Near, NodeNum
  <2> QED BY <1>6, <1>7, <1>12, <2>1, <2>2 DEF NodePacket, Early, NodeSays
<1>14. Opening(p, e)
  BY <1>6, <1>12 DEF Opening
<1>15. dev'["node"] = e
  BY <1>3, RolesAre DEF Becomes, Inv, Types
<1>16. Storing(dev["node"])'
  BY <1>2, <1>3, <1>6, <1>8, <1>9, <1>15 DEF Storing, Given
<1> QED BY <1>3, <1>6, <1>10, <1>13, <1>14, <1>16, NodeMove

\* The node is acknowledged: it falls silent, and if that was the last one, it is done.
LEMMA NodeAckedKeeps ==
  ASSUME Inv, NEW d, NEW m, Hears("node", d, m), NodeAcked(d, m),
         UNCHANGED <<opened, lost, completed, auth>>
  PROVE  Inv'
<1> DEFINE p == dev["prov"]
           n == dev["node"]
           f == send_rcv_retry_clr(d)
           c == [f EXCEPT !.trans_num_last = m.trans_num + 2]
           r == mesh_provision_para_reset(c)
           end == d.state = "STATE_PRO_COMPLETE"
<1>1. NodeKnows(d, m) /\ IsSide(d) /\ m \in Packets
  BY NodeHears DEF NodeKnows
<1>2. /\ Becomes("node", IF end THEN r ELSE c) /\ net' = (IF end THEN pro_net_info ELSE net)
      /\ UNCHANGED <<pro_net_info, tick_check_complete>>
  BY DEF NodeAcked
<1>3. /\ d.state = n.state /\ d.link_id = n.link_id /\ d.link_id_filter = n.link_id_filter
      /\ d.rsp_ack_transnum = n.rsp_ack_transnum
  BY <1>1 DEF NodeKnows
<1>4. /\ IsSide(f) /\ f.state = d.state /\ f.link_id = d.link_id /\ f.link_id_filter = d.link_id_filter
      /\ f.rsp_ack_transnum = d.rsp_ack_transnum
      /\ f.cmd_retry_flag = FALSE /\ f.ack_retry_flag = FALSE /\ f.tx = <<>>
  BY <1>1, ClearIs
<1> HIDE DEF f
<1>5. m.trans_num + 2 \in Nat
  BY <1>1 DEF Packets
<1>6. /\ IsSide(c) /\ c.state = n.state /\ c.link_id = n.link_id /\ c.link_id_filter = n.link_id_filter
      /\ c.rsp_ack_transnum = n.rsp_ack_transnum
      /\ c.cmd_retry_flag = FALSE /\ c.ack_retry_flag = FALSE /\ c.tx = <<>>
  BY <1>3, <1>4, <1>5 DEF IsSide, Sides
<1> HIDE DEF c
<1>7. NodeInv(n) /\ Together(p, n) /\ Opening(p, n) /\ Storing(n)
  BY DEF Inv
<1>8. CASE ~end
  <2>1. NodeInv(c) /\ Together(p, c) /\ Opening(p, c)
    BY <1>6, <1>7 DEF NodeInv, Together, Opening
  <2>2. dev'["node"] = c
    BY <1>2, <1>8, RolesAre DEF Becomes, Inv, Types
  <2>3. Storing(dev["node"])'
    BY <1>2, <1>6, <1>7, <1>8, <2>2 DEF Storing, Given
  <2> QED BY <1>2, <1>6, <1>8, <2>1, <2>3, NodeMove
<1>9. CASE end
  <2>1. /\ IsSide(r) /\ r.state = "LINK_UNPROVISION_STATE" /\ r.link_id = 0
        /\ r.cmd_retry_flag = FALSE /\ r.tx = <<>>
    BY <1>6, ResetIs
  <2> HIDE DEF r
  <2>2. NodeInv(r) /\ Together(p, r) /\ Opening(p, r)
    <3>1. Unlinked(r)
      BY <2>1 DEF Unlinked
    <3> QED BY <3>1, NodeQuiet
  <2>3. dev'["node"] = r
    BY <1>2, <1>9, RolesAre DEF Becomes, Inv, Types
  <2>4. /\ tick_check_complete = TRUE /\ net = 0 /\ pro_net_info = n.link_id /\ auth = TRUE
        /\ n.link_id # 0
    BY <1>3, <1>7, <1>9 DEF Storing, NodeInv
  <2>5. Storing(dev["node"])'
    BY <1>2, <1>7, <1>9, <2>1, <2>3, <2>4 DEF Storing, Given
  <2> QED BY <1>2, <1>9, <2>1, <2>2, <2>5, NodeMove
<1> QED BY <1>8, <1>9

\* The node says more of what it says in its state.
LEMMA NodeGrow ==
  ASSUME Inv, NEW e, IsSide(e), Same(dev["node"], e), NEW S, Grows(dev["node"].tx, e.tx, S),
         Becomes("node", e),
         \A k \in S : /\ k.link_id = dev["node"].link_id /\ k.link_id # 0 /\ NodePacket(dev["node"], k)
                      /\ dev["node"].state = "LINK_ESTABLISHED" => Early(k)
                      /\ k.cmd = "COMPLETE" => dev["node"].state = "STATE_PRO_COMPLETE",
         UNCHANGED <<opened, net, pro_net_info, tick_check_complete, lost, completed, auth>>
  PROVE  Inv'
<1> DEFINE p == dev["prov"]
           n == dev["node"]
<1>1. /\ NodeInv(n) /\ Together(p, n) /\ Opening(p, n) /\ Storing(n)
      /\ Len(n.tx) \in Nat /\ Len(e.tx) \in Nat
  BY SidesAre DEF Inv, IsSide, Sides
<1> HIDE DEF p, n
<1>2. /\ e.state = n.state /\ e.link_id = n.link_id /\ e.link_id_filter = n.link_id_filter
      /\ e.rsp_ack_transnum = n.rsp_ack_transnum /\ e.pro_cmd = n.pro_cmd
      /\ e.cmd_retry_flag = n.cmd_retry_flag /\ e.ack_retry_flag = n.ack_retry_flag
  BY DEF Same, n
<1>3. ASSUME NEW i \in 1 .. Len(e.tx)
      PROVE  \/ i \in 1 .. Len(n.tx) /\ e.tx[i] = n.tx[i]
             \/ /\ e.tx[i].link_id = n.link_id /\ e.tx[i].link_id # 0 /\ NodePacket(n, e.tx[i])
                /\ n.state = "LINK_ESTABLISHED" => Early(e.tx[i])
                /\ e.tx[i].cmd = "COMPLETE" => n.state = "STATE_PRO_COMPLETE"
  BY <1>1 DEF Grows, n
<1>4. NodeInv(e)
  BY <1>1, <1>2, <1>3 DEF NodeInv
<1>5. Together(p, e)
  <2> SUFFICES ASSUME Talking(p), e.link_id = p.link_id
               PROVE  \A i \in 1 .. Len(e.tx) : NodePacket(e, e.tx[i])
    BY <1>1, <1>2 DEF Together
  <2>1. \A i \in 1 .. Len(e.tx) : NodePacket(n, e.tx[i])
    BY <1>1, <1>2, <1>3 DEF Together
  <2> QED BY <1>2, <2>1 DEF NodePacket
<1>6. Opening(p, e)
  BY <1>1, <1>2, <1>3 DEF Opening
<1>7. dev'["node"] = e
  BY RolesAre DEF Becomes, Inv, Types
<1>8. Storing(dev["node"])'
  BY <1>1, <1>2, <1>3, <1>7 DEF Storing, Given
<1> QED BY <1>4, <1>5, <1>6, <1>8, NodeMove DEF p

LEMMA NodeSame ==
  ASSUME Inv, NEW d, NEW m, Hears("node", d, m), Becomes("node", d),
         UNCHANGED <<opened, net, pro_net_info, tick_check_complete, lost, completed, auth>>
  PROVE  Inv'
<1>1. IsSide(d) /\ Same(dev["node"], d) /\ Grows(dev["node"].tx, d.tx, {})
  BY SidesAre DEF Hears, Grows, IsSide, Sides
<1> QED BY <1>1, NodeGrow

LEMMA NodeDispatchKeeps ==
  ASSUME Inv, NEW d, NEW m, Hears("node", d, m), mesh_node_rc_data_dispatch(d, m),
         UNCHANGED <<opened, lost, auth>>
  PROVE  Inv'
<1>1. UNCHANGED completed
  BY DEF mesh_node_rc_data_dispatch
<1>2. CASE Acked(d, m)
  BY <1>1, <1>2, NodeAckedKeeps DEF mesh_node_rc_data_dispatch
<1>3. CASE ~Acked(d, m) /\ Expected("node", d, m)
  <2>1. \/ NodeLinkOpen(d, m) \/ NodeRandom(d, m) \/ NodeData(d, m)
        \/ NodeInvite(d, m) \/ NodeStart(d, m) \/ NodePubKey(d, m) \/ NodeConfirm(d, m)
    BY <1>3 DEF mesh_node_rc_data_dispatch
  <2>2. CASE NodeLinkOpen(d, m)
    BY <1>1, <1>3, <2>2, NodeLinkOpenKeeps
  <2>3. CASE NodeRandom(d, m)
    BY <1>1, <1>3, <2>3, NodeRandomKeeps
  <2>4. CASE NodeData(d, m)
    BY <1>1, <1>3, <2>4, NodeDataKeeps
  <2>5. CASE NodeInvite(d, m) \/ NodeStart(d, m) \/ NodePubKey(d, m) \/ NodeConfirm(d, m)
    BY <1>1, <1>3, <2>5, NodeAnswersKeep
  <2> QED BY <2>1, <2>2, <2>3, <2>4, <2>5
<1>4. CASE ~Acked(d, m) /\ ~Expected("node", d, m)
  BY <1>1, <1>4, NodeSame DEF mesh_node_rc_data_dispatch
<1> QED BY <1>2, <1>3, <1>4

-------------------------------------------------------------------------------
(* Steps of both.                                                          *)

LEMMA HearingKeeps ==
  ASSUME Inv, NEW r \in Roles, mesh_provison_process(r)
  PROVE  Inv'
<1> DEFINE t == dev[Peer(r)].tx
           m == Head(t)
           long == Segments(m.cmd) > 1
           d == IF long THEN mesh_provision_seg_check(dev[r], m) ELSE dev[r]
<1>1. IsSide(dev[r]) /\ t \in Seq(Packets) /\ t # <<>>
  BY RolesAre, SidesAre DEF mesh_provison_process, IsSide, Sides
<1>2. Len(t) > 0 /\ m = t[1] /\ m \in Packets
  BY <1>1
<1>3. IsSide(d) /\ Same(dev[r], d) /\ d.tx = dev[r].tx
  <2>1. CASE long
    BY <1>1, <1>2, <2>1, SegIs
  <2>2. CASE ~long
    BY <1>1, <2>2 DEF Same
  <2> QED BY <2>1, <2>2
<1>4. /\ dev[r].link_id_filter => m.link_id = dev[r].link_id
      /\ UNCHANGED <<opened, lost, auth>>
      /\ \/ /\ Becomes(r, d)
            /\ UNCHANGED <<net, pro_net_info, tick_check_complete, completed>>
         \/ r = "node" /\ mesh_node_rc_data_dispatch(d, m)
         \/ r = "prov" /\ mesh_pro_rc_adv_dispatch(d, m)
  BY DEF mesh_provison_process
<1>5. Hears(r, d, m)
  BY <1>2, <1>3, <1>4 DEF Hears
<1> HIDE DEF d, m
<1>6. CASE r = "node" /\ mesh_node_rc_data_dispatch(d, m)
  BY <1>4, <1>5, <1>6, NodeDispatchKeeps
<1>7. CASE r = "prov" /\ mesh_pro_rc_adv_dispatch(d, m)
  BY <1>4, <1>5, <1>7, ProvDispatchKeeps
<1>8. CASE Becomes(r, d) /\ UNCHANGED <<net, pro_net_info, tick_check_complete, completed>>
  BY <1>4, <1>5, <1>8, RolesAre, NodeSame, ProvSame
<1> QED BY <1>4, <1>6, <1>7, <1>8

\* The queue without its first packet.
LEMMA TailIs ==
  ASSUME NEW d, IsSide(d), d.tx # <<>>
  PROVE  LET e == [d EXCEPT !.tx = Tail(@)]
         IN  /\ IsSide(e) /\ Same(d, e) /\ Len(e.tx) \in Nat /\ Len(d.tx) \in Nat
             /\ \A i \in 1 .. Len(e.tx) : e.tx[i] = d.tx[i + 1] /\ i + 1 \in 1 .. Len(d.tx)
<1> DEFINE t == Tail(d.tx)
<1>1. d.tx \in Seq(Packets) /\ Len(d.tx) <= Cap /\ Cap \in Nat
  BY PbAdvAssumption DEF IsSide, Sides
<1>2. /\ t \in Seq(Packets) /\ Len(t) \in Nat /\ Len(d.tx) \in Nat /\ Len(t) <= Cap
      /\ \A i \in 1 .. Len(t) : t[i] = d.tx[i + 1] /\ i + 1 \in 1 .. Len(d.tx)
  BY <1>1
<1> HIDE DEF t
<1>3. [d EXCEPT !.tx = Tail(@)] = [d EXCEPT !.tx = t]
  BY DEF t
<1> QED BY <1>2, <1>3 DEF IsSide, Sides, Same

LEMMA SentKeeps ==
  ASSUME Inv, NEW r \in Roles, Sent(r)
  PROVE  Inv'
<1> DEFINE d == dev[r]
           e == [d EXCEPT !.tx = Tail(@)]
<1>1. IsSide(d) /\ d.tx # <<>> /\ UNCHANGED <<opened, net, pro_net_info, tick_check_complete, lost, completed, auth>>
  BY RolesAre, SidesAre DEF Sent
<1>2. Becomes(r, e)
  BY DEF Sent, Becomes
<1>3. /\ IsSide(e) /\ Same(d, e) /\ Len(e.tx) \in Nat /\ Len(d.tx) \in Nat
      /\ \A i \in 1 .. Len(e.tx) : e.tx[i] = d.tx[i + 1] /\ i + 1 \in 1 .. Len(d.tx)
  BY <1>1, TailIs
<1> HIDE DEF d, e
<1>4. /\ e.state = d.state /\ e.link_id = d.link_id /\ e.link_id_filter = d.link_id_filter
      /\ e.trans_num = d.trans_num /\ e.trans_num_last = d.trans_num_last
      /\ e.rsp_ack_transnum = d.rsp_ack_transnum /\ e.pro_cmd = d.pro_cmd
      /\ e.cmd_retry_flag = d.cmd_retry_flag /\ e.ack_retry_flag = d.ack_retry_flag
      /\ Talking(e) = Talking(d)
  BY <1>3 DEF Same, Talking
<1>5. CASE r = "prov"
  <2> DEFINE n == dev["node"]
  <2>1. ProvInv(d) /\ InOrder(d) /\ Together(d, n) /\ Opening(d, n)
    BY <1>5 DEF Inv, d
  <2> HIDE DEF n
  <2>2. ProvInv(e)
    BY <1>3, <1>4, <2>1 DEF ProvInv, ProvPacket
  <2>3. InOrder(e)
    <3> SUFFICES ASSUME Talking(d), NEW i \in 1 .. Len(e.tx), NEW j \in 1 .. Len(e.tx), i < j,
                        e.tx[i].link_id = d.link_id, e.tx[i].cmd = "INVITE",
                        e.tx[j].link_id = d.link_id, e.tx[j].cmd = "LINK_OPEN"
                 PROVE  FALSE
      BY <1>4 DEF InOrder
    <3>1. /\ i + 1 \in 1 .. Len(d.tx) /\ j + 1 \in 1 .. Len(d.tx) /\ i + 1 < j + 1
          /\ e.tx[i] = d.tx[i + 1] /\ e.tx[j] = d.tx[j + 1]
      BY <1>3
    <3> QED BY <2>1, <3>1 DEF InOrder
  <2>4. MayOpen(e) => MayOpen(d)
    BY <1>3, <1>4 DEF MayOpen
  <2>5. Together(e, n) /\ Opening(e, n)
    BY <1>4, <2>1, <2>4 DEF Together, Opening
  <2>6. dev'["node"] = dev["node"]
    BY <1>2, <1>5, RolesAre DEF Becomes, Inv, Types
  <2>7. Storing(dev["node"])'
    BY <1>1, <2>6, StoringStays
  <2> QED BY <1>1, <1>2, <1>3, <1>5, <2>2, <2>3, <2>5, <2>7, ProvMove DEF n
<1>6. CASE r = "node"
  <2> DEFINE p == dev["prov"]
  <2>1. NodeInv(d) /\ Together(p, d) /\ Opening(p, d) /\ Storing(d)
    BY <1>6 DEF Inv, d
  <2> HIDE DEF p
  <2>2. NodeInv(e)
    BY <1>3, <1>4, <2>1 DEF NodeInv
  <2>3. Together(p, e)
    BY <1>3, <1>4, <2>1 DEF Together, NodePacket
  <2>4. Opening(p, e)
    BY <1>3, <1>4, <2>1 DEF Opening
  <2>5. dev'["node"] = e
    BY <1>2, <1>6, RolesAre DEF Becomes, Inv, Types
  <2>6. Storing(dev["node"])'
    BY <1>1, <1>3, <1>4, <2>1, <2>5 DEF Storing, Given
  <2> QED BY <1>1, <1>2, <1>3, <1>6, <2>2, <2>3, <2>4, <2>6, NodeMove DEF p
<1> QED BY <1>5, <1>6, RolesAre

LEMMA GrowsMore ==
  ASSUME NEW s \in Seq(Packets), NEW t \in Seq(Packets), NEW u \in Seq(Packets),
         NEW S, NEW T, NEW U, Grows(s, t, S), Grows(t, u, T), S \subseteq U, T \subseteq U
  PROVE  Grows(s, u, U)
<1>1. Len(s) \in Nat /\ Len(t) \in Nat /\ Len(u) \in Nat /\ Len(s) <= Len(t) /\ Len(t) <= Len(u)
  BY DEF Grows
<1>2. ASSUME NEW i \in 1 .. Len(u)
      PROVE  IF i <= Len(s) THEN u[i] = s[i] ELSE u[i] \in U
  <2>1. IF i <= Len(t) THEN u[i] = t[i] ELSE u[i] \in T
    BY DEF Grows
  <2>2. i <= Len(t) => IF i <= Len(s) THEN t[i] = s[i] ELSE t[i] \in S
    BY <1>1 DEF Grows
  <2> QED BY <1>1, <2>1, <2>2
<1> QED BY <1>1, <1>2 DEF Grows

\* What d repeats, and what it becomes by that.
Repeats(d) ==
  {m \in Packets :
     /\ m.link_id = d.link_id
     /\ \/ /\ m.cmd = "ACK" /\ m.trans_num = d.rsp_ack_transnum
           /\ d.pro_cmd = "ACK" \/ d.ack_retry_flag = TRUE
        \/ /\ m.cmd = d.pro_cmd /\ m.cmd # "ACK"
           /\ m.cmd = "LINK_OPEN" => m.trans_num = 0
           /\ m.cmd \notin {"LINK_OPEN", "LINK_ACK"} => m.trans_num = d.trans_num}
Repeated(d) ==
  LET first == IF d.ack_retry_flag THEN Ack(d) ELSE d
  IN  CASE d.pro_cmd = "ACK"       -> Ack(Ack(d))
        [] d.pro_cmd = "LINK_OPEN" -> Push(d, <<Packet(d, "LINK_OPEN", 0, 0)>>)
        [] d.pro_cmd = "LINK_ACK"  -> LinkAck(d)
        [] OTHER                   -> send_multi_type_data(first, d.pro_cmd)

LEMMA RepeatedIs ==
  ASSUME NEW d, IsSide(d), d.cmd_retry_flag = TRUE
  PROVE  /\ IsSide(Repeated(d)) /\ Same(d, Repeated(d))
         /\ Grows(d.tx, Repeated(d).tx, Repeats(d))
<1>1. d.tx \in Seq(Packets) /\ d.pro_cmd \in Commands
  BY DEF IsSide, Sides
<1>2. CASE d.pro_cmd = "ACK"
  <2> DEFINE a == Ack(d)
             e == Ack(a)
             S == PacketsOf(d.link_id, "ACK", d.rsp_ack_transnum)
  <2>1. IsSide(a) /\ Same(d, a) /\ Grows(d.tx, a.tx, S)
    BY AckIs
  <2> HIDE DEF a
  <2>2. IsSide(e) /\ Same(a, e) /\ Grows(a.tx, e.tx, PacketsOf(a.link_id, "ACK", a.rsp_ack_transnum))
    BY <2>1, AckIs
  <2>3. Repeated(d) = e
    BY <1>2 DEF Repeated, a
  <2> HIDE DEF e
  <2>4. Same(d, e) /\ Grows(a.tx, e.tx, S)
    BY <2>1, <2>2 DEF Same
  <2>5. S \subseteq Repeats(d)
    BY <1>2 DEF PacketsOf, Repeats
  <2>6. a.tx \in Seq(Packets) /\ e.tx \in Seq(Packets)
    BY <2>1, <2>2 DEF IsSide, Sides
  <2> HIDE DEF S
  <2>7. Grows(d.tx, e.tx, Repeats(d))
    BY <1>1, <2>1, <2>4, <2>5, <2>6, GrowsMore
  <2> QED BY <2>2, <2>3, <2>4, <2>7
<1>3. CASE d.pro_cmd = "LINK_OPEN"
  <2> DEFINE e == Push(d, <<Packet(d, "LINK_OPEN", 0, 0)>>)
             S == PacketsOf(d.link_id, "LINK_OPEN", 0)
  <2>1. "LINK_OPEN" \in Commands /\ 0 \in Nat
    BY DEF Commands
  <2>2. IsSide(e) /\ Same(d, e) /\ Grows(d.tx, e.tx, S)
    BY <2>1, PushOne
  <2>3. Repeated(d) = e
    BY <1>3 DEF Repeated
  <2> HIDE DEF e
  <2>4. S \subseteq Repeats(d)
    BY <1>3 DEF PacketsOf, Repeats
  <2> HIDE DEF S
  <2>5. Grows(d.tx, e.tx, Repeats(d))
    BY <2>2, <2>4 DEF Grows
  <2> QED BY <2>2, <2>3, <2>5
<1>4. CASE d.pro_cmd = "LINK_ACK"
  <2> DEFINE e == LinkAck(d)
             S == PacketsOf(d.link_id, "LINK_ACK", d.rsp_ack_transnum)
  <2>1. IsSide(e) /\ Same(d, e) /\ Grows(d.tx, e.tx, S)
    BY LinkAckIs
  <2>2. Repeated(d) = e
    BY <1>4 DEF Repeated
  <2> HIDE DEF e
  <2>3. S \subseteq Repeats(d)
    BY <1>4 DEF PacketsOf, Repeats
  <2> HIDE DEF S
  <2>4. Grows(d.tx, e.tx, Repeats(d))
    BY <2>1, <2>3 DEF Grows
  <2> QED BY <2>1, <2>2, <2>4
<1>5. CASE d.pro_cmd \notin {"ACK", "LINK_OPEN", "LINK_ACK"}
  <2> DEFINE a == IF d.ack_retry_flag THEN Ack(d) ELSE d
             c == d.pro_cmd
             e == send_multi_type_data(a, c)
             S == PacketsOf(d.link_id, c, d.trans_num)
  <2>1. IsSide(a) /\ Same(d, a) /\ Grows(d.tx, a.tx, Repeats(d))
    <3>1. CASE d.ack_retry_flag = TRUE
      <4>1. /\ IsSide(Ack(d)) /\ Same(d, Ack(d))
            /\ Grows(d.tx, Ack(d).tx, PacketsOf(d.link_id, "ACK", d.rsp_ack_transnum))
        BY AckIs
      <4>2. PacketsOf(d.link_id, "ACK", d.rsp_ack_transnum) \subseteq Repeats(d)
        BY <3>1 DEF PacketsOf, Repeats
      <4>3. Grows(d.tx, Ack(d).tx, Repeats(d))
        BY <4>1, <4>2 DEF Grows
      <4> QED BY <3>1, <4>1, <4>3
    <3>2. CASE d.ack_retry_flag = FALSE
      BY <1>1, <3>2 DEF Same, Grows
    <3> QED BY <3>1, <3>2 DEF IsSide, Sides
  <2>2. Repeated(d) = e
    BY <1>5 DEF Repeated
  <2> HIDE DEF a
  <2>3. a.cmd_retry_flag = TRUE /\ a.trans_num = d.trans_num /\ a.link_id = d.link_id
    BY <2>1 DEF Same
  <2>4. NumberOf(a, c) = d.trans_num
    BY <2>3 DEF NumberOf
  <2>5. /\ IsSide(e) /\ e.trans_num = NumberOf(a, c)
        /\ e.state = a.state /\ e.link_id = a.link_id /\ e.link_id_filter = a.link_id_filter
        /\ e.trans_num_last = a.trans_num_last /\ e.rsp_ack_transnum = a.rsp_ack_transnum
        /\ e.pro_cmd = a.pro_cmd /\ e.cmd_retry_flag = a.cmd_retry_flag
        /\ e.ack_retry_flag = a.ack_retry_flag
        /\ Grows(a.tx, e.tx, PacketsOf(a.link_id, c, NumberOf(a, c)))
    BY <1>1, <2>1, SendIs
  <2> HIDE DEF e
  <2>6. Same(d, e) /\ Grows(a.tx, e.tx, S)
    BY <2>1, <2>3, <2>4, <2>5 DEF Same
  <2>7. S \subseteq Repeats(d)
    BY <1>5 DEF PacketsOf, Repeats
  <2>8. a.tx \in Seq(Packets) /\ e.tx \in Seq(Packets)
    BY <2>1, <2>5 DEF IsSide, Sides
  <2> HIDE DEF S
  <2>9. Grows(d.tx, e.tx, Repeats(d))
    BY <1>1, <2>1, <2>6, <2>7, <2>8, GrowsMore
  <2> QED BY <2>2, <2>5, <2>6, <2>9
<1> QED BY <1>2, <1>3, <1>4, <1>5

LEMMA RetryKeeps ==
  ASSUME Inv, NEW r \in Roles, mesh_adv_provision_retry(r)
  PROVE  Inv'
<1> DEFINE d == dev[r]
           e == Repeated(d)
<1>1. /\ IsSide(d) /\ d.cmd_retry_flag = TRUE /\ Becomes(r, e)
      /\ UNCHANGED <<opened, net, pro_net_info, tick_check_complete, lost, completed, auth>>
  <2>1. IsSide(d)
    BY RolesAre, SidesAre
  <2> QED BY <2>1 DEF mesh_adv_provision_retry, Repeated, IsSide, Sides
<1>2. IsSide(e) /\ Same(d, e) /\ Grows(d.tx, e.tx, Repeats(d))
  BY <1>1, RepeatedIs
<1> HIDE DEF e, d
<1>3. CASE r = "prov"
  <2>1. ProvInv(d) /\ Talking(d)
    BY <1>1, <1>3 DEF Inv, ProvInv, d
  <2>2. /\ d.pro_cmd \in ProvSays[d.state] /\ d.trans_num = ProvNum[d.state]
        /\ d.pro_cmd = "LINK_OPEN" => d.state = "LINK_ESTABLISHED_ACK"
        /\ d.link_id <= opened /\ d.link_id # 0 /\ d.pro_cmd # "LINK_ACK"
    BY <1>1, <2>1, TalkingStates DEF ProvInv, ProvSays, Talking
  <2>3. ASSUME NEW m \in Repeats(d)
        PROVE  ProvPacket(d, m) /\ (m.cmd = "LINK_OPEN" => d.state = "LINK_ESTABLISHED_ACK")
    BY <2>2 DEF Repeats, ProvPacket, ProvNum
  <2>4. ProvInv(e) /\ InOrder(e) /\ Together(e, dev["node"]) /\ Opening(e, dev["node"])
    BY <1>2, <1>3, <2>3, ProvGrow DEF d
  <2>5. dev'["node"] = dev["node"]
    BY <1>1, <1>3, RolesAre DEF Becomes, Inv, Types
  <2>6. Storing(dev["node"])'
    BY <1>1, <2>5, StoringStays
  <2> QED BY <1>1, <1>2, <1>3, <2>4, <2>6, ProvMove
<1>4. CASE r = "node"
  <2>1. NodeInv(d)
    BY <1>4 DEF Inv, d
  <2>2. /\ d.link_id # 0 /\ d.pro_cmd \in NodeSays[d.state] /\ d.state \in DOMAIN NodeSays
        /\ d.state = "LINK_ESTABLISHED" => d.ack_retry_flag = FALSE
    BY <1>1, <2>1 DEF NodeInv
  <2>3. ASSUME NEW m \in Repeats(d)
        PROVE  /\ m.link_id = d.link_id /\ m.link_id # 0 /\ NodePacket(d, m)
               /\ d.state = "LINK_ESTABLISHED" => Early(m)
               /\ m.cmd = "COMPLETE" => d.state = "STATE_PRO_COMPLETE"
    BY <2>2 DEF Repeats, NodePacket, NodeSays, Early
  <2> QED BY <1>1, <1>2, <1>4, <2>3, NodeGrow DEF d
<1> QED BY <1>3, <1>4, RolesAre

-------------------------------------------------------------------------------
(* Time-outs, the end, the beacon, stop and power loss.                    *)

\* The provisioner gives up, or is stopped; what it said is still sent.
LEMMA ProvGivesUp ==
  ASSUME Inv, Becomes("prov", mesh_provision_para_reset(dev["prov"])),
         UNCHANGED <<opened, net, pro_net_info, tick_check_complete, lost, completed, auth>>
  PROVE  Inv'
<1> DEFINE p == dev["prov"]
           e == mesh_provision_para_reset(p)
<1>1. IsSide(p) /\ ProvInv(p) /\ opened \in Nat
  BY SidesAre DEF Inv
<1> HIDE DEF p
<1>2. /\ IsSide(e) /\ e.state = "LINK_UNPROVISION_STATE" /\ e.link_id = 0
      /\ e.cmd_retry_flag = FALSE /\ e.tx = p.tx
  BY <1>1, ResetIs
<1> HIDE DEF e
<1>3. Quiet(e)
  BY <1>1, <1>2 DEF Quiet, ProvInv, ProvPacket
<1>4. Becomes("prov", e)
  BY DEF e, p
<1>5. dev'["node"] = dev["node"]
  BY <1>4, RolesAre DEF Becomes, Inv, Types
<1>6. Storing(dev["node"])'
  BY <1>5, StoringStays
<1> QED BY <1>2, <1>3, <1>4, <1>6, ProvQuiet, ProvMove

\* The node gives up.
LEMMA NodeGivesUp ==
  ASSUME Inv, Becomes("node", mesh_provision_para_reset(dev["node"])), tick_check_complete # TRUE,
         UNCHANGED <<opened, net, pro_net_info, tick_check_complete, lost, completed, auth>>
  PROVE  Inv'
<1> DEFINE n == dev["node"]
           e == mesh_provision_para_reset(n)
<1>1. IsSide(n) /\ NodeInv(n) /\ Opening(dev["prov"], n) /\ Storing(n)
  BY SidesAre DEF Inv
<1> HIDE DEF n
<1>2. /\ IsSide(e) /\ e.state = "LINK_UNPROVISION_STATE" /\ e.link_id = 0
      /\ e.cmd_retry_flag = FALSE /\ e.tx = n.tx
  BY <1>1, ResetIs
<1> HIDE DEF e
<1>3. Unlinked(e)
  BY <1>1, <1>2 DEF Unlinked, NodeInv, Opening
<1>4. Becomes("node", e)
  BY DEF e, n
<1>5. dev'["node"] = e
  BY <1>4, RolesAre DEF Becomes, Inv, Types
<1>6. Storing(dev["node"])'
  BY <1>1, <1>2, <1>5 DEF Storing, Given
<1> QED BY <1>2, <1>3, <1>4, <1>6, NodeQuiet, NodeMove

LEMMA TimeoutKeeps ==
  ASSUME Inv, NEW r \in Roles, Timeout(r)
  PROVE  Inv'
<1>1. /\ Becomes(r, mesh_provision_para_reset(dev[r]))
      /\ UNCHANGED <<opened, net, pro_net_info, tick_check_complete, lost, completed, auth>>
      /\ r = "node" => tick_check_complete # TRUE
  BY DEF Timeout
<1> QED BY <1>1, RolesAre, ProvGivesUp, NodeGivesUp

LEMMA WaitKeeps ==
  ASSUME Inv, wait_and_check_complete_state
  PROVE  Inv'
<1> DEFINE n == dev["node"]
           f == send_rcv_retry_clr(n)
           e == mesh_provision_para_reset(f)
<1>1. /\ tick_check_complete = TRUE /\ tick_check_complete' = FALSE
      /\ UNCHANGED <<opened, pro_net_info, lost, completed, auth>>
      /\ IF net # 0 THEN UNCHANGED <<dev, net>> ELSE net' = pro_net_info /\ Becomes("node", e)
  BY DEF wait_and_check_complete_state, Inv, Storing
<1>2. IsSide(n) /\ NodeInv(n) /\ Storing(n)
  BY SidesAre DEF Inv
<1>3. CASE net # 0
  <2>1. /\ Types' /\ ProvInv(dev["prov"])' /\ InOrder(dev["prov"])' /\ NodeInv(dev["node"])'
    BY <1>1, <1>3 DEF Inv, Types, ProvInv, ProvPacket, InOrder, NodeInv, Talking
  <2>2. Together(dev["prov"], dev["node"])' /\ Opening(dev["prov"], dev["node"])'
    BY <1>1, <1>3 DEF Inv, Together, NodePacket, Opening, MayOpen, Talking, Early
  <2>3. Storing(dev["node"])'
    BY <1>1, <1>2, <1>3 DEF Storing, Given
  <2> QED BY <2>1, <2>2, <2>3 DEF Inv
<1>4. CASE net = 0
  <2> HIDE DEF n
  <2>1. IsSide(f) /\ f.tx = <<>>
    BY <1>2, ClearIs
  <2> HIDE DEF f
  <2>2. /\ IsSide(e) /\ e.state = "LINK_UNPROVISION_STATE" /\ e.link_id = 0
        /\ e.cmd_retry_flag = FALSE /\ e.tx = <<>>
    BY <2>1, ResetIs
  <2> HIDE DEF e
  <2>3. Unlinked(e)
    BY <2>2 DEF Unlinked
  <2>4. dev'["node"] = e
    BY <1>1, <1>4, RolesAre DEF Becomes, Inv, Types
  <2>5. pro_net_info = n.link_id /\ n.link_id # 0 /\ auth = TRUE
    BY <1>1, <1>2, <1>4 DEF Storing, NodeInv
  <2>6. Storing(dev["node"])'
    BY <1>1, <1>2, <1>4, <2>2, <2>4, <2>5 DEF Storing, Given
  <2> QED BY <1>1, <1>4, <2>2, <2>3, <2>6, NodeQuiet, NodeMove
<1> QED BY <1>3, <1>4

LEMMA EndKeeps ==
  ASSUME Inv, mesh_loop_provision_end_process
  PROVE  Inv'
<1> DEFINE p == dev["prov"]
           f == send_rcv_retry_clr(p)
           e == [f EXCEPT !.state = "STATE_PRO_SUC", !.link_id_filter = FALSE]
<1>1. IsSide(p) /\ ProvInv(p)
  BY SidesAre DEF Inv
<1>2. /\ IsSide(f) /\ f.link_id = p.link_id /\ f.cmd_retry_flag = FALSE /\ f.tx = <<>>
  BY <1>1, ClearIs
<1>3. Becomes("prov", e)
  BY DEF mesh_loop_provision_end_process
<1>4. UNCHANGED <<opened, net, pro_net_info, tick_check_complete, lost, completed, auth>>
  BY DEF mesh_loop_provision_end_process
<1> HIDE DEF f
<1>5. /\ IsSide(e) /\ e.state = "STATE_PRO_SUC" /\ e.link_id = p.link_id
      /\ e.cmd_retry_flag = FALSE /\ e.tx = <<>>
  BY <1>2 DEF IsSide, Sides, States
<1> HIDE DEF e
<1>6. Quiet(e)
  BY <1>1, <1>5 DEF Quiet, ProvInv
<1>7. dev'["node"] = dev["node"]
  BY <1>3, RolesAre DEF Becomes, Inv, Types
<1>8. Storing(dev["node"])'
  BY <1>4, <1>7, StoringStays
<1> QED BY <1>3, <1>4, <1>5, <1>6, <1>8, ProvQuiet, ProvMove

LEMMA BeaconKeeps ==
  ASSUME Inv, mesh_pro_rc_beacon_dispatch
  PROVE  Inv'
<1> DEFINE p == dev["prov"]
           n == dev["node"]
           g == mesh_provision_para_reset(p)
           f == [send_rcv_retry_set(g, "LINK_OPEN", FALSE)
                   EXCEPT !.link_id = opened', !.state = "LINK_ESTABLISHED_ACK"]
           e == Push(f, <<Packet(f, "LINK_OPEN", 0, 0)>>)
           S == PacketsOf(opened', "LINK_OPEN", 0)
<1>1. /\ IsSide(p) /\ IsSide(n) /\ ProvInv(p) /\ NodeInv(n) /\ Storing(n) /\ opened \in Nat
  BY SidesAre DEF Inv
<1>2. /\ n.state = "LINK_UNPROVISION_STATE" /\ p.state \in {"LINK_UNPROVISION_STATE", "STATE_PRO_SUC"}
      /\ opened' = opened + 1 /\ Becomes("prov", e)
      /\ UNCHANGED <<net, pro_net_info, tick_check_complete, lost, completed, auth>>
  BY DEF mesh_pro_rc_beacon_dispatch
<1>3. opened' \in Nat /\ opened < opened' /\ opened' # 0
  BY <1>1, <1>2
<1>4. IsSide(g) /\ g.trans_num = 0 /\ g.tx = p.tx
  BY <1>1, ResetIs
<1> HIDE DEF g
<1>5. /\ IsSide(f) /\ f.state = "LINK_ESTABLISHED_ACK" /\ f.link_id = opened' /\ f.trans_num = 0
      /\ f.cmd_retry_flag = TRUE /\ f.pro_cmd = "LINK_OPEN" /\ f.tx = p.tx
  BY <1>3, <1>4 DEF send_rcv_retry_set, IsSide, Sides, States, Commands
<1> HIDE DEF f
<1>6. IsSide(e) /\ Same(f, e) /\ Grows(p.tx, e.tx, S)
  <2>1. "LINK_OPEN" \in Commands /\ 0 \in Nat
    BY DEF Commands
  <2> QED BY <1>5, <2>1, PushOne
<1> HIDE DEF e, S
<1>7. /\ e.state = "LINK_ESTABLISHED_ACK" /\ e.link_id = opened' /\ e.trans_num = 0
      /\ e.cmd_retry_flag = TRUE /\ e.pro_cmd = "LINK_OPEN" /\ Talking(e)
  BY <1>5, <1>6, TalkingStates DEF Same, Talking
<1>8. Len(p.tx) \in Nat /\ Len(e.tx) \in Nat
  BY <1>1, <1>6 DEF IsSide, Sides
<1>9. \A i \in 1 .. Len(p.tx) : p.tx[i].link_id \in Nat
  BY SidesAre DEF Packets
<1>10. ASSUME NEW i \in 1 .. Len(e.tx)
       PROVE  \/ /\ i \in 1 .. Len(p.tx) /\ e.tx[i] = p.tx[i] /\ ProvPacket(p, e.tx[i])
                 /\ e.tx[i].link_id < opened'
              \/ e.tx[i].link_id = opened' /\ e.tx[i].cmd = "LINK_OPEN" /\ e.tx[i].trans_num = 0
  BY <1>1, <1>2, <1>6, <1>8, <1>9 DEF Grows, S, PacketsOf, ProvInv, ProvPacket
<1>11. /\ dev' \in [Roles -> Sides] /\ dev'["prov"] = e /\ dev'["node"] = n
  BY <1>2, <1>6, RolesAre DEF Inv, Types, Becomes, IsSide
<1> HIDE DEF p, n
<1>12. Types'
  BY <1>1, <1>3, <1>6, <1>11, RolesAre DEF Types
<1>13. ProvInv(dev["prov"])'
  <2>1. ASSUME NEW i \in 1 .. Len(e.tx)
        PROVE  /\ e.tx[i].link_id <= opened'
               /\ e.tx[i].cmd = "LINK_OPEN" => e.tx[i].link_id # 0 /\ e.tx[i].trans_num = 0
               /\ e.tx[i].link_id = e.link_id =>
                    e.tx[i].cmd \in ProvSays[e.state] /\ e.tx[i].trans_num = e.trans_num
    BY <1>3, <1>7, <1>9, <1>10 DEF ProvPacket, ProvSays
  <2>2. \A i \in 1 .. Len(dev'["prov"].tx) : ProvPacket(dev["prov"], dev["prov"].tx[i])'
    BY <1>11, <2>1 DEF ProvPacket
  <2> QED BY <1>3, <1>7, <1>11, <2>2 DEF ProvInv, Talking, ProvSays, ProvNum
<1>14. InOrder(dev["prov"])'
  BY <1>3, <1>7, <1>10, <1>11 DEF InOrder
<1>15. NodeInv(dev["node"])'
  <2>1. n.link_id \in Nat /\ \A i \in 1 .. Len(n.tx) : n.tx[i].link_id \in Nat
    BY <1>1, SidesAre DEF IsSide, Sides, Packets, n
  <2> QED BY <1>1, <1>2, <1>3, <1>11, <2>1 DEF NodeInv
<1>16. n.link_id = 0 /\ \A i \in 1 .. Len(n.tx) : n.tx[i].link_id # opened'
  <2>1. \A i \in 1 .. Len(n.tx) : n.tx[i].link_id \in Nat
    BY SidesAre DEF Packets, n
  <2> QED BY <1>1, <1>2, <1>3, <2>1 DEF NodeInv
<1>17. Together(dev["prov"], dev["node"])' /\ Opening(dev["prov"], dev["node"])'
  BY <1>3, <1>7, <1>11, <1>16 DEF Together, Opening
<1>18. Storing(dev["node"])'
  BY <1>1, <1>2, <1>11 DEF Storing, Given
<1> QED BY <1>12, <1>13, <1>14, <1>15, <1>17, <1>18 DEF Inv

LEMMA IdleIs ==
  /\ IsSide(PoweredOn) /\ PoweredOn.state = "LINK_UNPROVISION_STATE" /\ PoweredOn.link_id = 0
  /\ PoweredOn.cmd_retry_flag = FALSE /\ Len(PoweredOn.tx) = 0
<1>1. <<>> \in Seq(Packets) /\ Len(<<>>) = 0 /\ 0 <= Cap
  BY PbAdvAssumption
<1>2. NoSeg \in Segs
  BY DEF NoSeg, Segs
<1> QED BY <1>1, <1>2 DEF PoweredOn, Idle, IsSide, Sides, States, Commands

LEMMA PowerLossKeeps ==
  ASSUME Inv, PowerLoss
  PROVE  Inv'
<1> DEFINE e == PoweredOn
<1>1. /\ IsSide(e) /\ e.state = "LINK_UNPROVISION_STATE" /\ e.link_id = 0
      /\ e.cmd_retry_flag = FALSE /\ Len(e.tx) = 0
  BY IdleIs
<1> HIDE DEF e
<1>2. /\ Becomes("node", e) /\ tick_check_complete' = FALSE
      /\ lost' = (IF tick_check_complete /\ net = 0 THEN lost \cup {pro_net_info} ELSE lost)
      /\ UNCHANGED <<opened, net, completed, auth>>
  BY DEF PowerLoss, e
<1>3. Unlinked(e)
  BY <1>1 DEF Unlinked
<1>4. Storing(dev["node"])
  BY DEF Inv
<1>5. dev'["node"] = e
  BY <1>2, RolesAre DEF Becomes, Inv, Types
<1>6. \A l : Given(l) => Given(l)'
  BY <1>2, <1>4 DEF Storing, Given
<1>7. Storing(dev["node"])'
  BY <1>1, <1>2, <1>4, <1>5, <1>6 DEF Storing
<1> QED BY <1>1, <1>2, <1>3, <1>7, NodeQuiet, NodeMove

-------------------------------------------------------------------------------
(* The theorems.                                                           *)

LEMMA InitHolds == Init => Inv
<1> SUFFICES ASSUME Init PROVE Inv
  OBVIOUS
<1> DEFINE e == PoweredOn
<1>1. /\ IsSide(e) /\ e.state = "LINK_UNPROVISION_STATE" /\ e.link_id = 0
      /\ e.cmd_retry_flag = FALSE /\ Len(e.tx) = 0
  BY IdleIs
<1>2. dev = [r \in Roles |-> e]
  BY DEF Init
<1> HIDE DEF e
<1>3. dev["prov"] = e /\ dev["node"] = e
  BY <1>2, RolesAre
<1>4. opened = 0 /\ net = 0 /\ tick_check_complete = FALSE /\ completed = {}
  BY DEF Init
<1>5. Types
  BY <1>1, <1>2, <1>4 DEF Types, IsSide
<1>6. ~Talking(e)
  BY <1>1, TalkingStates DEF Talking
<1>7. ProvInv(e) /\ InOrder(e) /\ NodeInv(e) /\ Together(e, e) /\ Opening(e, e)
  BY <1>1, <1>4, <1>6 DEF ProvInv, InOrder, NodeInv, Together, Opening, MayOpen
<1>8. Storing(e)
  BY <1>1, <1>4 DEF Storing
<1> QED BY <1>3, <1>5, <1>7, <1>8 DEF Inv

LEMMA StepKeeps == Inv /\ [Next]_vars => Inv'
<1> SUFFICES ASSUME Inv, [Next]_vars PROVE Inv'
  OBVIOUS
<1>1. CASE UNCHANGED vars
  BY <1>1 DEF vars, Inv, Types, ProvInv, ProvPacket, InOrder, NodeInv, Together, NodePacket,
              Opening, MayOpen, Talking, Early, Storing, Given
<1>2. ASSUME NEW r \in Roles, mesh_provison_process(r)
      PROVE  Inv'
  BY <1>2, HearingKeeps
<1>3. ASSUME NEW r \in Roles, Sent(r)
      PROVE  Inv'
  BY <1>3, SentKeeps
<1>4. ASSUME NEW r \in Roles, mesh_adv_provision_retry(r)
      PROVE  Inv'
  BY <1>4, RetryKeeps
<1>5. ASSUME NEW r \in Roles, Timeout(r)
      PROVE  Inv'
  BY <1>5, TimeoutKeeps
<1>6. CASE wait_and_check_complete_state
  BY <1>6, WaitKeeps
<1>7. CASE mesh_loop_provision_end_process
  BY <1>7, EndKeeps
<1>8. CASE mesh_pro_rc_beacon_dispatch
  BY <1>8, BeaconKeeps
<1>9. CASE Stop
  BY <1>9, ProvGivesUp DEF Stop
<1>10. CASE PowerLoss
  BY <1>10, PowerLossKeeps
<1> QED BY <1>1, <1>2, <1>3, <1>4, <1>5, <1>6, <1>7, <1>8, <1>9, <1>10 DEF Next

\* The invariant of the dialogue holds in every reachable state, whatever is lost, repeated,
\* stopped or switched off.
THEOREM Inductive == Spec => []Inv
BY InitHolds, StepKeeps, PTL DEF Spec

\* The sides and their queues keep their types, and no queue exceeds its size.
THEOREM TypeCorrect == Spec => []Types
<1>1. Inv => Types
  BY DEF Inv
<1> QED BY <1>1, Inductive, PTL

\* On one link the two never drift more than one message apart.
THEOREM NeverFarApart == Spec => []InStep
<1>1. Inv => InStep
  BY DEF Inv, Together, InStep, Talking
<1> QED BY <1>1, Inductive, PTL

\* What the provisioner counts as given is stored in the node or about to be, and nothing is
\* stored without a right confirmation.
THEOREM WhatIsGivenIsStored == Spec => []GivenIsStored
<1>1. Inv => GivenIsStored
  BY DEF Inv, Storing, Given, GivenIsStored
<1> QED BY <1>1, Inductive, PTL
===============================================================================
