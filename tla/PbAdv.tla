--------------------------------- MODULE PbAdv ---------------------------------
(***************************************************************************)
(* Provisioning over advertisements (app_provison.c): a provisioner gives  *)
(* a node its network key and address in a dialogue of nine messages.      *)
(* Advertisements are lost and repeated; each side sends what it said last *)
(* again every 100 ms until it is answered, and gives up after 30 s.  Long *)
(* messages travel in segments, which are put together in rcv_pb.          *)
(*                                                                         *)
(* A link id stands for all that was exchanged on it: keys, confirmation   *)
(* and, at the end, the address.  Input and output OOB are left out, and   *)
(* so are messages no correct peer sends (a malformed start, a point that  *)
(* is not on the curve, a link close with a reason).  Bit 7 of a           *)
(* transaction number only tells the sides apart and is left out too.      *)
(***************************************************************************)
EXTENDS Naturals, FiniteSets, Sequences

CONSTANTS
  MaxLinks,   \* bound: links opened
  Busy,       \* nothing is repeated while more packets than this wait to be sent
  Cap         \* the packets mesh_adv_cmd_fifo holds

ASSUME PbAdvAssumption == MaxLinks \in Nat \ {0} /\ Busy \in Nat /\ Cap \in Nat \ {0}

VARIABLES
  dev,           \* prov_para of the provisioner and of the node, with its fifo and mesh_prov_seg
  net,           \* the link whose data the node is provisioned with, 0: none (kept in flash)
  pro_net_info,  \* the link whose data the node received last
  tick_check_complete,      \* the node's 4 s to wait for the last acknowledgement run
  mesh_provision_end_tick,  \* the provisioner's 2 s after PRO_COMPLETE run
  oob,           \* the node's public key is known out of band
  auth,          \* both sides have the same authentication value
  opened,        \* the last link id used
  completed,     \* history: links on which the provisioner heard PRO_COMPLETE
  lost,          \* history: links whose data the node received, and lost by a power loss
  failed         \* history: something timed out, was stopped or lost power

vars == <<dev, net, pro_net_info, tick_check_complete, mesh_provision_end_tick,
          oob, auth, opened, completed, lost, failed>>

Roles   == {"prov", "node"}
Peer(r) == CHOOSE q \in Roles : q # r

(***************************************************************************)
(* One side.                                                               *)
(***************************************************************************)
NoSeg == [trans_num |-> 0, link_id |-> 0, seg_n |-> 128, got |-> {}, decrypted |-> FALSE]
Idle(ack, tx, seg) ==
  [state |-> "LINK_UNPROVISION_STATE", link_id |-> 0, link_id_filter |-> FALSE,
   trans_num |-> 0, trans_num_last |-> 0, rsp_ack_transnum |-> ack,
   pro_cmd |-> "INVITE", cmd_retry_flag |-> FALSE, ack_retry_flag |-> FALSE,
   tx |-> tx, seg |-> seg]
PoweredOn == Idle(0, <<>>, NoSeg)

\* rsp_ack_transnum, the queue and the segments are behind what is cleared.
mesh_provision_para_reset(d) == Idle(d.rsp_ack_transnum, d.tx, d.seg)

\* External: packets a full queue has no room for are dropped.
Push(d, packets) ==
  LET tx == d.tx \o packets
  IN  [d EXCEPT !.tx = IF Len(tx) <= Cap THEN tx ELSE SubSeq(tx, 1, Cap)]

Segments(cmd) == CASE cmd = "PUB_KEY" -> 3 [] cmd = "DATA" -> 2 [] OTHER -> 1

Packet(d, cmd, num, idx) == [cmd |-> cmd, link_id |-> d.link_id, trans_num |-> num, idx |-> idx]
Ack(d)     == Push(d, <<Packet(d, "ACK", d.rsp_ack_transnum, 0)>>)
LinkAck(d) == Push(d, <<Packet(d, "LINK_ACK", d.rsp_ack_transnum, 0)>>)

\* A message that is sent again, and the first one, keep the transaction number.
NextTrans(d, cmd) ==
  [d EXCEPT !.trans_num = IF d.cmd_retry_flag \/ cmd = "CAPABLI" THEN @ ELSE @ + 1]
send_multi_type_data(d, cmd) ==
  LET n == NextTrans(d, cmd)
  IN  Push(n, [i \in 1 .. Segments(cmd) |-> Packet(n, cmd, n.trans_num, i - 1)])

send_rcv_retry_set(d, cmd, with) ==
  [d EXCEPT !.pro_cmd = cmd, !.cmd_retry_flag = TRUE, !.ack_retry_flag = with]
send_rcv_retry_clr(d) ==
  [d EXCEPT !.cmd_retry_flag = FALSE, !.ack_retry_flag = FALSE, !.tx = <<>>]

\* What most handlers do: acknowledge m, say cmd, and repeat both.
Answer(d, m, cmd, state) ==
  LET acked == Ack(send_rcv_retry_clr([d EXCEPT !.rsp_ack_transnum = m.trans_num]))
      sent  == send_multi_type_data(acked, cmd)
  IN  [send_rcv_retry_set(sent, cmd, TRUE) EXCEPT !.state = state,
                                                  !.trans_num_last = sent.trans_num]

\* Mutant: an old acknowledgement stops it.
OnlyAckAsIs(d, m, state) ==
  LET acked == Ack(send_rcv_retry_clr([d EXCEPT !.rsp_ack_transnum = m.trans_num]))
  IN  [send_rcv_retry_set(acked, "ACK", FALSE) EXCEPT !.state = state]

\* The node has nothing to say yet: it repeats the acknowledgement, and moves trans_num_last on
\* so that an old acknowledgement does not stop that.
OnlyAck(d, m, state) ==
  LET acked == Ack(send_rcv_retry_clr([d EXCEPT !.rsp_ack_transnum = m.trans_num]))
  IN  [send_rcv_retry_set(acked, "ACK", FALSE) EXCEPT !.state = state, !.trans_num_last = @ + 2]

\* Mutant: the number an acknowledgement must have is not moved on.
SayUnnumbered(d, cmd, state) ==
  LET sent == send_multi_type_data(d, cmd)
  IN  [send_rcv_retry_set(sent, cmd, FALSE) EXCEPT !.state = state]

\* The provisioner says cmd.
Say(d, cmd, state) ==
  LET sent == send_multi_type_data(d, cmd)
  IN  [send_rcv_retry_set(sent, cmd, FALSE) EXCEPT !.state = state,
                                                   !.trans_num_last = sent.trans_num]

(***************************************************************************)
(* Segments.  got holds what is in rcv_pb; the check sum is right when it  *)
(* is all of one message and has not been decrypted in its place.          *)
(***************************************************************************)
mesh_provision_seg_check(d, m) ==
  LET same  == m.trans_num = d.seg.trans_num /\ d.seg.link_id = d.link_id
      start == IF same THEN d.seg
               ELSE [NoSeg EXCEPT !.trans_num = m.trans_num, !.link_id = d.link_id]
      piece == [idx |-> m.idx, cmd |-> m.cmd, link_id |-> m.link_id]
  IN  IF \E p \in start.got : p.idx = m.idx
      THEN [d EXCEPT !.seg = start]
      ELSE [d EXCEPT !.seg = [start EXCEPT !.got = @ \cup {piece},
                                           !.seg_n = IF m.idx = 0 THEN Segments(m.cmd) - 1 ELSE @]]
Whole(s) ==
  /\ Cardinality(s.got) = s.seg_n + 1
  /\ \A p, q \in s.got : p.cmd = q.cmd /\ p.link_id = q.link_id
  /\ ~s.decrypted

(***************************************************************************)
(* What each state waits for.                                              *)
(***************************************************************************)
Awaits ==
  [node |-> [LINK_UNPROVISION_STATE |-> "LINK_OPEN", LINK_ESTABLISHED     |-> "INVITE",
             STATE_DEV_CAPA         |-> "START",     STATE_PRO_START_ACK  |-> "PUB_KEY",
             STATE_DEV_PUB_KEY_ACK  |-> "CONFIRM",   STATE_DEV_CONFIRM    |-> "RANDOM",
             STATE_DEV_RANDOM       |-> "DATA",      STATE_PRO_COMPLETE   |-> "nothing"],
   prov |-> [LINK_UNPROVISION_STATE |-> "nothing",   LINK_ESTABLISHED_ACK |-> "LINK_ACK",
             STATE_DEV_CAPA_ACK     |-> "CAPABLI",   STATE_PRO_START_ACK  |-> "ACK",
             STATE_PRO_PUB_KEY_ACK  |-> "ACK",       STATE_DEV_PUB_KEY    |-> "PUB_KEY",
             STATE_DEV_CONFIRM      |-> "CONFIRM",   STATE_DEV_RANDOM     |-> "RANDOM",
             STATE_PRO_COMPLETE     |-> "COMPLETE",  STATE_PRO_SUC        |-> "nothing"]]

\* An acknowledgement counts when it is for what was sent last.
Acked(d, m) == m.cmd = "ACK" /\ m.trans_num >= d.trans_num_last

Expected(r, d, m) ==
  /\ m.cmd = Awaits[r][d.state]
  /\ m.cmd = "ACK" => Acked(d, m)
  /\ m.cmd = "LINK_OPEN" => net = 0

Becomes(r, d) == dev' = [dev EXCEPT ![r] = d]

(***************************************************************************)
(* mesh_node_rc_data_dispatch: d is the node when m has been put together. *)
(***************************************************************************)
NodeLinkOpen(d, m) ==
  /\ m.cmd = "LINK_OPEN"
  /\ LET linked == LinkAck([d EXCEPT !.link_id = m.link_id, !.rsp_ack_transnum = m.trans_num])
     IN  Becomes("node", [send_rcv_retry_set(linked, "LINK_ACK", FALSE) EXCEPT
                            !.state = "LINK_ESTABLISHED", !.link_id_filter = TRUE])
  /\ UNCHANGED <<net, pro_net_info, tick_check_complete>>

NodeInvite(d, m) ==
  /\ m.cmd = "INVITE"
  /\ Becomes("node", Answer(d, m, "CAPABLI", "STATE_DEV_CAPA"))
  /\ UNCHANGED <<net, pro_net_info, tick_check_complete>>

NodeStart(d, m) ==
  /\ m.cmd = "START"
  /\ Becomes("node", OnlyAck(d, m, "STATE_PRO_START_ACK"))
  /\ UNCHANGED <<net, pro_net_info, tick_check_complete>>

NodePubKey(d, m) ==
  /\ m.cmd = "PUB_KEY"
  /\ Becomes("node", IF oob THEN OnlyAck(d, m, "STATE_DEV_PUB_KEY_ACK")
                            ELSE Answer(d, m, "PUB_KEY", "STATE_DEV_PUB_KEY_ACK"))
  /\ UNCHANGED <<net, pro_net_info, tick_check_complete>>

NodeConfirm(d, m) ==
  /\ m.cmd = "CONFIRM"
  /\ Becomes("node", Answer(d, m, "CONFIRM", "STATE_DEV_CONFIRM"))
  /\ UNCHANGED <<net, pro_net_info, tick_check_complete>>

\* When the confirmation is wrong, the event callback resets the link with PRO_FAIL just queued.
NodeRandom(d, m) ==
  /\ m.cmd = "RANDOM"
  /\ Becomes("node", IF auth THEN Answer(d, m, "RANDOM", "STATE_DEV_RANDOM")
                     ELSE mesh_provision_para_reset(Answer(d, m, "FAIL", "STATE_PRO_FAILED_ACK")))
  /\ UNCHANGED <<net, pro_net_info, tick_check_complete>>

\* Mutant: the data waits for the acknowledgement of PRO_COMPLETE alone.
NodeDataUntimed(d, m) ==
  /\ m.cmd = "DATA"
  /\ LET a == Answer(d, m, "COMPLETE", "STATE_PRO_COMPLETE")
     IN  Becomes("node", [a EXCEPT !.seg.decrypted = TRUE])
  /\ pro_net_info' = m.link_id
  /\ UNCHANGED <<net, tick_check_complete>>

NodeData(d, m) ==
  /\ m.cmd = "DATA"
  /\ LET a == Answer(d, m, "COMPLETE", "STATE_PRO_COMPLETE")
     IN  Becomes("node", [a EXCEPT !.seg.decrypted = TRUE])
  /\ pro_net_info' = m.link_id
  /\ tick_check_complete' = TRUE
  /\ UNCHANGED net

\* Comes before the switch on the state; the one for PRO_COMPLETE ends the dialogue.
NodeAcked(d, m) ==
  /\ d.link_id_filter /\ Acked(d, m)
  /\ LET c == [send_rcv_retry_clr(d) EXCEPT !.trans_num_last = m.trans_num + 2]
         end == d.state = "STATE_PRO_COMPLETE"
     IN  /\ Becomes("node", IF end THEN mesh_provision_para_reset(c) ELSE c)
         /\ net' = IF end THEN pro_net_info ELSE net
  /\ UNCHANGED <<pro_net_info, tick_check_complete>>

mesh_node_rc_data_dispatch(d, m) ==
  /\ IF Acked(d, m) THEN NodeAcked(d, m)
     ELSE IF Expected("node", d, m)
     THEN \/ NodeLinkOpen(d, m) \/ NodeInvite(d, m) \/ NodeStart(d, m) \/ NodePubKey(d, m)
          \/ NodeConfirm(d, m)  \/ NodeRandom(d, m) \/ NodeData(d, m)
     ELSE Becomes("node", d) /\ UNCHANGED <<net, pro_net_info, tick_check_complete>>
  /\ UNCHANGED <<mesh_provision_end_tick, completed>>

(***************************************************************************)
(* mesh_pro_rc_adv_dispatch.                                               *)
(***************************************************************************)
\* No send_rcv_retry_clr here: the invitation keeps the number 0 of the link open.
ProvLinkAck(d, m) ==
  /\ m.cmd = "LINK_ACK"
  /\ Becomes("prov", [Say([d EXCEPT !.rsp_ack_transnum = 0], "INVITE", "STATE_DEV_CAPA_ACK")
                        EXCEPT !.link_id_filter = TRUE])
  /\ UNCHANGED <<mesh_provision_end_tick, completed>>

ProvCapabli(d, m) ==
  /\ m.cmd = "CAPABLI"
  /\ Becomes("prov", Answer(d, m, "START", "STATE_PRO_START_ACK"))
  /\ UNCHANGED <<mesh_provision_end_tick, completed>>

ProvStartAcked(d, m) ==
  /\ m.cmd = "ACK" /\ d.state = "STATE_PRO_START_ACK"
  /\ Becomes("prov", Say(send_rcv_retry_clr(d), "PUB_KEY", "STATE_PRO_PUB_KEY_ACK"))
  /\ UNCHANGED <<mesh_provision_end_tick, completed>>

\* With a key known out of band the confirmation follows at once; else the node's key is awaited,
\* and the own one goes on being repeated.
ProvPubKeyAcked(d, m) ==
  /\ m.cmd = "ACK" /\ d.state = "STATE_PRO_PUB_KEY_ACK"
  /\ Becomes("prov", IF oob THEN Say(send_rcv_retry_clr(d), "CONFIRM", "STATE_DEV_CONFIRM")
                            ELSE [d EXCEPT !.state = "STATE_DEV_PUB_KEY"])
  /\ UNCHANGED <<mesh_provision_end_tick, completed>>

ProvPubKey(d, m) ==
  /\ m.cmd = "PUB_KEY"
  /\ Becomes("prov", Answer(d, m, "CONFIRM", "STATE_DEV_CONFIRM"))
  /\ UNCHANGED <<mesh_provision_end_tick, completed>>

ProvConfirm(d, m) ==
  /\ m.cmd = "CONFIRM"
  /\ Becomes("prov", Answer(d, m, "RANDOM", "STATE_DEV_RANDOM"))
  /\ UNCHANGED <<mesh_provision_end_tick, completed>>

ProvRandom(d, m) ==
  /\ m.cmd = "RANDOM"
  /\ Becomes("prov", Answer(d, m, "DATA", "STATE_PRO_COMPLETE"))
  /\ UNCHANGED <<mesh_provision_end_tick, completed>>

\* The acknowledgement is set to be repeated, but the event callback resets the link: it is sent
\* once, and the node's 4 s make up for it.
ProvComplete(d, m) ==
  /\ m.cmd = "COMPLETE"
  /\ LET acked == Ack(send_rcv_retry_clr([d EXCEPT !.rsp_ack_transnum = m.trans_num]))
     IN  Becomes("prov", mesh_provision_para_reset(acked))
  /\ mesh_provision_end_tick' = TRUE
  /\ completed' = completed \cup {d.link_id}

mesh_pro_rc_adv_dispatch(d, m) ==
  /\ IF Expected("prov", d, m)
     THEN \/ ProvLinkAck(d, m) \/ ProvCapabli(d, m) \/ ProvStartAcked(d, m) \/ ProvPubKeyAcked(d, m)
          \/ ProvPubKey(d, m)  \/ ProvConfirm(d, m) \/ ProvRandom(d, m)     \/ ProvComplete(d, m)
     ELSE /\ Becomes("prov", IF m.cmd = "CAPABLI" THEN Push(d, <<Packet(d, "ACK", m.trans_num, 0)>>) ELSE d)
          /\ UNCHANGED <<mesh_provision_end_tick, completed>>
  /\ UNCHANGED <<net, pro_net_info, tick_check_complete>>

(***************************************************************************)
(* r hears the packet its peer sends.  Each is sent three times: it is     *)
(* heard any number of times until Sent.                                   *)
(***************************************************************************)
mesh_provison_process(r) ==
  /\ dev[Peer(r)].tx # <<>>
  /\ LET m    == Head(dev[Peer(r)].tx)
         long == Segments(m.cmd) > 1
         d    == IF long THEN mesh_provision_seg_check(dev[r], m) ELSE dev[r]
     IN  /\ dev[r].link_id_filter => m.link_id = dev[r].link_id
         /\ IF long /\ ~Whole(d.seg)
            THEN /\ Becomes(r, d)
                 /\ UNCHANGED <<net, pro_net_info, tick_check_complete,
                                mesh_provision_end_tick, completed>>
            ELSE \/ r = "node" /\ mesh_node_rc_data_dispatch(d, m)
                 \/ r = "prov" /\ mesh_pro_rc_adv_dispatch(d, m)
  /\ UNCHANGED <<oob, auth, opened, lost, failed>>

Sent(r) ==
  /\ dev[r].tx # <<>>
  /\ dev' = [dev EXCEPT ![r].tx = Tail(@)]
  /\ UNCHANGED <<net, pro_net_info, tick_check_complete, mesh_provision_end_tick,
                 oob, auth, opened, completed, lost, failed>>

(***************************************************************************)
(* The main loop.                                                          *)
(***************************************************************************)
\* Every 100 ms, while the queue is short.
mesh_adv_provision_retry(r) ==
  LET d     == dev[r]
      first == IF d.ack_retry_flag THEN Ack(d) ELSE d
  IN  /\ d.cmd_retry_flag /\ Len(d.tx) <= Busy
      /\ Becomes(r, CASE d.pro_cmd = "ACK"       -> Ack(Ack(d))
                      [] d.pro_cmd = "LINK_OPEN" -> Push(d, <<Packet(d, "LINK_OPEN", 0, 0)>>)
                      [] d.pro_cmd = "LINK_ACK"  -> LinkAck(d)
                      [] OTHER                   -> send_multi_type_data(first, d.pro_cmd))
      /\ UNCHANGED <<net, pro_net_info, tick_check_complete, mesh_provision_end_tick,
                     oob, auth, opened, completed, lost, failed>>

\* 30 s of repeating the same.  The node's last wait is shorter.
Timeout(r) ==
  /\ dev[r].cmd_retry_flag
  /\ r = "node" => ~tick_check_complete
  /\ Becomes(r, mesh_provision_para_reset(dev[r]))
  /\ failed' = TRUE
  /\ UNCHANGED <<net, pro_net_info, tick_check_complete, mesh_provision_end_tick,
                 oob, auth, opened, completed, lost>>

\* A node that is provisioned needs no end of the wait.
wait_and_check_complete_state ==
  /\ tick_check_complete
  /\ tick_check_complete' = FALSE
  /\ IF net # 0 THEN UNCHANGED <<dev, net>>
     ELSE /\ net' = pro_net_info
          /\ Becomes("node", mesh_provision_para_reset(send_rcv_retry_clr(dev["node"])))
  /\ UNCHANGED <<pro_net_info, mesh_provision_end_tick, oob, auth, opened, completed, lost, failed>>

mesh_loop_provision_end_process ==
  /\ mesh_provision_end_tick
  /\ mesh_provision_end_tick' = FALSE
  /\ Becomes("prov", [send_rcv_retry_clr(dev["prov"]) EXCEPT !.state = "STATE_PRO_SUC",
                                                             !.link_id_filter = FALSE])
  /\ UNCHANGED <<net, pro_net_info, tick_check_complete, oob, auth, opened, completed, lost, failed>>

\* The beacon of a node that is neither provisioned nor being provisioned.
mesh_pro_rc_beacon_dispatch ==
  /\ net = 0 /\ dev["node"].state = "LINK_UNPROVISION_STATE"
  /\ dev["prov"].state \in {"LINK_UNPROVISION_STATE", "STATE_PRO_SUC"}
  /\ opened < MaxLinks /\ opened' = opened + 1
  /\ LET d == [send_rcv_retry_set(mesh_provision_para_reset(dev["prov"]), "LINK_OPEN", FALSE)
                 EXCEPT !.link_id = opened', !.state = "LINK_ESTABLISHED_ACK"]
     IN  Becomes("prov", Push(d, <<Packet(d, "LINK_OPEN", 0, 0)>>))
  /\ UNCHANGED <<net, pro_net_info, tick_check_complete, mesh_provision_end_tick,
                 oob, auth, completed, lost, failed>>

\* set_provision_stop_flag_act
Stop ==
  /\ dev["prov"].state # "LINK_UNPROVISION_STATE"
  /\ Becomes("prov", mesh_provision_para_reset(dev["prov"]))
  /\ failed' = TRUE
  /\ UNCHANGED <<net, pro_net_info, tick_check_complete, mesh_provision_end_tick,
                 oob, auth, opened, completed, lost>>

PowerLoss ==
  /\ dev["node"].state # "LINK_UNPROVISION_STATE" \/ tick_check_complete
  /\ Becomes("node", PoweredOn)
  /\ pro_net_info' = 0 /\ tick_check_complete' = FALSE
  /\ lost' = IF tick_check_complete /\ net = 0 THEN lost \cup {pro_net_info} ELSE lost
  /\ failed' = TRUE
  /\ UNCHANGED <<net, mesh_provision_end_tick, oob, auth, opened, completed>>

Init ==
  /\ dev = [r \in Roles |-> PoweredOn]
  /\ net = 0 /\ pro_net_info = 0
  /\ tick_check_complete = FALSE /\ mesh_provision_end_tick = FALSE
  /\ oob \in BOOLEAN /\ auth \in BOOLEAN
  /\ opened = 0 /\ completed = {} /\ lost = {} /\ failed = FALSE

Next ==
  \/ \E r \in Roles : mesh_provison_process(r) \/ Sent(r) \/ mesh_adv_provision_retry(r) \/ Timeout(r)
  \/ wait_and_check_complete_state \/ mesh_loop_provision_end_process
  \/ mesh_pro_rc_beacon_dispatch \/ Stop \/ PowerLoss

\* A packet that would take the hearer on, repeated again and again, is heard in the end.
Useful(r) ==
  /\ mesh_provison_process(r)
  /\ \/ dev'[r].state # dev[r].state
     \/ dev[r].cmd_retry_flag /\ ~dev'[r].cmd_retry_flag
     \/ ~(dev'[r].seg.got \subseteq dev[r].seg.got)

Fairness ==
  /\ \A r \in Roles : WF_vars(Sent(r)) /\ WF_vars(mesh_adv_provision_retry(r)) /\ SF_vars(Useful(r))
  /\ WF_vars(mesh_pro_rc_beacon_dispatch) /\ WF_vars(wait_and_check_complete_state)

Spec == Init /\ [][Next]_vars /\ Fairness

(***************************************************************************)
(* Properties.                                                             *)
(***************************************************************************)
\* What the provisioner counts as given, the node has, or is about to store (unless it lost power
\* in the seconds before); and nothing is stored without a right confirmation.
GivenIsStored ==
  /\ \A l \in completed \ lost : net = l \/ (tick_check_complete /\ pro_net_info = l)
  /\ net # 0 => auth

\* On one link the two never drift more than one message apart: an acknowledgement or an answer
\* counted by one side is for what the other did.
Near ==
  [LINK_ESTABLISHED_ACK  |-> {"LINK_ESTABLISHED"},
   STATE_DEV_CAPA_ACK    |-> {"LINK_ESTABLISHED", "STATE_DEV_CAPA"},
   STATE_PRO_START_ACK   |-> {"STATE_DEV_CAPA", "STATE_PRO_START_ACK"},
   STATE_PRO_PUB_KEY_ACK |-> {"STATE_PRO_START_ACK", "STATE_DEV_PUB_KEY_ACK"},
   STATE_DEV_PUB_KEY     |-> {"STATE_DEV_PUB_KEY_ACK"},
   STATE_DEV_CONFIRM     |-> {"STATE_DEV_PUB_KEY_ACK", "STATE_DEV_CONFIRM"},
   STATE_DEV_RANDOM      |-> {"STATE_DEV_CONFIRM", "STATE_DEV_RANDOM"},
   STATE_PRO_COMPLETE    |-> {"STATE_DEV_RANDOM", "STATE_PRO_COMPLETE"}]
InStep ==
  dev["prov"].state \in DOMAIN Near /\ dev["node"].link_id = dev["prov"].link_id
    => dev["node"].state \in Near[dev["prov"].state]

\* Whatever is lost or repeated: unless something is given up, the node gets its data and the
\* provisioner knows.
Completes == <>(failed \/ ~auth \/ net = 1)
================================================================================
