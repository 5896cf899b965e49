----------------------------- MODULE FriendNode -----------------------------
(***************************************************************************)
(* Friendship between one low power node and the friend nodes around it:   *)
(* mesh_lpn.c on the sleeping side, mesh_fn.c on the other.  A low power   *)
(* node asks for a friend, takes one of the offers and then polls: the     *)
(* friend caches what arrives for it and answers each poll, after the      *)
(* receive delay, with one message of the cache.  A bit in the poll, the   *)
(* friend sequence number, says whether the last answer got through.       *)
(*                                                                         *)
(* The radio loses any message; what is heard is handled in the step that  *)
(* sends it.  A timer expires at any moment at which it runs.              *)
(***************************************************************************)
EXTENDS Integers, FiniteSets

CONSTANTS Friends,   \* friend nodes in range of the low power node
          None,
          CacheSize, \* 1 << FN_CACHE_SIZE_LOG
          FRI_GET_UPDATE_RETRY_MAX,
          FRI_POLL_RETRY_MAX

ASSUME ConstantsAssumption ==
  /\ IsFiniteSet(Friends)
  /\ CacheSize \in Nat \ {0}
  /\ None \notin Friends /\ None \notin 0 .. CacheSize - 1
  /\ FRI_GET_UPDATE_RETRY_MAX \in Nat
  /\ FRI_POLL_RETRY_MAX \in Nat \ {0}

VARIABLES fn,  \* fn[f]: what f keeps for the low power node, fn_other_par[0] and so on
          lpn  \* what the low power node keeps, mesh_lpn_par and fri_ship_proc_lpn

vars == <<fn, lpn>>

(***************************************************************************)
(* A cached message: its kind, and whether the low power node has it.  An  *)
(* "update" is a Friend Update, an "ack" a segment acknowledgement of the  *)
(* one segmented message in progress.                                      *)
(***************************************************************************)
Ops == {"data", "ack", "update"}

Message == [op : Ops, got : BOOLEAN]

New(op) == [op |-> op, got |-> FALSE]

NoMessage == New("data")

(***************************************************************************)
(* A friend's record.  cell, r and n are the ring the messages are in, its *)
(* read position and its length; delay and rsp the answer that waits for   *)
(* the receive delay, rsp a position in the ring; clear the clearing of    *)
(* the previous friend pre: due after the first answer, then repeated.     *)
(* Two fields are not in the code.  fresh says that the record was made    *)
(* from the node's last request: friendship messages of another request    *)
(* have other keys.  over says that a message was overwritten in the ring. *)
(***************************************************************************)
Positions == 0 .. CacheSize - 1

Cleared ==
  [status |-> "IDLE", adr |-> FALSE, link |-> FALSE, fresh |-> FALSE, fsn |-> 0,
   pre |-> None, clear |-> "no", delay |-> "none", rsp |-> None,
   cell |-> [p \in Positions |-> NoMessage], r |-> 0, n |-> 0, over |-> FALSE]

Slot ==
  [status : {"IDLE", "OFFER", "POLL", "TIMEOUT_CHECK"}, adr : BOOLEAN,
   link : BOOLEAN, fresh : BOOLEAN, fsn : {0, 1}, pre : Friends \cup {None},
   clear : {"no", "due", "on"}, delay : {"none", "poll", "subsc"},
   rsp : Positions \cup {None}, cell : [Positions -> Message],
   r : Positions, n : 0 .. CacheSize, over : BOOLEAN]

Lpn ==
  [status : {"IDLE", "REQUEST", "OFFER", "POLL", "UPDATE"},
   fri : Friends \cup {None}, link : BOOLEAN, fsn : {0, 1},
   pre : Friends \cup {None}, subRetry : 0 .. FRI_POLL_RETRY_MAX,
   retry : 0 .. (FRI_GET_UPDATE_RETRY_MAX + FRI_POLL_RETRY_MAX + 1)]

Init ==
  /\ fn = [f \in Friends |-> Cleared]
  /\ lpn = [status |-> "REQUEST", fri |-> None, link |-> FALSE, fsn |-> 0,
            pre |-> None, subRetry |-> 0, retry |-> 0]

-----------------------------------------------------------------------------
(* The ring of a record s *)

At(s, i) == (s.r + i) % CacheSize

Head(s) == s.cell[s.r]

Pop(s) == [s EXCEPT !.cell[s.r] = NoMessage, !.r = At(s, 1), !.n = @ - 1]

\* my_fifo_push_adv with ow = 1: the oldest message makes room.
Push(s, op) ==
  LET q == IF s.n = CacheSize THEN [Pop(s) EXCEPT !.over = TRUE] ELSE s
  IN  [q EXCEPT !.cell[At(q, q.n)] = New(op), !.n = @ + 1]

\* The cached messages whose place a new one may take: an update that was not
\* sent yet, even if the new one is an acknowledgement; an acknowledgement.
Replaceable(s, op) ==
  {i \in 0 .. s.n - 1 :
     \/ s.cell[At(s, i)].op = "update" /\ op \in {"update", "ack"} /\ i > 0
     \/ s.cell[At(s, i)].op = "ack" /\ op = "ack"}

\* mesh_fri_cmd2cache: in the place of an older one, else behind the others.  The
\* opcode stays the older one's.
ToCache(s, op) ==
  IF Replaceable(s, op) = {} THEN Push(s, op)
  ELSE LET i == CHOOSE i \in Replaceable(s, op) :
                  \A j \in Replaceable(s, op) : i <= j
       IN  [s EXCEPT !.cell[At(s, i)].got = FALSE]

-----------------------------------------------------------------------------
(* What a friend does with what it hears: the new record *)

\* A request of this node starts over, whatever the record held.
OnRequest(pre) ==
  [Cleared EXCEPT !.status = "OFFER", !.adr = TRUE, !.fresh = TRUE, !.fsn = 1,
                  !.pre = pre]

\* The first poll after the offer makes the friendship.
Established(f, s) ==
  IF s.status \notin {"OFFER", "POLL"} THEN s
  ELSE [s EXCEPT !.link = TRUE,
                 !.clear = IF s.pre \in {None, f} THEN "no" ELSE "due"]

\* Mutant: nothing is sent when the cache is empty.
NoUpdate(s, fsn) ==
  IF s.fsn = fsn THEN s ELSE [(IF s.n > 0 THEN Pop(s) ELSE s) EXCEPT !.fsn = fsn]

\* Mutant: every poll asks for the next message.
EveryPoll(s, fsn) ==
  LET q == IF s.n > 0 THEN Pop(s) ELSE s
  IN  [(IF q.n = 0 THEN ToCache(q, "update") ELSE q) EXCEPT !.fsn = fsn]

\* A new sequence number: the message sent last is done with.  The cache is
\* never left empty, an update is cached to be sent instead.
NextMessage(s, fsn) ==
  IF s.fsn = fsn THEN s
  ELSE LET q == IF s.n > 0 THEN Pop(s) ELSE s
       IN  [(IF q.n = 0 THEN ToCache(q, "update") ELSE q) EXCEPT !.fsn = fsn]

Answering(s) ==
  [s EXCEPT !.delay = "poll", !.rsp = IF s.n > 0 THEN s.r ELSE None,
            !.status = "TIMEOUT_CHECK"]

OnPoll(f, s, fsn) == Answering(NextMessage(Established(f, s), fsn))

OnSubsList(s) == [s EXCEPT !.delay = "subsc", !.rsp = None]

\* A clear by another friend.  The age of the request it names is compared as a
\* signed difference with 255, so that one older than the record's own passes too.
OnClear(s) == IF s.adr THEN Cleared ELSE s

-----------------------------------------------------------------------------
(* The low power node *)

\* A record that friendship messages of the node reach: its keys are those of the
\* last request, and it is in use.
Reached(f) == fn[f].fresh /\ fn[f].adr /\ fn[f].status # "IDLE"

\* friend_cmd_send_poll, heard by the friend or not
SendPoll(fsn, heard) ==
  IF heard
  THEN /\ lpn.link /\ Reached(lpn.fri)
       /\ fn' = [fn EXCEPT ![lpn.fri] = OnPoll(lpn.fri, @, fsn)]
  ELSE UNCHANGED fn

\* Mutant: the node's friend is not forgotten with a new request.
KeepsFriend(l, H) ==
  /\ fn' = [f \in Friends |-> IF f \in H THEN OnRequest(l.pre)
                              ELSE [fn[f] EXCEPT !.fresh = FALSE]]
  /\ lpn' = [l EXCEPT !.status = "OFFER", !.fsn = 0]

\* Mutant: a friend starts over, but goes on clearing.
KeepsClear(l, H) ==
  /\ fn' = [f \in Friends |-> IF f \in H
                              THEN [OnRequest(l.pre) EXCEPT !.clear = fn[f].clear]
                              ELSE [fn[f] EXCEPT !.fresh = FALSE]]
  /\ lpn' = [l EXCEPT !.status = "OFFER", !.fri = None, !.link = FALSE, !.fsn = 0]

\* friend_cmd_send_request, heard by the friends in H
SendRequest(l, H) ==
  /\ fn' = [f \in Friends |-> IF f \in H THEN OnRequest(l.pre)
                              ELSE [fn[f] EXCEPT !.fresh = FALSE]]
  /\ lpn' = [l EXCEPT !.status = "OFFER", !.fri = None, !.link = FALSE, !.fsn = 0]

LpnRequest ==
  /\ lpn.status = "REQUEST"
  /\ \E H \in SUBSET Friends : SendRequest(lpn, H)

\* The time for offers is over: the best one is taken.
LpnOfferEnd ==
  /\ lpn.status = "OFFER"
  /\ lpn' = [lpn EXCEPT !.status = "POLL", !.link = lpn.fri # None]
  /\ UNCHANGED fn

LpnFirstPoll(heard) ==
  /\ lpn.status = "POLL" /\ lpn.link
  /\ SendPoll(0, heard)
  /\ lpn' = [lpn EXCEPT !.status = "UPDATE", !.fsn = 0,
                        !.retry = FRI_GET_UPDATE_RETRY_MAX + 1]

\* lpn_no_offer_handle, with no request retries (FRI_REQ_RETRY_MAX is 0)
LpnNoOffer ==
  /\ lpn.status = "POLL" /\ ~lpn.link
  /\ lpn' = [lpn EXCEPT !.status = "IDLE", !.retry = 0]
  /\ UNCHANGED fn

\* No answer came in time: the poll is repeated.
LpnPollRetry(heard) ==
  /\ lpn.retry > 1
  /\ SendPoll(lpn.fsn, heard)
  /\ lpn' = [lpn EXCEPT !.retry = @ - 1]

\* Mutant: nothing wakes the node when the first answer was no update.
FailsOnRetryOnly ==
  /\ lpn.status = "UPDATE" /\ lpn.retry = 1
  /\ lpn' = [lpn EXCEPT !.retry = 0, !.status = "IDLE"]
  /\ UNCHANGED fn

\* No update came that made the friendship: back to sleep, with link still set.  The
\* clock may pass the limit after the test that repeats a poll and before this one,
\* with repetitions left.
LpnUpdateFail ==
  /\ lpn.status = "UPDATE"
  /\ lpn' = [lpn EXCEPT !.retry = 0, !.status = "IDLE"]
  /\ UNCHANGED fn

\* No answer to the last repetition: the node asks for a friend again.
LpnPollFail ==
  /\ lpn.status # "UPDATE" /\ lpn.retry = 1
  /\ \E H \in SUBSET Friends : SendRequest([lpn EXCEPT !.retry = 0, !.subRetry = 0], H)

\* friend_subsc_repeat, until there is no more to try: then a new request
LpnSubRetry(heard) ==
  /\ lpn.subRetry > 1
  /\ lpn' = [lpn EXCEPT !.subRetry = @ - 1]
  /\ IF heard
     THEN /\ lpn.link /\ Reached(lpn.fri)
          /\ fn' = [fn EXCEPT ![lpn.fri] = OnSubsList(@)]
     ELSE UNCHANGED fn

LpnSubFail ==
  /\ lpn.subRetry = 1
  /\ \E H \in SUBSET Friends : SendRequest([lpn EXCEPT !.subRetry = 0], H)

\* Woken after the poll interval, or for more data.
LpnWake(heard) ==
  /\ lpn.status = "IDLE" /\ lpn.retry = 0 /\ lpn.link
  /\ SendPoll(lpn.fsn, heard)
  /\ lpn' = [lpn EXCEPT !.retry = FRI_POLL_RETRY_MAX + 1]

\* Woken without a friend
LpnWakeAlone ==
  /\ lpn.status = "IDLE" /\ lpn.retry = 0 /\ ~lpn.link
  /\ lpn' = [lpn EXCEPT !.status = "REQUEST"]
  /\ UNCHANGED fn

\* Awake for too long
LpnWorkingTimeout ==
  /\ lpn.status # "REQUEST"
  /\ lpn' = [lpn EXCEPT !.status = "REQUEST"]
  /\ UNCHANGED fn

-----------------------------------------------------------------------------
(* The friends *)

\* The offer is sent.  The node, if it hears it, takes it when it is the first or a
\* better one, be it the offer to an earlier request.
FnOffer(f) ==
  /\ fn[f].status = "OFFER"
  /\ fn' = [fn EXCEPT ![f].status = "POLL"]
  /\ \/ lpn.status = "OFFER" /\ lpn' = [lpn EXCEPT !.fri = f]
     \/ UNCHANGED lpn

\* No poll followed the offer.
FnOfferTimeout(f) ==
  /\ fn[f].status = "POLL"
  /\ fn' = [fn EXCEPT ![f].status = "IDLE"]
  /\ UNCHANGED lpn

\* The node waits for an answer of f, with the keys f uses.
Listens(f) ==
  /\ fn[f].fresh /\ lpn.link /\ lpn.fri = f
  /\ lpn.status \in {"IDLE", "UPDATE"}

\* The node has the message in cell p of f: the next poll asks for the next one.
\* The first update makes the friendship for the node too.
GetMessage(f, p) ==
  LET first == lpn.status = "UPDATE" /\ fn[f].cell[p].op = "update"
      got == [lpn EXCEPT !.retry = 0, !.fsn = 1 - @]
      answered == [fn[f] EXCEPT !.cell[p].got = TRUE, !.delay = "none", !.rsp = None,
                                !.clear = IF @ = "due" THEN "on" ELSE @]
  IN  IF ~first
      THEN lpn' = got /\ fn' = [fn EXCEPT ![f] = answered]
      ELSE \E k \in {0, FRI_POLL_RETRY_MAX}, heard \in BOOLEAN :
             /\ lpn' = [got EXCEPT !.status = "IDLE", !.pre = f, !.subRetry = k]
             /\ fn' = [fn EXCEPT ![f] = IF k > 0 /\ heard THEN OnSubsList(answered)
                                        ELSE answered]

FnAnswer(f, heard) ==
  /\ fn[f].delay = "poll"
  /\ IF heard
     THEN Listens(f) /\ lpn.retry > 0 /\ GetMessage(f, fn[f].rsp)
     ELSE /\ fn' = [fn EXCEPT ![f].delay = "none", ![f].rsp = None,
                             ![f].clear = IF @ = "due" THEN "on" ELSE @]
          /\ UNCHANGED lpn

FnSubsConf(f, heard) ==
  /\ fn[f].delay = "subsc"
  /\ fn' = [fn EXCEPT ![f].delay = "none"]
  /\ IF heard
     THEN /\ Listens(f) /\ lpn.status = "IDLE"
          /\ lpn' = [lpn EXCEPT !.subRetry = 0]
     ELSE UNCHANGED lpn

\* Messages for the node arrive at the friends in F, those it is a friend of.
Arrive(F, op) ==
  /\ F # {} /\ \A f \in F : fn[f].link /\ fn[f].adr
  /\ fn' = [f \in Friends |-> IF f \in F THEN ToCache(fn[f], op) ELSE fn[f]]
  /\ UNCHANGED lpn

\* The IV index or a key changes: friend_cmd_send_update(i, 1)
FnIvUpdate(f) ==
  /\ fn[f].link /\ fn[f].adr
  /\ fn' = [fn EXCEPT ![f] = ToCache(@, "update")]
  /\ UNCHANGED lpn

FnPollTimeout(f) ==
  /\ fn[f].status = "TIMEOUT_CHECK"
  /\ fn' = [fn EXCEPT ![f] = Cleared]
  /\ UNCHANGED lpn

\* The clear is sent, or repeated, and heard by the previous friend.  It ends the
\* friendship there, and confirms; f stops when it hears the confirmation.
FnClear(f, confirmed) ==
  /\ fn[f].clear = "on" /\ fn[fn[f].pre].adr
  /\ fn' = [fn EXCEPT ![fn[f].pre] = OnClear(@),
                      ![f].clear = IF confirmed THEN "no" ELSE @]
  /\ UNCHANGED lpn

\* Twice the poll timeout went by.
FnClearStop(f) ==
  /\ fn[f].clear = "on"
  /\ fn' = [fn EXCEPT ![f].clear = "no"]
  /\ UNCHANGED lpn

-----------------------------------------------------------------------------
LpnPoll(heard) == LpnFirstPoll(heard) \/ LpnPollRetry(heard) \/ LpnWake(heard)

Next ==
  \/ LpnRequest \/ LpnOfferEnd \/ LpnNoOffer \/ LpnUpdateFail \/ LpnPollFail
  \/ LpnSubFail \/ LpnWakeAlone \/ LpnWorkingTimeout
  \/ \E heard \in BOOLEAN :
       \/ LpnPoll(heard) \/ LpnSubRetry(heard)
       \/ \E f \in Friends : FnAnswer(f, heard) \/ FnSubsConf(f, heard) \/ FnClear(f, heard)
  \/ \E f \in Friends : \/ FnOffer(f) \/ FnOfferTimeout(f) \/ FnIvUpdate(f)
                        \/ FnPollTimeout(f) \/ FnClearStop(f)
  \/ \E F \in SUBSET Friends, op \in {"data", "ack"} : Arrive(F, op)

Spec == Init /\ [][Next]_vars

(***************************************************************************)
(* The timers of the low power node and the answers come; a poll, or an    *)
(* answer, that is sent again and again is heard in the end.  The poll     *)
(* timer of a friend is only sure to expire when the node no longer polls  *)
(* with its keys.  Nothing is assumed of the other timers.                 *)
(***************************************************************************)
Fairness ==
  /\ WF_vars(LpnRequest \/ LpnOfferEnd \/ LpnNoOffer \/ LpnUpdateFail
              \/ LpnPollFail \/ LpnWakeAlone \/ \E heard \in BOOLEAN : LpnPoll(heard))
  /\ SF_vars(LpnPoll(TRUE))
  /\ \A f \in Friends :
       /\ WF_vars(\E heard \in BOOLEAN : FnAnswer(f, heard))
       /\ SF_vars(FnAnswer(f, TRUE))
       /\ WF_vars(FnPollTimeout(f) /\ ~fn[f].fresh)

FairSpec == Spec /\ Fairness

-----------------------------------------------------------------------------
TypeOK == fn \in [Friends -> Slot] /\ lpn \in Lpn

\* An answer that waits for the receive delay is the message at the head of the
\* cache, and there is one: nothing takes it away between the poll and the answer.
\* Only a cache that ran over may have moved on.  (mesh_friend_set_delay_par_poll
\* reads the message, it must not be null.)
AnswerIsHead ==
  \A f \in Friends : fn[f].delay = "poll" =>
    /\ fn[f].n > 0 /\ fn[f].rsp # None
    /\ fn[f].over \/ fn[f].rsp = fn[f].r

\* A message is taken from the cache, for the next one to be sent, only when the node
\* has it: whatever polls and answers are lost, none is skipped.  Left aside are caches
\* that ran over, and acknowledgements, which newer ones replace even when they were
\* sent.
ReadBeforeTaken ==
  [][\A f \in Friends :
       (/\ fn[f].n > 0 /\ Head(fn[f]).op # "ack"
        /\ fn'[f].link /\ fn'[f].r # fn[f].r /\ ~fn'[f].over)
         => Head(fn[f]).got]_vars

\* A message at the head of the cache does not stay there: the node fetches it,
\* or the friendship ends.
HeadAt(f, p) == fn[f].n > 0 /\ fn[f].r = p

HeadMovesOn == \A f \in Friends, p \in Positions : HeadAt(f, p) ~> ~HeadAt(f, p)

\* Of the friends that answered a request one becomes a friend: the node never polls
\* a second one with the keys of the same request, whatever repetitions and offers
\* are left over from the request before.
Current(f) == fn[f].link /\ fn[f].fresh

OneFriendPerRequest ==
  \A f, g \in Friends : Current(f) /\ Current(g) => f = g

\* A friend that heard the node's last request does not clear the friendship made by
\* it.  (One that missed it may: see the age of a clear in OnClear.)
ClearSparesCurrent ==
  \A f \in Friends :
    fn[f].clear = "on" /\ fn[f].fresh => ~Current(fn[f].pre)

=============================================================================
