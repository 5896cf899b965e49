---------------------------- MODULE MCFriendNode ----------------------------
(***************************************************************************)
(* FriendNode bounded in two ways.  near is the set of friends in range:   *)
(* one, whose cache fills and runs over, or all, each with one message at  *)
(* a time.  No step that Fairness is about is bounded: what it adds to a   *)
(* cache is the first update.                                              *)
(***************************************************************************)
EXTENDS FriendNode

VARIABLE near

One == CHOOSE f \in Friends : TRUE

MCInit == Init /\ near \in {{One}, Friends}

MCNext ==
  /\ Next
  /\ \A f \in Friends \ near : fn'[f] = fn[f]
  /\ near # {One} => \A f \in Friends : fn'[f].n <= 1
  /\ UNCHANGED near

MCSpec == MCInit /\ [][MCNext]_<<vars, near>> /\ Fairness
=============================================================================
