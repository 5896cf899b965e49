------------------------------- MODULE MiscStore -------------------------------
(***************************************************************************)
(* The sequence number and the IV index of a node across power losses:     *)
(* mesh_misc_store, mesh_misc_retrieve and mesh_sno_save_check             *)
(* (mesh_node.c) over the misc parameter area.                             *)
(*                                                                         *)
(* The area is not in mesh_save_map, so it is the durable register of      *)
(* DurablePar (theorem Refinement of Flash_proofs); its parameter is       *)
(* misc_save_t, here the sequence number, the IV index and the             *)
(* IV-update trigger.  The network layer, which draws sequence numbers and *)
(* runs the IV update procedure, is a binary library: it is modelled from  *)
(* the state it shares with this code.  Fast provisioning, which stops the *)
(* storing for a while (node_need_store_misc), is in the WIN32 build only. *)
(***************************************************************************)
EXTENDS Integers

CONSTANTS
  Delta,      \* MESH_CMD_SNO_SAVE_DELTA
  Burst,      \* sequence numbers drawn in one pass of the main loop, at most
  StartSno,   \* IV_UPDATE_START_SNO
  MaxSno,     \* bound of the model on sequence numbers
  MaxIv,      \* bound of the model on IV indexes
  None

ASSUME MiscAssumption ==
  /\ Delta \in Nat \ {0} /\ Burst \in Nat \ {0} /\ Burst <= Delta
  /\ StartSno \in Nat /\ MaxSno \in Nat /\ MaxIv \in Nat

Records == [sno : Nat, iv : Nat, trigger : BOOLEAN]         \* misc_save_t

ASSUME NoneAssumption == None \notin Records

\* Initialisers of the program's variables.
Initial == [sno |-> 1, iv |-> 0, trigger |-> FALSE]

VARIABLES
  durable,    \* the misc area
  par,        \* misc_save, the record mesh_misc_store is writing
  phase,      \* progress of mesh_par_store on the area
  sno,        \* mesh_adv_tx_cmd_sno, the next sequence number to use
  snoLast,    \* mesh_adv_tx_cmd_sno_last
  cur,        \* iv_idx_st.cur
  updating,   \* iv_idx_st.update_proc_flag = IV_UPDATE_STEP1
  trigger,    \* iv_idx_st.update_trigger_by_save
  miscFlag,   \* misc_flag: the library is to store the record
  drawn,      \* sequence numbers drawn since the last mesh_sno_save_check
  used,       \* history: per IV index, all numbers below used[iv] were sent
  wiped       \* history: power was lost while the sector was erased

store == <<durable, par, phase>>
ram == <<sno, snoLast, cur, updating, trigger, miscFlag, drawn>>
vars == <<durable, par, phase, sno, snoLast, cur, updating, trigger, miscFlag, drawn,
          used, wiped>>

Area == INSTANCE DurablePar WITH Values <- Records, Default <- Initial

\* While an IV update is in progress the node still sends with the old index.
TxIv == IF updating THEN cur - 1 ELSE cur

-------------------------------------------------------------------------------
(* Power-on and power loss.                                                *)

\* Mutant: the saved number itself is resumed from.
ResumeAtSaved(s) == s

\* The first sequence number used after a power-on.
ResumeSno(s) == s + Delta

MeshMiscRetrieve ==
  /\ Area!PowerOn
  /\ IF durable = None
     THEN sno' = Initial.sno /\ snoLast' = 0 /\ cur' = Initial.iv /\ trigger' = Initial.trigger
     ELSE /\ sno' = ResumeSno(durable.sno) /\ snoLast' = ResumeSno(durable.sno)
          /\ cur' = durable.iv /\ trigger' = durable.trigger
  /\ miscFlag' = TRUE
  /\ updating' = FALSE /\ drawn' = 0
  /\ wiped' = (wiped \/ (durable = None /\ \E i \in DOMAIN used : used[i] > 0))
  /\ UNCHANGED used

\* MaxSno also bounds the number of power losses: each adds Delta.
PowerLoss ==
  /\ durable # None => durable.sno + Delta <= MaxSno
  /\ Area!PowerLoss
  /\ UNCHANGED <<ram, used, wiped>>

-------------------------------------------------------------------------------
(* mesh_misc_store: its callers fill misc_save and are then busy until     *)
(* mesh_par_store returns.                                                 *)

\* Mutant: the index saved during an update is the new one.
MiscSaveNewIv(s, iv, step1, trig) ==
  [sno |-> s, iv |-> iv, trigger |-> IF step1 THEN s < StartSno ELSE trig]

\* In an update the old index is saved, and the trigger unless the sequence
\* number alone will restart the update.
MiscSave(s, iv, step1, trig) ==
  [sno     |-> s,
   iv      |-> IF step1 THEN iv - 1 ELSE iv,
   trigger |-> IF step1 THEN s < StartSno ELSE trig]

\* The sector may be full: then it is erased, as in Area!Start.
MeshMiscStore(s, iv, step1, trig) ==
  /\ phase = "ready"
  /\ phase' = "storing"
  /\ durable' \in {durable, None}
  /\ par' = MiscSave(s, iv, step1, trig)
  /\ snoLast' = s

StoreCommit == Area!Commit /\ UNCHANGED <<ram, used, wiped>>
StoreReturn == Area!Return /\ UNCHANGED <<ram, used, wiped>>

-------------------------------------------------------------------------------
(* Callers in the node.                                                    *)

\* Mutant: one number later than the retrieve allows for.
SaveDueLate == sno > snoLast + Delta + 1

SaveDue == sno > snoLast + Delta

\* mesh_sno_save_check, near the end of each pass of the main loop.
SnoSaveCheck ==
  /\ drawn > 0
  /\ drawn' = 0
  /\ IF SaveDue THEN MeshMiscStore(sno, cur, updating, trigger)
     ELSE phase = "ready" /\ UNCHANGED <<store, snoLast>>
  /\ UNCHANGED <<sno, cur, updating, trigger, miscFlag, used, wiped>>

\* set_ct_mode, and the end of provisioning another node.
StoreOther ==
  /\ MeshMiscStore(sno, cur, updating, trigger)
  /\ UNCHANGED <<sno, cur, updating, trigger, miscFlag, drawn, used, wiped>>

-------------------------------------------------------------------------------
(* The library.                                                            *)

\* "need to store the sno later": the record is stored before the first
\* number is drawn.
LibFlush ==
  /\ miscFlag /\ miscFlag' = FALSE
  /\ MeshMiscStore(sno, cur, updating, trigger)
  /\ UNCHANGED <<sno, cur, updating, trigger, drawn, used, wiped>>

LibDraw ==
  /\ phase = "ready" /\ ~miscFlag /\ drawn < Burst /\ sno < MaxSno
  /\ sno' = sno + 1 /\ drawn' = drawn + 1
  /\ used' = [used EXCEPT ![TxIv] = IF @ > sno THEN @ ELSE sno + 1]
  /\ UNCHANGED <<store, snoLast, cur, updating, trigger, miscFlag, wiped>>

LibIvUpdateStart ==
  /\ phase = "ready" /\ ~miscFlag /\ ~updating /\ cur < MaxIv
  /\ sno >= StartSno \/ trigger
  /\ updating' = TRUE /\ cur' = cur + 1 /\ trigger' = FALSE
  /\ UNCHANGED <<store, sno, snoLast, miscFlag, drawn, used, wiped>>

\* The new index starts with sequence number 0 and is stored at once.
LibIvUpdateEnd ==
  /\ updating /\ updating' = FALSE /\ sno' = 0 /\ drawn' = 0
  /\ MeshMiscStore(0, cur, FALSE, trigger)
  /\ UNCHANGED <<cur, trigger, miscFlag, used, wiped>>

-------------------------------------------------------------------------------

Init ==
  /\ Area!Init
  /\ sno = 1 /\ snoLast = 0 /\ cur = 0 /\ updating = FALSE /\ trigger = FALSE
  /\ miscFlag = FALSE /\ drawn = 0
  /\ used = [i \in 0 .. MaxIv |-> 0] /\ wiped = FALSE

Next ==
  \/ MeshMiscRetrieve \/ PowerLoss
  \/ StoreCommit \/ StoreReturn
  \/ SnoSaveCheck \/ StoreOther
  \/ LibFlush \/ LibDraw \/ LibIvUpdateStart \/ LibIvUpdateEnd

Spec == Init /\ [][Next]_vars

-------------------------------------------------------------------------------
(* Properties                                                              *)

TypeOK ==
  /\ durable \in Records \cup {None} /\ par \in Records
  /\ phase \in {"off", "ready", "storing", "stored"}
  /\ sno \in Nat /\ snoLast \in Nat /\ cur \in 0 .. MaxIv
  /\ updating \in BOOLEAN /\ trigger \in BOOLEAN /\ miscFlag \in BOOLEAN
  /\ drawn \in 0 .. Burst
  /\ used \in [0 .. MaxIv -> Nat] /\ wiped \in BOOLEAN

\* At the end of a pass of the main loop (mesh_sno_save_check has run and its
\* store returned) a power loss is harmless: the sequence number the next
\* power-on starts from has not been used.
LoopPassCovered ==
  (phase = "ready" /\ drawn = 0 /\ ~miscFlag /\ durable # None /\ ~wiped) =>
    used[durable.iv] <= ResumeSno(durable.sno)

\* Whenever power is lost, the next power-on repeats at most the numbers drawn
\* in one pass of the main loop, unless the sector was just erased.  The
\* margin added by mesh_misc_retrieve equals the distance between two saves,
\* so the bound is not 0.
ReuseBounded ==
  (phase # "off" /\ ~wiped) => used[TxIv] <= sno + Burst

\* A power loss never moves a node to an IV index it was not already sending
\* with (the comment "must decrease 1" of mesh_misc_store).
PowerCycleKeepsIv ==
  [][phase = "off" /\ phase' = "ready" => TxIv' <= TxIv]_vars

===============================================================================
