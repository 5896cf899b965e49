------------------------------- MODULE KeyStore -------------------------------
(***************************************************************************)
(* The network and application keys of a node (mesh_node.c): adding,       *)
(* updating and deleting them, the second slot of every network key for a  *)
(* key refresh, the bindings of models to application keys, and what       *)
(* mesh_key_save and mesh_key_retrieve keep of all this over power losses. *)
(*                                                                         *)
(* The key area is not in mesh_save_map: it is the durable register of     *)
(* DurablePar (theorem Refinement of Flash_proofs).  The handlers of       *)
(* the configuration messages, the key refresh phases and the binding of a *)
(* model are in the binary library; a command that is refused changes no   *)
(* key.                                                                    *)
(***************************************************************************)
EXTENDS Integers, FiniteSets

CONSTANTS
  NetIdx, AppIdx,       \* key indexes, NET0 among them
  Keys,                 \* key values
  TestKey,              \* NETKEY_A and APPKEY_A, the factory test keys
  NetKeyMax, AppKeyMax, \* NET_KEY_MAX, APP_KEY_MAX
  None

ASSUME KeyAssumption ==
  /\ 0 \in NetIdx /\ 0 \in AppIdx
  /\ NetKeyMax \in Nat \ {0} /\ AppKeyMax \in Nat \ {0}

Nets == 1 .. NetKeyMax
Apps == 1 .. AppKeyMax
AllKeys == Keys \cup {TestKey}

AppKeys == [index : AppIdx, key : AllKeys]                  \* mesh_app_key_t
NetKeys == [index : NetIdx, key : AllKeys, app : [Apps -> AppKeys \cup {None}]]
Records == [Nets -> NetKeys \cup {None}]                    \* mesh_key_save_t

ASSUME NoneAssumption == None \notin NetKeys /\ None \notin AppKeys /\ None \notin Records

NORMAL == 0     \* KEY_REFRESH_NORMAL, and the phases of a refresh
PHASE1 == 1
PHASE2 == 2

VARIABLES
  durable,     \* the key area
  par,         \* key_save, the record mesh_key_save is writing
  phase,       \* progress of mesh_par_store on the area
  net,         \* mesh_key.net_key[i][0]
  new,         \* mesh_key.net_key[i][1]
  keyPhase,    \* key_phase of net_key[i][0]
  bound,       \* application keys some model is bound to, in flash
  deleting,    \* progress of net_key_del2 or app_key_del2
  proving,     \* inside mesh_provision_par_set
  provisioned, \* provision_mag: the node belongs to a network
  wiped        \* history: power was lost while the key sector was erased

store == <<durable, par, phase>>
vars == <<durable, par, phase, net, new, keyPhase, bound, deleting, proving, provisioned, wiped>>

Area == INSTANCE DurablePar WITH Values <- Records, Default <- [i \in Nets |-> None]

-------------------------------------------------------------------------------
(* Searching the key arrays.                                               *)

NoKeys == [i \in Nets |-> None]
NoApps == [j \in Apps |-> None]

\* is_mesh_net_key_exist and is_mesh_app_key_exist: only the first slots are
\* searched.
HasNet(n, i, x) == n[i] # None /\ n[i].index = x
HasApp(n, i, j, a) == n[i] # None /\ n[i].app[j] # None /\ n[i].app[j].index = a
NetExists(n, x) == \E i \in Nets : HasNet(n, i, x)
AppExists(n, a) == \E i \in Nets, j \in Apps : HasApp(n, i, j, a)

\* mesh_net_key_empty_search and mesh_app_key_empty_search.
IsFirstEmpty(s, i) == s[i] = None /\ \A k \in DOMAIN s : s[k] = None => i <= k

AppIndexes(n) == {a \in AppIdx : AppExists(n, a)}

\* What the arrays hold, wherever it is: network key index to its key and its
\* application keys.
Contents(n) ==
  {[index |-> n[i].index, key |-> n[i].key,
    app |-> {n[i].app[j] : j \in Apps} \ {None}] : i \in {k \in Nets : n[k] # None}}

-------------------------------------------------------------------------------
(* Saving and retrieving.                                                  *)

\* mesh_key_save saves the first slots only, without their key_phase.  The
\* sector may be full: then it is erased, as in Area!Start.
MeshKeySave(n) ==
  /\ phase = "ready" /\ phase' = "storing"
  /\ durable' \in {durable, None}
  /\ par' = n

\* Mutant: keys are restored by position, the first empty one is taken as the end.
RetrievedToFirstEmpty(s) ==
  [i \in DOMAIN s |-> IF \E k \in DOMAIN s : k <= i /\ s[k] = None THEN None ELSE s[i]]

\* The entries of s in order, from the first position on: mesh_key_retrieve
\* adds the saved keys one by one, each to the first empty position.
Retrieved(s) ==
  LET rank(k) == Cardinality({j \in DOMAIN s : j <= k /\ s[j] # None})
      isAt(k, i) == s[k] # None /\ rank(k) = i
  IN  [i \in DOMAIN s |->
         IF \E k \in DOMAIN s : isAt(k, i) THEN s[CHOOSE k \in DOMAIN s : isAt(k, i)] ELSE None]

RetrievedNet(n) == IF n = None THEN None ELSE [n EXCEPT !.app = Retrieved(@)]

\* Without a record the node has the factory test keys, in RAM only.
TestKeys ==
  [NoKeys EXCEPT ![1] =
     [index |-> 0, key |-> TestKey, app |-> [NoApps EXCEPT ![1] = [index |-> 0, key |-> TestKey]]]]

MeshKeyRetrieve ==
  /\ Area!PowerOn
  /\ net' = IF durable = None THEN TestKeys ELSE Retrieved([i \in Nets |-> RetrievedNet(durable[i])])
  /\ wiped' = (wiped \/ (durable = None /\ provisioned))
  /\ UNCHANGED <<new, keyPhase, bound, deleting, proving, provisioned>>

StoreCommit ==
  /\ Area!Commit
  /\ UNCHANGED <<net, new, keyPhase, bound, deleting, proving, provisioned, wiped>>

StoreReturn ==
  /\ Area!Return
  /\ UNCHANGED <<net, new, keyPhase, bound, deleting, proving, provisioned, wiped>>

PowerLoss ==
  /\ Area!PowerLoss
  /\ net' = NoKeys /\ new' = NoKeys /\ keyPhase' = [i \in Nets |-> NORMAL]
  /\ deleting' = None /\ proving' = FALSE
  /\ UNCHANGED <<bound, provisioned, wiped>>

-------------------------------------------------------------------------------
(* Provisioning: mesh_provision_par_set.                                   *)

\* factory_test_key_bind(0) drops every key.
ProvisionKeys(n) == NoKeys

NetKeyOf(x, k) == [index |-> x, key |-> k, app |-> NoApps]

\* An unprovisioned node drops the factory test keys, or what an interrupted
\* provisioning saved, then the key is added and saved: there is room for it, so
\* mesh_net_key_set does not fail.  A network in the middle of a key refresh
\* gives its new key, which is used as its own successor in phase 2.
MeshNetKeyAddByProvision(x, k) ==
  /\ ~provisioned /\ ~proving /\ phase = "ready"
  /\ proving' = TRUE
  /\ \E i \in Nets :
       /\ IsFirstEmpty(ProvisionKeys(net), i)
       /\ net' = [ProvisionKeys(net) EXCEPT ![i] = NetKeyOf(x, k)]
       /\ \/ new' = NoKeys /\ keyPhase' = [s \in Nets |-> NORMAL]
          \/ new' = net' /\ keyPhase' = [s \in Nets |-> IF s = i THEN PHASE2 ELSE NORMAL]
  /\ MeshKeySave(net')
  /\ UNCHANGED <<bound, deleting, provisioned, wiped>>

\* provision_mag_cfg_s_store.
ProvisionEnd ==
  /\ proving /\ phase = "ready"
  /\ proving' = FALSE /\ provisioned' = TRUE
  /\ UNCHANGED <<store, net, new, keyPhase, bound, deleting, wiped>>

-------------------------------------------------------------------------------
(* Configuration messages: mesh_net_key_set and mesh_app_key_set.          *)

Idle == phase = "ready" /\ provisioned /\ ~proving /\ deleting = None

NetKeyAdd(x, k) ==
  /\ Idle /\ ~NetExists(net, x)
  /\ \E i \in Nets :
       /\ IsFirstEmpty(net, i)
       /\ net' = [net EXCEPT ![i] = NetKeyOf(x, k)]
  /\ MeshKeySave(net')
  /\ UNCHANGED <<new, keyPhase, bound, deleting, proving, provisioned, wiped>>

\* The new key is not saved; mesh_key_refresh_phase_handle starts the refresh.
NetKeyUpdate(x, k) ==
  /\ Idle
  /\ \E i \in Nets :
       /\ HasNet(net, i, x) /\ keyPhase[i] = NORMAL
       /\ new' = [new EXCEPT ![i] = [net[i] EXCEPT !.key = k]]
       /\ keyPhase' = [keyPhase EXCEPT ![i] = PHASE1]
  /\ UNCHANGED <<store, net, bound, deleting, proving, provisioned, wiped>>

\* Mutant: the index is looked for under the given network key only.
AppExistsInNet(n, a) == \E j \in Apps : HasApp(n, 1, j, a)

AppIsKnown(n, a) == AppExists(n, a)

AppKeyAdd(x, a, k) ==
  /\ Idle /\ ~AppIsKnown(net, a)
  /\ \E i \in Nets, j \in Apps :
       /\ HasNet(net, i, x)
       /\ IsFirstEmpty(net[i].app, j)
       /\ net' = [net EXCEPT ![i].app[j] = [index |-> a, key |-> k]]
  /\ MeshKeySave(net')
  /\ UNCHANGED <<new, keyPhase, bound, deleting, proving, provisioned, wiped>>

\* The update goes to the same position of the second slot; what is saved is
\* the first slot again.
AppKeyUpdate(x, a, k) ==
  /\ Idle
  /\ \E i \in Nets, j \in Apps :
       /\ HasNet(net, i, x) /\ HasApp(net, i, j, a) /\ keyPhase[i] = PHASE1
       /\ new' = [new EXCEPT ![i].app[j] = [index |-> a, key |-> k]]
  /\ MeshKeySave(net)
  /\ UNCHANGED <<net, keyPhase, bound, deleting, proving, provisioned, wiped>>

-------------------------------------------------------------------------------
(* Deleting.  Each deleted application key is unbound from the models,     *)
(* cleared and saved; then the network key is cleared and saved.           *)

\* deleting: the slot, the application key being deleted (0: none left), whether the
\* network key follows, and whether the models are unbound already.
NextVictim(n, i) ==
  IF \E j \in Apps : n[i].app[j] # None
  THEN CHOOSE j \in Apps : n[i].app[j] # None /\ \A k \in 1 .. j - 1 : n[i].app[k] = None
  ELSE 0

NetKeyDel(x) ==
  /\ Idle /\ Cardinality({i \in Nets : net[i] # None}) > 1
  /\ \E i \in Nets :
       /\ HasNet(net, i, x)
       /\ deleting' = [slot |-> i, app |-> NextVictim(net, i), whole |-> TRUE, unbound |-> FALSE]
  /\ UNCHANGED <<store, net, new, keyPhase, bound, proving, provisioned, wiped>>

AppKeyDel(x, a) ==
  /\ Idle
  /\ \E i \in Nets, j \in Apps :
       /\ HasNet(net, i, x) /\ HasApp(net, i, j, a)
       /\ deleting' = [slot |-> i, app |-> j, whole |-> FALSE, unbound |-> FALSE]
  /\ UNCHANGED <<store, net, new, keyPhase, bound, proving, provisioned, wiped>>

\* Mutant: the models stay bound.
UnboundNone(a) == bound

UnboundFrom(a) == bound \ {a}

\* mesh_unbind_by_del_appkey.
DelUnbind ==
  /\ phase = "ready" /\ deleting # None /\ deleting.app # 0 /\ ~deleting.unbound
  /\ bound' = UnboundFrom(net[deleting.slot].app[deleting.app].index)
  /\ deleting' = [deleting EXCEPT !.unbound = TRUE]
  /\ UNCHANGED <<store, net, new, keyPhase, proving, provisioned, wiped>>

DelAppKey ==
  /\ phase = "ready" /\ deleting # None /\ deleting.app # 0 /\ deleting.unbound
  /\ net' = [net EXCEPT ![deleting.slot].app[deleting.app] = None]
  /\ MeshKeySave(net')
  /\ deleting' = IF deleting.whole
                 THEN [deleting EXCEPT !.app = NextVictim(net', deleting.slot), !.unbound = FALSE]
                 ELSE None
  /\ UNCHANGED <<new, keyPhase, bound, proving, provisioned, wiped>>

\* Mutant: key_phase is left as it is.
DelNetKeyInPhase ==
  /\ phase = "ready" /\ deleting # None /\ deleting.app = 0
  /\ net' = [net EXCEPT ![deleting.slot] = None]
  /\ MeshKeySave(net')
  /\ deleting' = None
  /\ UNCHANGED <<new, keyPhase, bound, proving, provisioned, wiped>>

\* memset of net_key[i][0], the second slot is left as it is.
DelNetKey ==
  /\ phase = "ready" /\ deleting # None /\ deleting.app = 0
  /\ net' = [net EXCEPT ![deleting.slot] = None]
  /\ keyPhase' = [keyPhase EXCEPT ![deleting.slot] = NORMAL]
  /\ MeshKeySave(net')
  /\ deleting' = None
  /\ UNCHANGED <<new, bound, proving, provisioned, wiped>>

-------------------------------------------------------------------------------
(* The library.                                                            *)

\* mesh_appkey_bind stores the model when the key exists.
LibBind(a) ==
  /\ Idle /\ AppExists(net, a)
  /\ bound' \in {bound \cup {a}, bound \ {a}}
  /\ UNCHANGED <<store, net, new, keyPhase, deleting, proving, provisioned, wiped>>

\* Phase 2: both keys are in use, the new one for sending.
LibPhase2(i) ==
  /\ Idle /\ keyPhase[i] = PHASE1
  /\ keyPhase' = [keyPhase EXCEPT ![i] = PHASE2]
  /\ UNCHANGED <<store, net, new, bound, deleting, proving, provisioned, wiped>>

\* Phase 3 revokes the old keys: each key that has a successor in the second
\* slot is replaced by it.
SuccessorOf(old, n) == IF old # None /\ n # None /\ n.index = old.index THEN n ELSE old

LibPhase3(i) ==
  /\ Idle /\ keyPhase[i] # NORMAL
  /\ net' = [net EXCEPT ![i].key = new[i].key,
                        ![i].app = [j \in Apps |-> SuccessorOf(@[j], new[i].app[j])]]
  /\ new' = [new EXCEPT ![i] = None]
  /\ keyPhase' = [keyPhase EXCEPT ![i] = NORMAL]
  /\ MeshKeySave(net')
  /\ UNCHANGED <<bound, deleting, proving, provisioned, wiped>>

-------------------------------------------------------------------------------

Init ==
  /\ Area!Init
  /\ net = NoKeys /\ new = NoKeys /\ keyPhase = [i \in Nets |-> NORMAL]
  /\ bound = {} /\ deleting = None /\ proving = FALSE /\ provisioned = FALSE /\ wiped = FALSE

Next ==
  \/ MeshKeyRetrieve \/ StoreCommit \/ StoreReturn \/ PowerLoss
  \/ ProvisionEnd
  \/ \E x \in NetIdx : NetKeyDel(x)
  \/ \E x \in NetIdx, k \in Keys :
       MeshNetKeyAddByProvision(x, k) \/ NetKeyAdd(x, k) \/ NetKeyUpdate(x, k)
  \/ \E x \in NetIdx, a \in AppIdx : AppKeyDel(x, a)
  \/ \E x \in NetIdx, a \in AppIdx, k \in Keys : AppKeyAdd(x, a, k) \/ AppKeyUpdate(x, a, k)
  \/ DelUnbind \/ DelAppKey \/ DelNetKey
  \/ \E a \in AppIdx : LibBind(a)
  \/ \E i \in Nets : LibPhase2(i) \/ LibPhase3(i)

Spec == Init /\ [][Next]_vars

-------------------------------------------------------------------------------
(* Properties                                                              *)

TypeOK ==
  /\ durable \in Records \cup {None} /\ par \in Records
  /\ phase \in {"off", "ready", "storing", "stored"}
  /\ net \in Records /\ new \in Records
  /\ keyPhase \in [Nets -> {NORMAL, PHASE1, PHASE2}]
  /\ bound \subseteq AppIdx
  /\ \/ deleting = None
     \/ deleting \in [slot : Nets, app : 0 .. AppKeyMax, whole : BOOLEAN, unbound : BOOLEAN]
  /\ proving \in BOOLEAN /\ provisioned \in BOOLEAN /\ wiped \in BOOLEAN

\* A key index names one key: no two network keys, and no two application keys
\* of any network, have the same index, after any commands and power losses.
\* The searches of mesh_node.c stop at the first match and rely on it.
UniqueIndexes ==
  /\ \A x \in NetIdx, i1, i2 \in Nets : HasNet(net, i1, x) /\ HasNet(net, i2, x) => i1 = i2
  /\ \A a \in AppIdx, i1, i2 \in Nets, j1, j2 \in Apps :
       HasApp(net, i1, j1, a) /\ HasApp(net, i2, j2, a) => i1 = i2 /\ j1 = j2

\* While a key is being refreshed its second slot holds a key of the same
\* index: mesh_tx_sec_nw_beacon sends with that slot in phase 2 unchecked.
RefreshHasNewKey ==
  \A i \in Nets : keyPhase[i] # NORMAL =>
    net[i] # None /\ new[i] # None /\ new[i].index = net[i].index

\* No model is bound to an application key the node has not: otherwise the
\* next key that gets this index would be accepted by the model unasked.  It
\* holds in flash when power is lost in the middle of a delete.
BoundHasKey ==
  /\ (phase # "off" /\ ~wiped) => bound \subseteq AppIndexes(net)
  /\ (phase = "off" /\ durable # None /\ ~wiped) => bound \subseteq AppIndexes(durable)

\* Between two commands the flash holds the keys in use, and a power cycle
\* brings all of them back, whatever positions they had.
KeysInFlash ==
  (phase = "ready" /\ durable # None) => Contents(net) = Contents(durable)

\* mesh_node.c:1235 "just compare old key is enough, because appkey_idx of old
\* key is alway valid and same with new, if existed": an application key in
\* the second slot has one of the same index at its position in the first.
NewAppKeyHasOld ==
  \A i \in Nets, j \in Apps :
    (keyPhase[i] # NORMAL /\ new[i].app[j] # None) => HasApp(net, i, j, new[i].app[j].index)
===============================================================================
