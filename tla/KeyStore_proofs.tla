---------------------------- MODULE KeyStore_proofs ----------------------------
(***************************************************************************)
(* Proofs about KeyStore, for any key indexes, keys and sizes of the key   *)
(* arrays.                                                                 *)
(*                                                                         *)
(* The invariant follows a key through its places: the array in RAM, the   *)
(* record being written (par) and the one in flash (durable).  What is     *)
(* unique or bound in one place must stay so in the others, since power    *)
(* may be lost with any two of them apart.                                 *)
(***************************************************************************)
EXTENDS KeyStore, FiniteSetTheorems, WellFoundedInduction, TLAPS

Unique(n) ==
  /\ \A x \in NetIdx, i1, i2 \in Nets : HasNet(n, i1, x) /\ HasNet(n, i2, x) => i1 = i2
  /\ \A a \in AppIdx, i1, i2 \in Nets, j1, j2 \in Apps :
       HasApp(n, i1, j1, a) /\ HasApp(n, i2, j2, a) => i1 = i2 /\ j1 = j2

Uniques == Unique(net) /\ (durable # None => Unique(durable))

Saving ==
  /\ phase \in {"storing", "stored"} => par = net
  /\ phase = "stored" => durable = par
  /\ KeysInFlash

\* A command that deletes keys, between two of its writes.
Deleting ==
  deleting # None =>
    /\ phase # "off" /\ provisioned /\ ~proving
    /\ net[deleting.slot] # None
    /\ deleting.app # 0 =>
         /\ net[deleting.slot].app[deleting.app] # None
         /\ deleting.unbound => net[deleting.slot].app[deleting.app].index \notin bound
    /\ deleting.app = 0 => \A j \in Apps : net[deleting.slot].app[j] = None

Bindings ==
  /\ ~provisioned => bound = {}
  /\ ~wiped => /\ phase # "off" => bound \subseteq AppIndexes(net)
               /\ durable # None => bound \subseteq AppIndexes(durable)

\* The model's types, the truth values apart.
Types ==
  /\ durable \in Records \cup {None} /\ par \in Records
  /\ phase \in {"off", "ready", "storing", "stored"}
  /\ net \in Records /\ new \in Records
  /\ keyPhase \in [Nets -> {NORMAL, PHASE1, PHASE2}]
  /\ bound \subseteq AppIdx
  /\ deleting # None => deleting \in [slot : Nets, app : 0 .. AppKeyMax, whole : BOOLEAN, unbound : BOOLEAN]

\* No refresh outlives a power cycle.
NoRefresh == phase = "off" => \A i \in Nets : keyPhase[i] = NORMAL

KeyInv ==
  Types /\ Saving /\ Uniques /\ RefreshHasNewKey /\ NoRefresh /\ Deleting /\ Bindings

-------------------------------------------------------------------------------
(* Records.                                                                *)

LEMMA Sizes ==
  /\ NetKeyMax \in Nat \ {0} /\ AppKeyMax \in Nat \ {0}
  /\ Nets = 1 .. NetKeyMax /\ Apps = 1 .. AppKeyMax
  /\ 0 \notin Apps /\ 0 \in NetIdx /\ 0 \in AppIdx
  /\ NORMAL # PHASE1 /\ NORMAL # PHASE2 /\ PHASE1 # PHASE2
  BY KeyAssumption DEF Nets, Apps, NORMAL, PHASE1, PHASE2

LEMMA RecordFields ==
  ASSUME NEW n \in Records, NEW i \in Nets, n[i] # None
  PROVE  /\ n[i] \in NetKeys /\ n[i].index \in NetIdx /\ n[i].key \in AllKeys
         /\ n[i].app \in [Apps -> AppKeys \cup {None}]
         /\ \A j \in Apps : n[i].app[j] # None =>
              n[i].app[j] \in AppKeys /\ n[i].app[j].index \in AppIdx
  BY DEF Records, NetKeys, AppKeys

\* One application key of one network key set or cleared.
AppSetTo(n, i, j, v) == [n EXCEPT ![i].app[j] = v]

LEMMA AppSet ==
  ASSUME NEW n \in Records, NEW i \in Nets, n[i] # None, NEW j \in Apps,
         NEW v \in AppKeys \cup {None}
  PROVE  /\ AppSetTo(n, i, j, v) \in Records /\ AppSetTo(n, i, j, v)[i] # None
         /\ AppSetTo(n, i, j, v)[i].index = n[i].index
         /\ AppSetTo(n, i, j, v)[i].app[j] = v
         /\ \A k \in Apps \ {j} : AppSetTo(n, i, j, v)[i].app[k] = n[i].app[k]
         /\ \A l \in Nets \ {i} : AppSetTo(n, i, j, v)[l] = n[l]
<1> DEFINE e == [n[i] EXCEPT !.app = [n[i].app EXCEPT ![j] = v]]
<1>1. n[i] \in NetKeys
  BY RecordFields
<1>2. /\ e \in NetKeys /\ e.index = n[i].index /\ e.app[j] = v
      /\ \A k \in Apps \ {j} : e.app[k] = n[i].app[k]
  BY <1>1 DEF NetKeys
<1>3. AppSetTo(n, i, j, v) = [n EXCEPT ![i] = e]
  BY DEF AppSetTo
<1>4. e # None
  BY <1>2, NoneAssumption
<1> HIDE DEF e
<1>5. /\ AppSetTo(n, i, j, v) \in Records /\ AppSetTo(n, i, j, v)[i] = e
      /\ \A l \in Nets \ {i} : AppSetTo(n, i, j, v)[l] = n[l]
  BY <1>2, <1>3 DEF Records
<1> QED BY <1>2, <1>4, <1>5

\* The indexes after it.
LEMMA AppSetIndexes ==
  ASSUME NEW n \in Records, NEW i \in Nets, n[i] # None, NEW j \in Apps,
         NEW v \in AppKeys \cup {None}
  PROVE  /\ \A y : \A l \in Nets : HasNet(AppSetTo(n, i, j, v), l, y) <=> HasNet(n, l, y)
         /\ \A a : \A l \in Nets, q \in Apps :
              (l # i \/ q # j) => (HasApp(AppSetTo(n, i, j, v), l, q, a) <=> HasApp(n, l, q, a))
         /\ \A a : HasApp(AppSetTo(n, i, j, v), i, j, a) <=> v # None /\ v.index = a
  BY AppSet DEF HasNet, HasApp

LEMMA NewNetKey ==
  ASSUME NEW x \in NetIdx, NEW k \in Keys
  PROVE  /\ NetKeyOf(x, k) \in NetKeys /\ NetKeyOf(x, k) # None
         /\ NetKeyOf(x, k).index = x /\ \A j \in Apps : NetKeyOf(x, k).app[j] = None
  BY NoneAssumption DEF NetKeyOf, NetKeys, NoApps, AllKeys

LEMMA NoKeysType == NoKeys \in Records /\ \A i \in Nets : NoKeys[i] = None
  BY DEF NoKeys, Records

LEMMA TestKeysType ==
  /\ TestKeys \in Records
  /\ \A i \in Nets : TestKeys[i] # None => i = 1 /\ \A j \in Apps : TestKeys[i].app[j] # None => j = 1
<1> DEFINE f == [NoApps EXCEPT ![1] = [index |-> 0, key |-> TestKey]]
           e == [index |-> 0, key |-> TestKey, app |-> f]
<1>1. f \in [Apps -> AppKeys \cup {None}] /\ \A j \in Apps : f[j] # None => j = 1
  BY Sizes DEF NoApps, AppKeys, AllKeys
<1>2. e \in NetKeys
  BY <1>1, Sizes DEF NetKeys, AllKeys
<1>3. TestKeys = [NoKeys EXCEPT ![1] = e] /\ e.app = f
  BY DEF TestKeys
<1> HIDE DEF e, f
<1>4. 1 \in Nets
  BY Sizes
<1>5. TestKeys \in Records /\ TestKeys[1] = e /\ \A l \in Nets \ {1} : TestKeys[l] = None
  BY <1>2, <1>3, <1>4, NoKeysType DEF Records
<1> QED BY <1>1, <1>3, <1>5

-------------------------------------------------------------------------------
(* What the arrays hold.                                                   *)

\* What Contents tells of one network key.
Content(e) == [index |-> e.index, key |-> e.key, app |-> {e.app[j] : j \in Apps} \ {None}]

LEMMA ContentsIs ==
  ASSUME NEW n
  PROVE  Contents(n) = {Content(n[i]) : i \in {k \in Nets : n[k] # None}}
  BY DEF Contents, Content

LEMMA SameContent ==
  ASSUME NEW e, NEW f, Content(e) = Content(f), NEW j \in Apps, e.app[j] # None
  PROVE  \E k \in Apps : f.app[k] = e.app[j] /\ f.app[k] # None
<1>1. {e.app[k] : k \in Apps} \ {None} = {f.app[k] : k \in Apps} \ {None}
  <2>1. Content(e).app = {e.app[k] : k \in Apps} \ {None}
    BY DEF Content
  <2>2. Content(f).app = {f.app[k] : k \in Apps} \ {None}
    BY DEF Content
  <2> QED BY <2>1, <2>2
<1> QED BY <1>1

\* The application keys of a node are in its contents.
LEMMA SameContents ==
  ASSUME NEW m \in Records, NEW n \in Records, Contents(m) = Contents(n)
  PROVE  AppIndexes(m) = AppIndexes(n)
<1>1. ASSUME NEW p \in Records, NEW q \in Records, Contents(p) = Contents(q), NEW a, AppExists(p, a)
      PROVE  AppExists(q, a)
  <2>1. PICK i \in Nets, j \in Apps : p[i] # None /\ p[i].app[j] # None /\ p[i].app[j].index = a
    BY <1>1 DEF AppExists, HasApp
  <2>2. Content(p[i]) \in Contents(q)
    BY <1>1, <2>1, ContentsIs
  <2>3. PICK l \in Nets : q[l] # None /\ Content(p[i]) = Content(q[l])
    BY <2>2, ContentsIs
  <2>4. PICK k \in Apps : q[l].app[k] = p[i].app[j] /\ q[l].app[k] # None
    BY <2>1, <2>3, SameContent
  <2> QED BY <2>1, <2>3, <2>4 DEF AppExists, HasApp
<1> QED BY <1>1 DEF AppIndexes

\* At most one entry: no two have the same index.
LEMMA UniqueOne ==
  ASSUME NEW n \in Records, NEW o \in Nets,
         \A i \in Nets : n[i] # None => i = o /\ \A j \in Apps : n[i].app[j] # None => j = 1
  PROVE  Unique(n)
  BY DEF Unique, HasNet, HasApp

\* The same indexes in the same places, or fewer.
LEMMA UniqueFewer ==
  ASSUME NEW m, NEW n, Unique(m),
         \A x : \A i \in Nets : HasNet(n, i, x) => HasNet(m, i, x),
         \A a : \A i \in Nets, j \in Apps : HasApp(n, i, j, a) => HasApp(m, i, j, a)
  PROVE  Unique(n)
  BY DEF Unique

LEMMA IndexesStay ==
  ASSUME NEW m, NEW n,
         \A a : \A i \in Nets, j \in Apps : HasApp(m, i, j, a) => HasApp(n, i, j, a)
  PROVE  AppIndexes(m) \subseteq AppIndexes(n)
  BY DEF AppIndexes, AppExists

-------------------------------------------------------------------------------
(* mesh_key_retrieve: the entries move to the first positions.             *)

Rank(s, k) == Cardinality({j \in DOMAIN s : j <= k /\ s[j] # None})

RetrievedAt(s, i) ==
  IF \E k \in DOMAIN s : s[k] # None /\ Rank(s, k) = i
  THEN s[CHOOSE k \in DOMAIN s : s[k] # None /\ Rank(s, k) = i]
  ELSE None

LEMMA RetrievedIs ==
  ASSUME NEW s
  PROVE  Retrieved(s) = [i \in DOMAIN s |-> RetrievedAt(s, i)]
  BY DEF Retrieved, RetrievedAt, Rank

LEMMA RankInRange ==
  ASSUME NEW N \in Nat, NEW s, DOMAIN s = 1 .. N, NEW k \in 1 .. N, s[k] # None
  PROVE  Rank(s, k) \in 1 .. N
<1> DEFINE A == {j \in 1 .. N : j <= k /\ s[j] # None}
<1>1. IsFiniteSet(1 .. N) /\ Cardinality(1 .. N) = N
  BY FS_Interval
<1>2. A \subseteq 1 .. N /\ k \in A
  OBVIOUS
<1>3. IsFiniteSet(A) /\ Cardinality(A) <= N
  BY <1>1, <1>2, FS_Subset
<1>4. Cardinality(A) \in Nat /\ Cardinality(A) # 0
  BY <1>2, <1>3, FS_CardinalityType, FS_EmptySet
<1>5. Rank(s, k) = Cardinality(A)
  BY DEF Rank
<1> HIDE DEF A
<1> QED BY <1>3, <1>4, <1>5

\* Entries further on have a greater rank.
LEMMA RankGrows ==
  ASSUME NEW N \in Nat, NEW s, DOMAIN s = 1 .. N,
         NEW k \in 1 .. N, NEW l \in 1 .. N, k < l, s[l] # None
  PROVE  Rank(s, k) # Rank(s, l)
<1> DEFINE A == {j \in 1 .. N : j <= k /\ s[j] # None}
           B == {j \in 1 .. N : j <= l /\ s[j] # None}
<1>1. IsFiniteSet(1 .. N)
  BY FS_Interval
<1>2. A \subseteq B /\ B \subseteq 1 .. N /\ l \in B /\ l \notin A
  OBVIOUS
<1>3. IsFiniteSet(B)
  BY <1>1, <1>2, FS_Subset
<1>4. A # B
  BY <1>2
<1>5. Rank(s, k) = Cardinality(A) /\ Rank(s, l) = Cardinality(B)
  BY DEF Rank
<1> HIDE DEF A, B
<1>6. Cardinality(A) # Cardinality(B)
  BY <1>2, <1>3, <1>4, FS_Subset
<1> QED BY <1>5, <1>6

\* Every entry is at its rank, and nothing else is anywhere.
LEMMA RetrievedAll ==
  ASSUME NEW N \in Nat, NEW s, DOMAIN s = 1 .. N
  PROVE  /\ DOMAIN Retrieved(s) = 1 .. N
         /\ \A k \in 1 .. N : s[k] # None => Rank(s, k) \in 1 .. N /\ Retrieved(s)[Rank(s, k)] = s[k]
         /\ \A i \in 1 .. N : Retrieved(s)[i] # None =>
              \E k \in 1 .. N : s[k] # None /\ Rank(s, k) = i /\ Retrieved(s)[i] = s[k]
<1>1. ASSUME NEW i \in 1 .. N
      PROVE  Retrieved(s)[i] = RetrievedAt(s, i)
  BY RetrievedIs
<1>2. ASSUME NEW k \in 1 .. N, s[k] # None
      PROVE  Rank(s, k) \in 1 .. N /\ Retrieved(s)[Rank(s, k)] = s[k]
  <2>1. Rank(s, k) \in 1 .. N
    BY <1>2, RankInRange
  <2>2. PICK l \in DOMAIN s : /\ s[l] # None /\ Rank(s, l) = Rank(s, k)
                              /\ RetrievedAt(s, Rank(s, k)) = s[l]
    BY <1>2 DEF RetrievedAt
  <2>3. ~(k < l) /\ ~(l < k)
    BY <1>2, <2>2, RankGrows
  <2>4. l = k
    BY <2>3
  <2> QED BY <1>1, <2>1, <2>2, <2>4
<1>3. ASSUME NEW i \in 1 .. N, Retrieved(s)[i] # None
      PROVE  \E k \in 1 .. N : s[k] # None /\ Rank(s, k) = i /\ Retrieved(s)[i] = s[k]
  BY <1>1, <1>3 DEF RetrievedAt
<1> QED BY <1>2, <1>3, RetrievedIs

\* The application keys of one network key.
LEMMA RetrievedNetIs ==
  ASSUME NEW e \in NetKeys
  PROVE  /\ RetrievedNet(e) \in NetKeys /\ RetrievedNet(e) # None
         /\ RetrievedNet(e).index = e.index /\ RetrievedNet(e).key = e.key
         /\ RetrievedNet(e).app = Retrieved(e.app)
         /\ {RetrievedNet(e).app[j] : j \in Apps} \ {None} = {e.app[j] : j \in Apps} \ {None}
<1> DEFINE f == e.app
<1>1. DOMAIN f = 1 .. AppKeyMax /\ AppKeyMax \in Nat /\ Apps = 1 .. AppKeyMax
      /\ f \in [Apps -> AppKeys \cup {None}]
  BY Sizes DEF NetKeys
<1>2. e # None /\ RetrievedNet(e) = [e EXCEPT !.app = Retrieved(f)]
  BY NoneAssumption DEF RetrievedNet
<1> HIDE DEF f
<1>3. Retrieved(f) \in [Apps -> AppKeys \cup {None}]
  <2>1. \A j \in Apps : Retrieved(f)[j] \in AppKeys \cup {None}
    BY <1>1, RetrievedAll
  <2>2. Retrieved(f) = [j \in Apps |-> RetrievedAt(f, j)]
    BY <1>1, RetrievedIs
  <2> QED BY <2>1, <2>2
<1>4. {Retrieved(f)[j] : j \in Apps} \ {None} = {f[j] : j \in Apps} \ {None}
  BY <1>1, RetrievedAll
<1>5. /\ RetrievedNet(e) \in NetKeys /\ RetrievedNet(e).index = e.index
      /\ RetrievedNet(e).key = e.key /\ RetrievedNet(e).app = Retrieved(f)
  BY <1>2, <1>3 DEF NetKeys
<1> QED BY <1>4, <1>5, NoneAssumption DEF f

RetrievedRecord(d) == Retrieved([i \in Nets |-> RetrievedNet(d[i])])

\* Where an entry of the retrieved array comes from.
LEMMA CameFrom ==
  ASSUME NEW d \in Records
  PROVE  /\ DOMAIN RetrievedRecord(d) = Nets
         /\ \A k \in Nets : d[k] # None => \E i \in Nets : RetrievedRecord(d)[i] = RetrievedNet(d[k])
         /\ \E r : \A i \in Nets : RetrievedRecord(d)[i] # None =>
              \E k \in Nets : d[k] # None /\ r[k] = i /\ RetrievedRecord(d)[i] = RetrievedNet(d[k])
<1> DEFINE t == [i \in Nets |-> RetrievedNet(d[i])]
           r == [k \in Nets |-> Rank(t, k)]
<1>1. DOMAIN t = 1 .. NetKeyMax /\ NetKeyMax \in Nat /\ Nets = 1 .. NetKeyMax
  BY Sizes
<1>2. ASSUME NEW i \in Nets
      PROVE  t[i] = RetrievedNet(d[i]) /\ (t[i] # None <=> d[i] # None)
  <2>1. CASE d[i] = None
    BY <2>1 DEF RetrievedNet
  <2>2. CASE d[i] # None
    BY <2>2, RecordFields, RetrievedNetIs
  <2> QED BY <2>1, <2>2
<1>3. RetrievedRecord(d) = Retrieved(t) /\ \A k \in Nets : r[k] = Rank(t, k)
  BY DEF RetrievedRecord
<1> HIDE DEF t, r
<1>4. /\ DOMAIN Retrieved(t) = Nets
      /\ \A k \in Nets : t[k] # None => Rank(t, k) \in Nets /\ Retrieved(t)[Rank(t, k)] = t[k]
      /\ \A i \in Nets : Retrieved(t)[i] # None =>
           \E k \in Nets : t[k] # None /\ Rank(t, k) = i /\ Retrieved(t)[i] = t[k]
  BY <1>1, RetrievedAll
<1>5. \A i \in Nets : RetrievedRecord(d)[i] # None =>
        \E k \in Nets : d[k] # None /\ r[k] = i /\ RetrievedRecord(d)[i] = RetrievedNet(d[k])
  BY <1>2, <1>3, <1>4
<1>6. \A k \in Nets : d[k] # None => \E i \in Nets : RetrievedRecord(d)[i] = RetrievedNet(d[k])
  BY <1>2, <1>3, <1>4
<1> QED BY <1>3, <1>4, <1>5, <1>6

LEMMA RestoredType ==
  ASSUME NEW d \in Records
  PROVE  RetrievedRecord(d) \in Records
<1>1. \A i \in Nets : RetrievedRecord(d)[i] \in NetKeys \cup {None}
  BY CameFrom, RecordFields, RetrievedNetIs
<1>2. RetrievedRecord(d) = [i \in Nets |-> RetrievedAt([l \in Nets |-> RetrievedNet(d[l])], i)]
  BY RetrievedIs DEF RetrievedRecord
<1> QED BY <1>1, <1>2 DEF Records

\* A power cycle brings all of the saved keys back.
LEMMA RestoredContents ==
  ASSUME NEW d \in Records
  PROVE  Contents(RetrievedRecord(d)) = Contents(d)
<1> DEFINE r == RetrievedRecord(d)
<1>1. ASSUME NEW k \in Nets, d[k] # None
      PROVE  Content(RetrievedNet(d[k])) = Content(d[k]) /\ RetrievedNet(d[k]) # None
  BY <1>1, RecordFields, RetrievedNetIs DEF Content
<1>2. \A i \in Nets : r[i] # None => \E k \in Nets : d[k] # None /\ r[i] = RetrievedNet(d[k])
  BY CameFrom
<1>3. \A k \in Nets : d[k] # None => \E i \in Nets : r[i] = RetrievedNet(d[k])
  BY CameFrom
<1> HIDE DEF r
<1>4. ASSUME NEW c PROVE c \in Contents(r) <=> c \in Contents(d)
  <2>1. ASSUME NEW i \in Nets, r[i] # None, c = Content(r[i])
        PROVE  \E k \in Nets : d[k] # None /\ c = Content(d[k])
    BY <1>1, <1>2, <2>1
  <2>2. ASSUME NEW k \in Nets, d[k] # None, c = Content(d[k])
        PROVE  \E i \in Nets : r[i] # None /\ c = Content(r[i])
    BY <1>1, <1>3, <2>2
  <2>3. c \in Contents(r) <=> \E i \in Nets : r[i] # None /\ c = Content(r[i])
    BY ContentsIs
  <2>4. c \in Contents(d) <=> \E i \in Nets : d[i] # None /\ c = Content(d[i])
    BY ContentsIs
  <2> QED BY <2>1, <2>2, <2>3, <2>4
<1> QED BY <1>4 DEF r

LEMMA RestoredUnique ==
  ASSUME NEW d \in Records, Unique(d)
  PROVE  Unique(RetrievedRecord(d))
<1> DEFINE n == RetrievedRecord(d)
<1>1. PICK r : \A i \in Nets : n[i] # None =>
        \E k \in Nets : d[k] # None /\ r[k] = i /\ n[i] = RetrievedNet(d[k])
  BY CameFrom
<1> HIDE DEF n
<1>2. ASSUME NEW i \in Nets, NEW x, HasNet(n, i, x)
      PROVE  \E k \in Nets : HasNet(d, k, x) /\ r[k] = i
  BY <1>1, <1>2, RecordFields, RetrievedNetIs DEF HasNet
<1>3. ASSUME NEW i \in Nets, NEW j \in Apps, NEW a, HasApp(n, i, j, a)
      PROVE  \E k \in Nets, l \in Apps : HasApp(d, k, l, a) /\ r[k] = i /\ Rank(d[k].app, l) = j
  <2>1. PICK k \in Nets : d[k] # None /\ r[k] = i /\ n[i] = RetrievedNet(d[k])
    BY <1>1, <1>3 DEF HasApp
  <2> DEFINE f == d[k].app
  <2>2. n[i].app = Retrieved(f) /\ DOMAIN f = 1 .. AppKeyMax /\ AppKeyMax \in Nat /\ Apps = 1 .. AppKeyMax
    BY <2>1, RecordFields, RetrievedNetIs, Sizes
  <2>3. Retrieved(f)[j] # None /\ Retrieved(f)[j].index = a
    BY <1>3, <2>2 DEF HasApp
  <2> HIDE DEF f
  <2>4. PICK l \in Apps : f[l] # None /\ Rank(f, l) = j /\ Retrieved(f)[j] = f[l]
    BY <2>2, <2>3, RetrievedAll
  <2> QED BY <2>1, <2>3, <2>4 DEF f, HasApp
<1>4. ASSUME NEW x \in NetIdx, NEW i1 \in Nets, NEW i2 \in Nets, HasNet(n, i1, x), HasNet(n, i2, x)
      PROVE  i1 = i2
  BY <1>2, <1>4 DEF Unique
<1>5. ASSUME NEW a \in AppIdx, NEW i1 \in Nets, NEW i2 \in Nets, NEW j1 \in Apps, NEW j2 \in Apps,
             HasApp(n, i1, j1, a), HasApp(n, i2, j2, a)
      PROVE  i1 = i2 /\ j1 = j2
  <2>1. PICK k1 \in Nets, l1 \in Apps : HasApp(d, k1, l1, a) /\ r[k1] = i1 /\ Rank(d[k1].app, l1) = j1
    BY <1>3, <1>5
  <2>2. PICK k2 \in Nets, l2 \in Apps : HasApp(d, k2, l2, a) /\ r[k2] = i2 /\ Rank(d[k2].app, l2) = j2
    BY <1>3, <1>5
  <2>3. k1 = k2 /\ l1 = l2
    BY <2>1, <2>2 DEF Unique
  <2> QED BY <2>1, <2>2, <2>3
<1> QED BY <1>4, <1>5 DEF Unique, n

-------------------------------------------------------------------------------
(* The steps.                                                              *)

\* The start of a save: the arrays go to the record being written, the flash
\* keeps its record or is erased.
LEMMA SaveKeeps ==
  ASSUME KeyInv, MeshKeySave(net'), net' \in Records, Unique(net'),
         provisioned' \/ bound = {},
         UNCHANGED <<bound, wiped>>, ~wiped => bound \subseteq AppIndexes(net')
  PROVE  /\ Saving' /\ Uniques' /\ Bindings' /\ phase = "ready" /\ phase' = "storing"
         /\ durable' \in Records \cup {None} /\ par' \in Records
<1>1. /\ phase = "ready" /\ phase' = "storing" /\ par' = net'
      /\ durable' = durable \/ durable' = None
  BY DEF MeshKeySave
<1>2. durable \in Records \cup {None} /\ durable' \in Records \cup {None}
  BY <1>1 DEF KeyInv, Types
<1>3. Saving'
  BY <1>1 DEF Saving, KeysInFlash
<1>4. Uniques'
  BY <1>1 DEF Uniques, KeyInv
<1>5. Bindings'
  BY <1>1 DEF Bindings, KeyInv
<1> QED BY <1>1, <1>2, <1>3, <1>4, <1>5

LEMMA RetrieveKeeps ==
  ASSUME KeyInv, MeshKeyRetrieve
  PROVE  KeyInv'
<1>1. /\ phase = "off" /\ phase' = "ready" /\ durable' = durable
      /\ par' = IF durable = None THEN [i \in Nets |-> None] ELSE durable
      /\ net' = IF durable = None THEN TestKeys ELSE RetrievedRecord(durable)
      /\ wiped' = (wiped \/ (durable = None /\ provisioned))
      /\ UNCHANGED <<new, keyPhase, bound, deleting, proving, provisioned>>
  BY DEF MeshKeyRetrieve, Area!PowerOn, RetrievedRecord
<1>2. /\ Types /\ durable \in Records \cup {None} /\ (durable # None => Unique(durable))
      /\ deleting = None /\ Bindings
      /\ \A i \in Nets : keyPhase[i] = NORMAL
  BY <1>1 DEF KeyInv, Types, Uniques, Deleting, NoRefresh
<1>3. net' \in Records /\ par' \in Records /\ Unique(net')
  <2>1. CASE durable = None
    BY <1>1, <2>1, TestKeysType, UniqueOne, NoKeysType, Sizes DEF NoKeys
  <2>2. CASE durable # None
    BY <1>1, <1>2, <2>2, RestoredType, RestoredUnique
  <2> QED BY <2>1, <2>2
<1>4. durable # None => /\ Contents(net') = Contents(durable)
                        /\ AppIndexes(net') = AppIndexes(durable)
  BY <1>1, <1>2, <1>3, RestoredContents, SameContents
<1>5. Types'
  BY <1>1, <1>2, <1>3 DEF Types
<1>6. Saving' /\ Uniques' /\ NoRefresh'
  BY <1>1, <1>2, <1>3, <1>4 DEF Saving, KeysInFlash, Uniques, NoRefresh
<1>7. RefreshHasNewKey' /\ Deleting'
  BY <1>1, <1>2 DEF RefreshHasNewKey, Deleting
<1>8. Bindings'
  BY <1>1, <1>2, <1>4 DEF Bindings
<1> QED BY <1>5, <1>6, <1>7, <1>8 DEF KeyInv

LEMMA StoreKeeps ==
  ASSUME KeyInv, StoreCommit \/ StoreReturn
  PROVE  KeyInv'
<1>1. /\ UNCHANGED <<par, net, new, keyPhase, bound, deleting, proving, provisioned, wiped>>
      /\ \/ phase = "storing" /\ phase' = "stored" /\ durable' = par
         \/ phase = "stored" /\ phase' = "ready" /\ durable' = durable
  BY DEF StoreCommit, StoreReturn, Area!Commit, Area!Return
<1>2. par = net /\ net \in Records /\ net # None
  BY <1>1, NoneAssumption DEF KeyInv, Saving, Types
<1>3. Types' /\ Saving'
  BY <1>1, <1>2 DEF KeyInv, Types, Saving, KeysInFlash
<1>4. Uniques' /\ RefreshHasNewKey' /\ NoRefresh'
  BY <1>1, <1>2 DEF KeyInv, Uniques, RefreshHasNewKey, NoRefresh
<1>5. Deleting' /\ Bindings'
  BY <1>1, <1>2 DEF KeyInv, Deleting, Bindings
<1> QED BY <1>3, <1>4, <1>5 DEF KeyInv

LEMMA PowerLossKeeps ==
  ASSUME KeyInv, PowerLoss
  PROVE  KeyInv'
<1>1. /\ phase' = "off" /\ net' = NoKeys /\ new' = NoKeys /\ keyPhase' = [i \in Nets |-> NORMAL]
      /\ deleting' = None
      /\ UNCHANGED <<durable, par, bound, provisioned, wiped>>
  BY DEF PowerLoss, Area!PowerLoss
<1>2. Types' /\ Saving'
  BY <1>1, NoKeysType DEF KeyInv, Types, Saving, KeysInFlash
<1>3. Unique(NoKeys)
  BY NoKeysType, Sizes, UniqueOne
<1>4. Uniques' /\ RefreshHasNewKey' /\ NoRefresh'
  BY <1>1, <1>3 DEF KeyInv, Uniques, RefreshHasNewKey, NoRefresh
<1>5. Deleting' /\ Bindings'
  BY <1>1 DEF KeyInv, Deleting, Bindings
<1> QED BY <1>2, <1>4, <1>5 DEF KeyInv

LEMMA ProvisionKeeps ==
  ASSUME KeyInv, NEW x \in NetIdx, NEW k \in Keys, MeshNetKeyAddByProvision(x, k)
  PROVE  KeyInv'
<1>1. ~provisioned /\ MeshKeySave(net') /\ UNCHANGED <<bound, deleting, provisioned, wiped>>
  BY DEF MeshNetKeyAddByProvision
<1>2. PICK o \in Nets :
        /\ net' = [NoKeys EXCEPT ![o] = NetKeyOf(x, k)]
        /\ \/ new' = NoKeys /\ keyPhase' = [s \in Nets |-> NORMAL]
           \/ new' = net' /\ keyPhase' = [s \in Nets |-> IF s = o THEN PHASE2 ELSE NORMAL]
  BY DEF MeshNetKeyAddByProvision, ProvisionKeys
<1>3. /\ net' \in Records /\ net'[o] = NetKeyOf(x, k) /\ NetKeyOf(x, k) # None
      /\ \A i \in Nets : net'[i] # None => i = o
  BY <1>2, NewNetKey, NoKeysType, NoneAssumption DEF Records
<1>4. Unique(net')
  BY <1>3, NewNetKey, UniqueOne
<1>5. bound = {} /\ deleting = None
  BY <1>1 DEF KeyInv, Bindings, Deleting
<1>6. /\ Saving' /\ Uniques' /\ Bindings' /\ phase' = "storing"
      /\ durable' \in Records \cup {None} /\ par' \in Records
  BY <1>1, <1>3, <1>4, <1>5, SaveKeeps
<1>7. new' \in Records /\ keyPhase' \in [Nets -> {NORMAL, PHASE1, PHASE2}]
  BY <1>2, <1>3, NoKeysType
<1>8. Types'
  BY <1>1, <1>3, <1>5, <1>6, <1>7 DEF Types, KeyInv
<1>9. RefreshHasNewKey'
  BY <1>2, <1>3 DEF RefreshHasNewKey
<1>10. NoRefresh' /\ Deleting'
  BY <1>1, <1>5, <1>6 DEF NoRefresh, Deleting
<1> QED BY <1>6, <1>8, <1>9, <1>10 DEF KeyInv

LEMMA ProvisionEndKeeps ==
  ASSUME KeyInv, ProvisionEnd
  PROVE  KeyInv'
<1>1. /\ proving /\ provisioned'
      /\ UNCHANGED <<durable, par, phase, net, new, keyPhase, bound, deleting, wiped>>
  BY DEF ProvisionEnd, store
<1>2. Types' /\ Saving' /\ Uniques' /\ RefreshHasNewKey' /\ NoRefresh'
  BY <1>1 DEF KeyInv, Types, Saving, KeysInFlash, Uniques, RefreshHasNewKey, NoRefresh
<1>3. Deleting' /\ Bindings'
  BY <1>1 DEF KeyInv, Deleting, Bindings
<1> QED BY <1>2, <1>3 DEF KeyInv

LEMMA NetKeyAddKeeps ==
  ASSUME KeyInv, NEW x \in NetIdx, NEW k \in Keys, NetKeyAdd(x, k)
  PROVE  KeyInv'
<1>1. /\ ~NetExists(net, x) /\ MeshKeySave(net') /\ provisioned /\ deleting = None
      /\ UNCHANGED <<new, keyPhase, bound, deleting, proving, provisioned, wiped>>
  BY DEF NetKeyAdd, Idle
<1>2. PICK o \in Nets : net[o] = None /\ net' = [net EXCEPT ![o] = NetKeyOf(x, k)]
  BY DEF NetKeyAdd, IsFirstEmpty
<1>3. Types /\ net \in Records /\ Unique(net) /\ Bindings /\ RefreshHasNewKey /\ phase = "ready"
  BY <1>1 DEF KeyInv, Types, Uniques, MeshKeySave
<1>4. /\ net' \in Records /\ net'[o] = NetKeyOf(x, k)
      /\ \A i \in Nets \ {o} : net'[i] = net[i]
  BY <1>2, <1>3, NewNetKey DEF Records
<1>5. /\ \A y : \A i \in Nets : HasNet(net', i, y) <=> HasNet(net, i, y) \/ (i = o /\ y = x)
      /\ \A a : \A i \in Nets, j \in Apps : HasApp(net', i, j, a) <=> HasApp(net, i, j, a)
  BY <1>2, <1>4, NewNetKey DEF HasNet, HasApp
<1>6. Unique(net')
  BY <1>1, <1>3, <1>5 DEF Unique, NetExists
<1>7. ~wiped => bound \subseteq AppIndexes(net')
  BY <1>3, <1>5, IndexesStay DEF Bindings
<1>8. /\ Saving' /\ Uniques' /\ Bindings' /\ phase' = "storing"
      /\ durable' \in Records \cup {None} /\ par' \in Records
  BY <1>1, <1>4, <1>6, <1>7, SaveKeeps
<1>9. Types'
  BY <1>1, <1>3, <1>4, <1>8 DEF Types
<1>10. RefreshHasNewKey' /\ NoRefresh' /\ Deleting'
  BY <1>1, <1>2, <1>3, <1>4, <1>8 DEF RefreshHasNewKey, NoRefresh, Deleting
<1> QED BY <1>8, <1>9, <1>10 DEF KeyInv

LEMMA NetKeyUpdateKeeps ==
  ASSUME KeyInv, NEW x \in NetIdx, NEW k \in Keys, NetKeyUpdate(x, k)
  PROVE  KeyInv'
<1>1. /\ phase = "ready" /\ deleting = None
      /\ UNCHANGED <<durable, par, phase, net, bound, deleting, proving, provisioned, wiped>>
  BY DEF NetKeyUpdate, Idle, store
<1>2. PICK o \in Nets : /\ net[o] # None
                        /\ new' = [new EXCEPT ![o] = [net[o] EXCEPT !.key = k]]
                        /\ keyPhase' = [keyPhase EXCEPT ![o] = PHASE1]
  BY DEF NetKeyUpdate, HasNet
<1>3. Types /\ net[o] \in NetKeys /\ RefreshHasNewKey /\ new \in Records
      /\ keyPhase \in [Nets -> {NORMAL, PHASE1, PHASE2}]
  BY <1>2, RecordFields DEF KeyInv, Types
<1>4. [net[o] EXCEPT !.key = k] \in NetKeys /\ [net[o] EXCEPT !.key = k].index = net[o].index
  BY <1>3 DEF NetKeys, AllKeys
<1>5. /\ new' \in Records /\ new'[o] \in NetKeys /\ new'[o].index = net[o].index
      /\ \A i \in Nets \ {o} : new'[i] = new[i] /\ keyPhase'[i] = keyPhase[i]
      /\ keyPhase' \in [Nets -> {NORMAL, PHASE1, PHASE2}]
  BY <1>2, <1>3, <1>4 DEF Records
<1>6. Types' /\ Saving' /\ Uniques' /\ NoRefresh'
  BY <1>1, <1>5 DEF KeyInv, Types, Saving, KeysInFlash, Uniques, NoRefresh
<1>7. RefreshHasNewKey'
  BY <1>1, <1>2, <1>3, <1>5, NoneAssumption DEF RefreshHasNewKey
<1>8. Deleting' /\ Bindings'
  BY <1>1 DEF KeyInv, Deleting, Bindings
<1> QED BY <1>6, <1>7, <1>8 DEF KeyInv
LEMMA AppKeyAddKeeps ==
  ASSUME KeyInv, NEW x \in NetIdx, NEW a \in AppIdx, NEW k \in Keys, AppKeyAdd(x, a, k)
  PROVE  KeyInv'
<1>1. /\ ~AppExists(net, a) /\ MeshKeySave(net') /\ provisioned /\ deleting = None
      /\ UNCHANGED <<new, keyPhase, bound, deleting, proving, provisioned, wiped>>
  BY DEF AppKeyAdd, Idle, AppIsKnown
<1> DEFINE v == [index |-> a, key |-> k]
<1>2. PICK o \in Nets, j \in Apps : /\ net[o] # None /\ net[o].app[j] = None
                                   /\ net' = AppSetTo(net, o, j, v)
  BY DEF AppKeyAdd, HasNet, IsFirstEmpty, AppSetTo
<1>3. v \in AppKeys /\ v # None /\ v.index = a
  BY NoneAssumption DEF AppKeys, AllKeys
<1> HIDE DEF v
<1>4. Types /\ net \in Records /\ Unique(net) /\ Bindings /\ RefreshHasNewKey /\ phase = "ready"
  BY <1>1 DEF KeyInv, Types, Uniques, MeshKeySave
<1>5. /\ net' \in Records /\ net'[o] # None /\ net'[o].index = net[o].index
      /\ \A i \in Nets \ {o} : net'[i] = net[i]
  BY <1>2, <1>3, <1>4, AppSet
<1>6. /\ \A y : \A i \in Nets : HasNet(net', i, y) <=> HasNet(net, i, y)
      /\ \A b : \A i \in Nets, q \in Apps : (i # o \/ q # j) => (HasApp(net', i, q, b) <=> HasApp(net, i, q, b))
      /\ \A b : HasApp(net', o, j, b) <=> a = b
  BY <1>2, <1>3, <1>4, AppSetIndexes
<1>7. Unique(net')
  BY <1>1, <1>4, <1>6 DEF Unique, AppExists
<1>8. AppIndexes(net) \subseteq AppIndexes(net')
  <2>1. \A b : \A i \in Nets, q \in Apps : HasApp(net, i, q, b) => HasApp(net', i, q, b)
    BY <1>2, <1>6 DEF HasApp
  <2> QED BY <2>1, IndexesStay
<1>9. ~wiped => bound \subseteq AppIndexes(net')
  BY <1>4, <1>8 DEF Bindings
<1>10. /\ Saving' /\ Uniques' /\ Bindings' /\ phase' = "storing"
       /\ durable' \in Records \cup {None} /\ par' \in Records
  BY <1>1, <1>5, <1>7, <1>9, SaveKeeps
<1>11. Types'
  BY <1>1, <1>4, <1>5, <1>10 DEF Types
<1>12. RefreshHasNewKey' /\ NoRefresh' /\ Deleting'
  BY <1>1, <1>4, <1>5, <1>10 DEF RefreshHasNewKey, NoRefresh, Deleting
<1> QED BY <1>10, <1>11, <1>12 DEF KeyInv

LEMMA AppKeyUpdateKeeps ==
  ASSUME KeyInv, NEW x \in NetIdx, NEW a \in AppIdx, NEW k \in Keys, AppKeyUpdate(x, a, k)
  PROVE  KeyInv'
<1>1. /\ MeshKeySave(net') /\ provisioned /\ deleting = None
      /\ UNCHANGED <<net, keyPhase, bound, deleting, proving, provisioned, wiped>>
  BY DEF AppKeyUpdate, Idle
<1> DEFINE v == [index |-> a, key |-> k]
<1>2. PICK o \in Nets, j \in Apps : keyPhase[o] = PHASE1 /\ new' = AppSetTo(new, o, j, v)
  BY DEF AppKeyUpdate, AppSetTo
<1>3. v \in AppKeys /\ v # None
  BY NoneAssumption DEF AppKeys, AllKeys
<1> HIDE DEF v
<1>4. /\ Types /\ net \in Records /\ new \in Records /\ Unique(net) /\ Bindings
      /\ RefreshHasNewKey /\ phase = "ready"
  BY <1>1 DEF KeyInv, Types, Uniques, MeshKeySave
<1>5. new[o] # None
  BY <1>2, <1>4, Sizes DEF RefreshHasNewKey
<1>6. /\ new' \in Records /\ new'[o] # None /\ new'[o].index = new[o].index
      /\ \A i \in Nets \ {o} : new'[i] = new[i]
  BY <1>2, <1>3, <1>4, <1>5, AppSet
<1>7. /\ Saving' /\ Uniques' /\ Bindings' /\ phase' = "storing"
      /\ durable' \in Records \cup {None} /\ par' \in Records
  BY <1>1, <1>4, SaveKeeps DEF Bindings
<1>8. Types'
  BY <1>1, <1>4, <1>6, <1>7 DEF Types
<1>9. RefreshHasNewKey' /\ NoRefresh' /\ Deleting'
  BY <1>1, <1>4, <1>5, <1>6, <1>7 DEF RefreshHasNewKey, NoRefresh, Deleting
<1> QED BY <1>7, <1>8, <1>9 DEF KeyInv

\* The next application key to delete: one that is there, or none is.
LEMMA VictimIs ==
  ASSUME NEW n, NEW i \in Nets
  PROVE  /\ NextVictim(n, i) \in 0 .. AppKeyMax
         /\ NextVictim(n, i) # 0 => n[i].app[NextVictim(n, i)] # None
         /\ NextVictim(n, i) = 0 => \A j \in Apps : n[i].app[j] = None
<1> DEFINE T == {j \in Apps : n[i].app[j] # None}
<1>1. CASE T = {}
  <2>1. \A j \in Apps : n[i].app[j] = None
    BY <1>1
  <2>2. NextVictim(n, i) = 0
    BY <2>1 DEF NextVictim
  <2> QED BY <2>1, <2>2, Sizes
<1>2. CASE T # {}
  <2> DEFINE Less == OpToRel(<, Nat)
  <2>1. \A k, l \in Nat : k < l => <<k, l>> \in Less
    BY DEF OpToRel
  <2>2. IsWellFoundedOn(Less, Nat)
    BY NatLessThanWellFounded
  <2> HIDE DEF Less
  <2>3. T \subseteq Nat /\ T \subseteq 1 .. AppKeyMax
    BY Sizes
  <2>4. \E j \in T : \A k \in T : ~(<<k, j>> \in Less)
    <3> HIDE DEF T
    <3> QED BY <1>2, <2>2, <2>3, WFMin
  <2>5. PICK j \in T : \A k \in T : ~(<<k, j>> \in Less)
    BY <2>4
  <2>6. \A k \in T : ~(k < j)
    <3> HIDE DEF T
    <3> QED BY <2>1, <2>3, <2>5, Zenon
  <2>7. \A k \in 1 .. j - 1 : n[i].app[k] = None
    <3>1. j \in Nat /\ j <= AppKeyMax /\ AppKeyMax \in Nat
      BY <2>3, Sizes
    <3>2. \A k \in 1 .. j - 1 : k \in Apps /\ k < j
      BY <3>1, Sizes
    <3> QED BY <2>6, <3>2
  <2>8. \E l \in Apps : n[i].app[l] # None /\ \A k \in 1 .. l - 1 : n[i].app[k] = None
    BY <2>7
  <2>9. NextVictim(n, i) \in Apps /\ n[i].app[NextVictim(n, i)] # None
    BY <1>2, <2>8 DEF NextVictim
  <2> QED BY <2>9, Sizes
<1> QED BY <1>1, <1>2

LEMMA NetKeyDelKeeps ==
  ASSUME KeyInv, NEW x \in NetIdx, NetKeyDel(x)
  PROVE  KeyInv'
<1>1. /\ phase = "ready" /\ provisioned /\ ~proving
      /\ UNCHANGED <<durable, par, phase, net, new, keyPhase, bound, proving, provisioned, wiped>>
  BY DEF NetKeyDel, Idle, store
<1>2. PICK o \in Nets :
        /\ net[o] # None
        /\ deleting' = [slot |-> o, app |-> NextVictim(net, o), whole |-> TRUE, unbound |-> FALSE]
  BY DEF NetKeyDel, HasNet
<1>3. /\ NextVictim(net, o) \in 0 .. AppKeyMax
      /\ NextVictim(net, o) # 0 => net[o].app[NextVictim(net, o)] # None
      /\ NextVictim(net, o) = 0 => \A j \in Apps : net[o].app[j] = None
  BY VictimIs
<1>4. Types'
  BY <1>1, <1>2, <1>3 DEF KeyInv, Types
<1>5. Saving' /\ Uniques' /\ RefreshHasNewKey' /\ NoRefresh' /\ Bindings'
  BY <1>1 DEF KeyInv, Saving, KeysInFlash, Uniques, RefreshHasNewKey, NoRefresh, Bindings
<1>6. Deleting'
  BY <1>1, <1>2, <1>3 DEF Deleting
<1> QED BY <1>4, <1>5, <1>6 DEF KeyInv

LEMMA AppKeyDelKeeps ==
  ASSUME KeyInv, NEW x \in NetIdx, NEW a \in AppIdx, AppKeyDel(x, a)
  PROVE  KeyInv'
<1>1. /\ phase = "ready" /\ provisioned /\ ~proving
      /\ UNCHANGED <<durable, par, phase, net, new, keyPhase, bound, proving, provisioned, wiped>>
  BY DEF AppKeyDel, Idle, store
<1>2. PICK o \in Nets, j \in Apps :
        /\ net[o] # None /\ net[o].app[j] # None
        /\ deleting' = [slot |-> o, app |-> j, whole |-> FALSE, unbound |-> FALSE]
  BY DEF AppKeyDel, HasNet, HasApp
<1>3. j \in 0 .. AppKeyMax /\ j # 0
  BY Sizes
<1>4. Types'
  BY <1>1, <1>2, <1>3 DEF KeyInv, Types
<1>5. Saving' /\ Uniques' /\ RefreshHasNewKey' /\ NoRefresh' /\ Bindings'
  BY <1>1 DEF KeyInv, Saving, KeysInFlash, Uniques, RefreshHasNewKey, NoRefresh, Bindings
<1>6. Deleting'
  BY <1>1, <1>2, <1>3 DEF Deleting
<1> QED BY <1>4, <1>5, <1>6 DEF KeyInv

LEMMA DelUnbindKeeps ==
  ASSUME KeyInv, DelUnbind
  PROVE  KeyInv'
<1> DEFINE o == deleting.slot
           j == deleting.app
           a == net[o].app[j].index
<1>1. /\ deleting # None /\ j # 0
      /\ bound' = bound \ {a} /\ deleting' = [deleting EXCEPT !.unbound = TRUE]
      /\ UNCHANGED <<durable, par, phase, net, new, keyPhase, proving, provisioned, wiped>>
  BY DEF DelUnbind, UnboundFrom, store
<1>2. /\ Types /\ Deleting
      /\ deleting \in [slot : Nets, app : 0 .. AppKeyMax, whole : BOOLEAN, unbound : BOOLEAN]
  BY <1>1 DEF KeyInv, Types
<1>3. /\ deleting' \in [slot : Nets, app : 0 .. AppKeyMax, whole : BOOLEAN, unbound : BOOLEAN]
      /\ deleting'.slot = o /\ deleting'.app = j
  BY <1>1, <1>2
<1> HIDE DEF o, j
<1>4. /\ net[o] # None /\ net[o].app[j] # None
      /\ phase # "off" /\ provisioned /\ ~proving
  BY <1>1, <1>2 DEF Deleting, o, j
<1>5. Types'
  BY <1>1, <1>2, <1>3 DEF Types
<1>6. Saving' /\ Uniques' /\ RefreshHasNewKey' /\ NoRefresh'
  BY <1>1 DEF KeyInv, Saving, KeysInFlash, Uniques, RefreshHasNewKey, NoRefresh
<1>7. Bindings'
  BY <1>1 DEF KeyInv, Bindings
<1>8. a \notin bound'
  BY <1>1
<1>9. Deleting'
  BY <1>1, <1>3, <1>4, <1>8 DEF Deleting
<1> QED BY <1>5, <1>6, <1>7, <1>9 DEF KeyInv

LEMMA DelAppKeyKeeps ==
  ASSUME KeyInv, DelAppKey
  PROVE  KeyInv'
<1> DEFINE o == deleting.slot
           j == deleting.app
           a == net[o].app[j].index
<1>1. /\ deleting # None /\ j # 0 /\ deleting.unbound
      /\ net' = AppSetTo(net, o, j, None) /\ MeshKeySave(net')
      /\ deleting' = IF deleting.whole
                     THEN [deleting EXCEPT !.app = NextVictim(net', o), !.unbound = FALSE]
                     ELSE None
      /\ UNCHANGED <<new, keyPhase, bound, proving, provisioned, wiped>>
  BY DEF DelAppKey, AppSetTo
<1>2. /\ Types /\ net \in Records /\ Unique(net) /\ Bindings /\ RefreshHasNewKey /\ Deleting
      /\ deleting \in [slot : Nets, app : 0 .. AppKeyMax, whole : BOOLEAN, unbound : BOOLEAN]
  BY <1>1 DEF KeyInv, Types, Uniques
<1>3. o \in Nets /\ j \in Apps /\ None \in AppKeys \cup {None}
  BY <1>1, <1>2, Sizes
<1>4. /\ net[o] # None /\ net[o].app[j] # None /\ a \notin bound
      /\ provisioned /\ ~proving
  BY <1>1, <1>2 DEF Deleting
<1>5. /\ net' \in Records /\ net'[o] # None /\ net'[o].index = net[o].index
      /\ \A i \in Nets \ {o} : net'[i] = net[i]
  BY <1>1, <1>2, <1>3, <1>4, AppSet
<1>6. /\ \A y : \A i \in Nets : HasNet(net', i, y) <=> HasNet(net, i, y)
      /\ \A b : \A i \in Nets, q \in Apps : (i # o \/ q # j) => (HasApp(net', i, q, b) <=> HasApp(net, i, q, b))
      /\ \A b : ~HasApp(net', o, j, b)
  BY <1>1, <1>2, <1>3, <1>4, AppSetIndexes
<1>7. Unique(net')
  BY <1>2, <1>6 DEF Unique
<1>8. \A b \in AppIndexes(net) : b # a => b \in AppIndexes(net')
  <2>1. \A b : HasApp(net, o, j, b) => b = a
    BY DEF HasApp
  <2> HIDE DEF o, j, a
  <2> QED BY <1>6, <2>1 DEF AppIndexes, AppExists
<1>9. ~wiped => bound \subseteq AppIndexes(net')
  <2>1. ~wiped => bound \subseteq AppIndexes(net)
    BY <1>1, <1>2 DEF Bindings, MeshKeySave
  <2> QED BY <1>4, <1>8, <2>1
<1>10. /\ Saving' /\ Uniques' /\ Bindings' /\ phase' = "storing"
       /\ durable' \in Records \cup {None} /\ par' \in Records
  BY <1>1, <1>4, <1>5, <1>7, <1>9, SaveKeeps
<1> DEFINE v == NextVictim(net', o)
<1>11. /\ v \in 0 .. AppKeyMax
       /\ v # 0 => net'[o].app[v] # None
       /\ v = 0 => \A q \in Apps : net'[o].app[q] = None
  BY <1>3, VictimIs
<1> HIDE DEF v
<1>12. \/ deleting' = None
       \/ /\ deleting' \in [slot : Nets, app : 0 .. AppKeyMax, whole : BOOLEAN, unbound : BOOLEAN]
          /\ deleting'.slot = o /\ deleting'.app = v /\ deleting'.unbound = FALSE
  BY <1>1, <1>2, <1>11 DEF v
<1> HIDE DEF o, j
<1>13. Types'
  BY <1>1, <1>2, <1>5, <1>10, <1>12 DEF Types
<1>14. RefreshHasNewKey' /\ NoRefresh'
  BY <1>1, <1>2, <1>4, <1>5, <1>10 DEF RefreshHasNewKey, NoRefresh
<1>15. Deleting'
  BY <1>1, <1>4, <1>5, <1>10, <1>11, <1>12 DEF Deleting
<1> QED BY <1>10, <1>13, <1>14, <1>15 DEF KeyInv

LEMMA DelNetKeyKeeps ==
  ASSUME KeyInv, DelNetKey
  PROVE  KeyInv'
<1> DEFINE o == deleting.slot
<1>1. /\ deleting # None /\ deleting.app = 0 /\ deleting' = None
      /\ net' = [net EXCEPT ![o] = None] /\ MeshKeySave(net')
      /\ keyPhase' = [keyPhase EXCEPT ![o] = NORMAL]
      /\ UNCHANGED <<new, bound, proving, provisioned, wiped>>
  BY DEF DelNetKey
<1>2. /\ Types /\ net \in Records /\ Unique(net) /\ Bindings /\ RefreshHasNewKey /\ Deleting
      /\ deleting \in [slot : Nets, app : 0 .. AppKeyMax, whole : BOOLEAN, unbound : BOOLEAN]
      /\ keyPhase \in [Nets -> {NORMAL, PHASE1, PHASE2}]
  BY <1>1 DEF KeyInv, Types, Uniques
<1>3. o \in Nets /\ provisioned /\ \A j \in Apps : net[o].app[j] = None
  BY <1>1, <1>2 DEF Deleting
<1> HIDE DEF o
<1>4. net' \in Records /\ net'[o] = None /\ \A i \in Nets \ {o} : net'[i] = net[i]
  BY <1>1, <1>2, <1>3 DEF Records
<1>5. /\ keyPhase' \in [Nets -> {NORMAL, PHASE1, PHASE2}] /\ keyPhase'[o] = NORMAL
      /\ \A i \in Nets \ {o} : keyPhase'[i] = keyPhase[i]
  BY <1>1, <1>2, <1>3
<1>6. /\ \A y : \A i \in Nets : HasNet(net', i, y) => HasNet(net, i, y)
      /\ \A a : \A i \in Nets, j \in Apps : HasApp(net', i, j, a) <=> HasApp(net, i, j, a)
  BY <1>3, <1>4 DEF HasNet, HasApp
<1>7. Unique(net')
  BY <1>2, <1>6 DEF Unique
<1>8. AppIndexes(net) \subseteq AppIndexes(net')
  BY <1>6, IndexesStay
<1>9. ~wiped => bound \subseteq AppIndexes(net')
  BY <1>1, <1>2, <1>8 DEF Bindings, MeshKeySave
<1>10. /\ Saving' /\ Uniques' /\ Bindings' /\ phase' = "storing"
       /\ durable' \in Records \cup {None} /\ par' \in Records
  BY <1>1, <1>3, <1>4, <1>7, <1>9, SaveKeeps
<1>11. Types'
  BY <1>1, <1>2, <1>4, <1>5, <1>10 DEF Types
<1>12. RefreshHasNewKey' /\ NoRefresh' /\ Deleting'
  BY <1>1, <1>2, <1>4, <1>5, <1>10 DEF RefreshHasNewKey, NoRefresh, Deleting
<1> QED BY <1>10, <1>11, <1>12 DEF KeyInv

LEMMA LibBindKeeps ==
  ASSUME KeyInv, NEW a \in AppIdx, LibBind(a)
  PROVE  KeyInv'
<1>1. /\ phase = "ready" /\ deleting = None /\ provisioned /\ AppExists(net, a)
      /\ bound' = bound \cup {a} \/ bound' = bound \ {a}
      /\ UNCHANGED <<durable, par, phase, net, new, keyPhase, deleting, proving, provisioned, wiped>>
  BY DEF LibBind, Idle, store
<1>2. Types /\ Saving /\ Bindings /\ net \in Records /\ durable \in Records \cup {None}
  BY DEF KeyInv, Types
<1>3. durable # None => AppIndexes(net) = AppIndexes(durable)
  BY <1>1, <1>2, SameContents DEF Saving, KeysInFlash
<1>4. a \in AppIndexes(net)
  BY <1>1 DEF AppIndexes
<1>5. Types' /\ Saving' /\ Uniques' /\ RefreshHasNewKey' /\ NoRefresh'
  BY <1>1 DEF KeyInv, Types, Saving, KeysInFlash, Uniques, RefreshHasNewKey, NoRefresh
<1>6. Bindings'
  BY <1>1, <1>2, <1>3, <1>4 DEF Bindings
<1>7. Deleting'
  BY <1>1 DEF Deleting
<1> QED BY <1>5, <1>6, <1>7 DEF KeyInv

LEMMA LibPhase2Keeps ==
  ASSUME KeyInv, NEW o \in Nets, LibPhase2(o)
  PROVE  KeyInv'
<1>1. /\ phase = "ready" /\ deleting = None /\ keyPhase[o] = PHASE1
      /\ keyPhase' = [keyPhase EXCEPT ![o] = PHASE2]
      /\ UNCHANGED <<durable, par, phase, net, new, bound, deleting, proving, provisioned, wiped>>
  BY DEF LibPhase2, Idle, store
<1>2. Types /\ keyPhase \in [Nets -> {NORMAL, PHASE1, PHASE2}]
  BY DEF KeyInv, Types
<1>3. /\ keyPhase' \in [Nets -> {NORMAL, PHASE1, PHASE2}]
      /\ \A i \in Nets : keyPhase'[i] # NORMAL => keyPhase[i] # NORMAL
  BY <1>1, <1>2, Sizes
<1>4. Types' /\ Saving' /\ Uniques' /\ NoRefresh' /\ Bindings'
  BY <1>1, <1>3 DEF KeyInv, Types, Saving, KeysInFlash, Uniques, NoRefresh, Bindings
<1>5. RefreshHasNewKey' /\ Deleting'
  BY <1>1, <1>3 DEF KeyInv, RefreshHasNewKey, Deleting
<1> QED BY <1>4, <1>5 DEF KeyInv

LEMMA LibPhase3Keeps ==
  ASSUME KeyInv, NEW o \in Nets, LibPhase3(o)
  PROVE  KeyInv'
<1> DEFINE f == [j \in Apps |-> SuccessorOf(net[o].app[j], new[o].app[j])]
           e == [net[o] EXCEPT !.key = new[o].key, !.app = f]
<1>1. /\ deleting = None /\ provisioned /\ keyPhase[o] # NORMAL
      /\ new' = [new EXCEPT ![o] = None] /\ keyPhase' = [keyPhase EXCEPT ![o] = NORMAL]
      /\ MeshKeySave(net')
      /\ UNCHANGED <<bound, deleting, proving, provisioned, wiped>>
  BY DEF LibPhase3, Idle
<1>2. net' = [net EXCEPT ![o] = e]
  BY DEF LibPhase3
<1>3. /\ Types /\ net \in Records /\ new \in Records /\ Unique(net) /\ Bindings /\ RefreshHasNewKey
      /\ keyPhase \in [Nets -> {NORMAL, PHASE1, PHASE2}]
  BY DEF KeyInv, Types, Uniques
<1>4. net[o] # None /\ new[o] # None
  BY <1>1, <1>3 DEF RefreshHasNewKey
<1>5. ASSUME NEW j \in Apps
      PROVE  /\ f[j] \in AppKeys \cup {None} /\ (f[j] # None <=> net[o].app[j] # None)
             /\ f[j] # None => f[j].index = net[o].app[j].index
  <2>1. net[o].app[j] \in AppKeys \cup {None} /\ new[o].app[j] \in AppKeys \cup {None}
    BY <1>3, <1>4, RecordFields
  <2>2. f[j] = SuccessorOf(net[o].app[j], new[o].app[j])
    OBVIOUS
  <2> QED BY <2>1, <2>2 DEF SuccessorOf
<1>6. f \in [Apps -> AppKeys \cup {None}]
  BY <1>5
<1> HIDE DEF f
<1>7. e \in NetKeys /\ e.index = net[o].index /\ e.app = f
  <2>1. net[o] \in NetKeys /\ new[o].key \in AllKeys
    BY <1>3, <1>4, RecordFields
  <2> QED BY <1>6, <2>1 DEF NetKeys
<1> HIDE DEF e
<1>8. net' \in Records /\ net'[o] = e /\ \A i \in Nets \ {o} : net'[i] = net[i]
  BY <1>2, <1>3, <1>7 DEF Records
<1>9. /\ \A y : \A i \in Nets : HasNet(net', i, y) <=> HasNet(net, i, y)
      /\ \A a : \A i \in Nets, j \in Apps : HasApp(net', i, j, a) <=> HasApp(net, i, j, a)
  BY <1>4, <1>5, <1>7, <1>8, NoneAssumption DEF HasNet, HasApp
<1>10. Unique(net')
  BY <1>3, <1>9 DEF Unique
<1>11. AppIndexes(net) \subseteq AppIndexes(net')
  BY <1>9, IndexesStay
<1>12. ~wiped => bound \subseteq AppIndexes(net')
  BY <1>1, <1>3, <1>11 DEF Bindings, MeshKeySave
<1>13. /\ Saving' /\ Uniques' /\ Bindings' /\ phase' = "storing"
       /\ durable' \in Records \cup {None} /\ par' \in Records
  BY <1>1, <1>8, <1>10, <1>12, SaveKeeps
<1>14. /\ new' \in Records /\ \A i \in Nets \ {o} : new'[i] = new[i] /\ keyPhase'[i] = keyPhase[i]
       /\ keyPhase' \in [Nets -> {NORMAL, PHASE1, PHASE2}] /\ keyPhase'[o] = NORMAL
  BY <1>1, <1>3 DEF Records
<1>15. Types'
  BY <1>1, <1>3, <1>8, <1>13, <1>14 DEF Types
<1>16. RefreshHasNewKey' /\ NoRefresh' /\ Deleting'
  BY <1>1, <1>3, <1>8, <1>13, <1>14 DEF RefreshHasNewKey, NoRefresh, Deleting
<1> QED BY <1>13, <1>15, <1>16 DEF KeyInv

-------------------------------------------------------------------------------
(* The invariant.                                                          *)

LEMMA InitKeyInv == Init => KeyInv
<1> SUFFICES ASSUME Init PROVE KeyInv
  OBVIOUS
<1>1. /\ durable \in Records \cup {None} /\ par = [i \in Nets |-> None]
      /\ phase = "off" /\ net = NoKeys /\ new = NoKeys
      /\ keyPhase = [i \in Nets |-> NORMAL] /\ bound = {} /\ deleting = None /\ durable = None
  BY DEF Init, Area!Init
<1>2. Types
  BY <1>1, NoKeysType DEF Types, NoKeys
<1>3. Unique(NoKeys)
  BY NoKeysType, Sizes, UniqueOne
<1>4. Saving /\ Uniques
  BY <1>1, <1>3 DEF Saving, KeysInFlash, Uniques
<1>5. RefreshHasNewKey /\ NoRefresh /\ Deleting /\ Bindings
  BY <1>1 DEF RefreshHasNewKey, NoRefresh, Deleting, Bindings
<1> QED BY <1>2, <1>4, <1>5 DEF KeyInv

LEMMA KeyStep == KeyInv /\ [Next]_vars => KeyInv'
<1> SUFFICES ASSUME KeyInv, [Next]_vars PROVE KeyInv'
  OBVIOUS
<1>1. CASE UNCHANGED vars
  BY <1>1 DEF vars, KeyInv, Types, Saving, KeysInFlash, Uniques, RefreshHasNewKey, NoRefresh, Deleting, Bindings
<1>2. CASE MeshKeyRetrieve \/ StoreCommit \/ StoreReturn \/ PowerLoss \/ ProvisionEnd
  BY <1>2, RetrieveKeeps, StoreKeeps, PowerLossKeeps, ProvisionEndKeeps
<1>3. ASSUME NEW x \in NetIdx, NetKeyDel(x) PROVE KeyInv'
  BY <1>3, NetKeyDelKeeps
<1>4. ASSUME NEW x \in NetIdx, NEW k \in Keys,
             MeshNetKeyAddByProvision(x, k) \/ NetKeyAdd(x, k) \/ NetKeyUpdate(x, k)
      PROVE  KeyInv'
  BY <1>4, ProvisionKeeps, NetKeyAddKeeps, NetKeyUpdateKeeps
<1>5. ASSUME NEW x \in NetIdx, NEW a \in AppIdx, AppKeyDel(x, a) PROVE KeyInv'
  BY <1>5, AppKeyDelKeeps
<1>6. ASSUME NEW x \in NetIdx, NEW a \in AppIdx, NEW k \in Keys,
             AppKeyAdd(x, a, k) \/ AppKeyUpdate(x, a, k)
      PROVE  KeyInv'
  BY <1>6, AppKeyAddKeeps, AppKeyUpdateKeeps
<1>7. CASE DelUnbind \/ DelAppKey \/ DelNetKey
  BY <1>7, DelUnbindKeeps, DelAppKeyKeeps, DelNetKeyKeeps
<1>8. ASSUME NEW a \in AppIdx, LibBind(a) PROVE KeyInv'
  BY <1>8, LibBindKeeps
<1>9. ASSUME NEW i \in Nets, LibPhase2(i) \/ LibPhase3(i) PROVE KeyInv'
  BY <1>9, LibPhase2Keeps, LibPhase3Keeps
<1> QED BY <1>1, <1>2, <1>3, <1>4, <1>5, <1>6, <1>7, <1>8, <1>9 DEF Next

\* KeyInv is inductive.
THEOREM Inductive == Spec => []KeyInv
  BY InitKeyInv, KeyStep, PTL DEF Spec

LEMMA TruthValues == Spec => [](proving \in BOOLEAN /\ provisioned \in BOOLEAN /\ wiped \in BOOLEAN)
<1> DEFINE Truth == proving \in BOOLEAN /\ provisioned \in BOOLEAN /\ wiped \in BOOLEAN
<1>1. Init => Truth
  BY DEF Init
<1>2. Truth /\ [Next]_vars => Truth'
  <2> SUFFICES ASSUME Truth, [Next]_vars PROVE Truth'
    OBVIOUS
  <2>1. CASE UNCHANGED <<proving, provisioned, wiped>>
    BY <2>1
  <2>2. CASE MeshKeyRetrieve
    BY <2>2 DEF MeshKeyRetrieve
  <2>3. CASE PowerLoss \/ ProvisionEnd
    BY <2>3 DEF PowerLoss, ProvisionEnd
  <2>4. ASSUME NEW x \in NetIdx, NEW k \in Keys, MeshNetKeyAddByProvision(x, k) PROVE Truth'
    BY <2>4 DEF MeshNetKeyAddByProvision
  <2> HIDE DEF Truth
  <2> QED BY <2>1, <2>2, <2>3, <2>4 DEF Next, vars, StoreCommit, StoreReturn,
         NetKeyDel, NetKeyAdd, NetKeyUpdate, AppKeyDel, AppKeyAdd, AppKeyUpdate,
         DelUnbind, DelAppKey, DelNetKey, LibBind, LibPhase2, LibPhase3
<1> QED BY <1>1, <1>2, PTL DEF Spec

\* The arrays, the records and the progress of a delete have their types: an
\* index is never searched outside the slots.
THEOREM TypeCorrect == Spec => []TypeOK
<1>1. KeyInv /\ (proving \in BOOLEAN /\ provisioned \in BOOLEAN /\ wiped \in BOOLEAN) => TypeOK
  BY DEF KeyInv, Types, TypeOK
<1> QED BY <1>1, Inductive, TruthValues, PTL

\* Every key index names one key, in any state: a search of mesh_node.c that
\* stops at the first match finds the only one.
THEOREM OneKeyPerIndex == Spec => []UniqueIndexes
<1>1. KeyInv => UniqueIndexes
  BY DEF KeyInv, Uniques, Unique, UniqueIndexes
<1> QED BY <1>1, Inductive, PTL

\* A network key in refresh has its successor in the second slot, with the
\* same index, whatever was deleted, provisioned or lost meanwhile.
THEOREM SuccessorIsThere == Spec => []RefreshHasNewKey
<1>1. KeyInv => RefreshHasNewKey
  BY DEF KeyInv
<1> QED BY <1>1, Inductive, PTL

\* A binding in flash names a key the node has, also when power is lost
\* between the steps of a delete.
THEOREM NoDanglingBinding == Spec => []BoundHasKey
<1>1. KeyInv => BoundHasKey
  BY DEF KeyInv, Bindings, BoundHasKey
<1> QED BY <1>1, Inductive, PTL

\* Between two commands the flash holds the keys in use.
THEOREM FlashHoldsKeys == Spec => []KeysInFlash
<1>1. KeyInv => KeysInFlash
  BY DEF KeyInv, Saving
<1> QED BY <1>1, Inductive, PTL
================================================================================
