------------------------------- MODULE MeshProofs -------------------------------
(***************************************************************************)
(* For any edges, any number of processes and runs, and any lost keys: a   *)
(* completed mesh authenticates, no run replaces a key it did not rotate,  *)
(* and a rerun changes nothing.                                            *)
(*                                                                         *)
(* A run is determined by its list and the keys it settled on when it      *)
(* started: what it has still to write is the end of that plan, what it    *)
(* wrote is on disk.  Two runs that overlap and do not clash have settled  *)
(* on the same plan, so that each writes what the other would.             *)
(***************************************************************************)
EXTENDS Mesh, TLAPS

Item == [file : Files, conf : Conf]

\* What a run of these edges writes with these keys: peer At(list, j) at j.
At(list, j) == IF j <= Len(list) THEN j ELSE 0
ConfOf(key, list, i) ==
  IF i = 0
  THEN [priv  |-> key[0], addr |-> 0,
        peers |-> {[host |-> list[k].host, pub |-> key[k], allowed |-> k] : k \in 1 .. Len(list)}]
  ELSE [priv  |-> key[i], addr |-> i,
        peers |-> {[host |-> Origin, pub |-> key[0], allowed |-> 0]}]
Plan(list, key) ==
  [j \in 1 .. Len(list) + 1 |->
     [file |-> PeerName(list, At(list, j)), conf |-> ConfOf(key, list, At(list, j))]]
KeySet(list) == [0 .. Len(list) -> Nat]

\* The plan's first k files are on disk.
Written(d, list, key, k) == \A j \in 1 .. k : d[Plan(list, key)[j].file] = Plan(list, key)[j].conf

\* The keys on disk, where there are any, and whether there are.
HoldsKey(d, f) == d[f] # Absent /\ d[f].priv # NoKey
Kept(d, list, key) ==
  \A i \in 0 .. Len(list) : HoldsKey(d, PeerName(list, i)) => d[PeerName(list, i)].priv = key[i]
AllHold(d, list) == \A i \in 0 .. Len(list) : HoldsKey(d, PeerName(list, i))

\* What a run has queued is the end of its plan, and its temp file is the next of it.
Left(list, q) == Len(list) + 1 - Len(q)
Queued(list, key, q, temp) ==
  /\ Len(q) <= Len(list) + 1
  /\ \A j \in 1 .. Len(q) : q[j] = Plan(list, key)[Left(list, q) + j]
  /\ temp = Absent \/ (q # << >> /\ temp = q[1].conf)

Meant(p, key) ==
  /\ Queued(edges[p], key, queue[p], staged[p])
  /\ ~clash[p] =>
       /\ Written(disk, edges[p], key, Left(edges[p], queue[p]))
       /\ ~rotate[p] => Kept(disk, edges[p], key)
       /\ full[p] => ~rotate[p] /\ AllHold(disk, edges[p])
       /\ rerun[p] => Written(disk, edges[p], key, Len(edges[p]) + 1)

TypeInv ==
  /\ disk \in [Files -> Conf \cup {Absent}]
  /\ pc \in [Runners -> {"idle", "write", "done", "failed"}]
  /\ edges \in [Runners -> EdgeLists \cup {<< >>}]
  /\ queue \in [Runners -> Seq(Item)]
  /\ staged \in [Runners -> Conf \cup {Absent}]
  /\ minted \in Nat
  /\ rotate \in [Runners -> BOOLEAN] /\ full \in [Runners -> BOOLEAN]
  /\ rerun \in [Runners -> BOOLEAN] /\ clash \in [Runners -> BOOLEAN]
  /\ \A p \in Runners :
       /\ pc[p] \in {"write", "done"} => edges[p] \in EdgeLists
       /\ pc[p] = "done" => queue[p] = << >>
       /\ pc[p] # "write" => staged[p] = Absent

WriteInv == \A p \in Writing : \E key \in KeySet(edges[p]) : Meant(p, key)

DoneInv ==
  \A p \in Runners : pc[p] = "done" /\ ~clash[p] =>
    \E key \in KeySet(edges[p]) : Written(disk, edges[p], key, Len(edges[p]) + 1)

\* A run that did not clash has company only of the same list and the same keys, or of
\* runs that write nothing more.
PairInv ==
  \A p \in Runners, q \in Writing :
    p # q /\ pc[p] \in {"write", "done"} /\ ~clash[p] /\ queue[q] # << >> =>
      edges[q] = edges[p] /\ full[q] /\ ~clash[q] /\ (full[p] \/ queue[p] = << >>)

IInv == TypeInv /\ WriteInv /\ DoneInv /\ PairInv

-----------------------------------------------------------------------------
(* Lists and plans.                                                        *)

\* A list names every peer of its own, in a file of its own.
LEMMA PeerNames ==
  ASSUME NEW list \in EdgeLists
  PROVE  /\ Len(list) \in Nat \ {0}
         /\ \A i \in 1 .. Len(list) : list[i].host \in Hosts /\ NameOf(list, i) \in Names
         /\ \A i \in 0 .. Len(list) : PeerName(list, i) \in Files
         /\ \A i, j \in 0 .. Len(list) : i # j => PeerName(list, i) # PeerName(list, j)
<1>1. list \in Seq(Edge) /\ Len(list) \in 1 .. Len(Numbered)
  BY EdgeListsAssumption
<1>2. Len(list) \in Nat \ {0} /\ Len(Numbered) \in Nat
  BY <1>1, MeshAssumption
<1>3. \A i \in 1 .. Len(list) : list[i] \in Edge /\ Numbered[i] \in Names
  BY <1>1, <1>2, MeshAssumption
<1>4. \A i \in 1 .. Len(list) : list[i].host \in Hosts /\ NameOf(list, i) \in Names
  BY <1>3, MeshAssumption DEF NameOf, Edge
<1>5. \A i \in 0 .. Len(list) : i # 0 => i \in 1 .. Len(list)
  BY <1>2
<1>6. \A i \in 0 .. Len(list) : PeerName(list, i) \in Files
  BY <1>4, <1>5 DEF PeerName, Files
<1>7. \A i, j \in 1 .. Len(list) : i # j => NameOf(list, i) # NameOf(list, j)
  BY EdgeListsAssumption
<1>8. \A i \in 1 .. Len(list) : NameOf(list, i) # Origin
  BY <1>4, MeshAssumption
<1>9. \A i, j \in 0 .. Len(list) : i # j => PeerName(list, i) # PeerName(list, j)
  BY <1>5, <1>7, <1>8 DEF PeerName
<1> QED BY <1>2, <1>4, <1>6, <1>9

\* Every peer has its place in a plan.
LEMMA Places ==
  ASSUME NEW list \in EdgeLists
  PROVE  /\ \A j \in 1 .. Len(list) + 1 : At(list, j) \in 0 .. Len(list)
         /\ \A j, k \in 1 .. Len(list) + 1 : At(list, j) = At(list, k) => j = k
         /\ \A i \in 0 .. Len(list) : \E j \in 1 .. Len(list) + 1 : At(list, j) = i
<1>1. Len(list) \in Nat \ {0}
  BY PeerNames
<1>2. \A j \in 1 .. Len(list) + 1 : At(list, j) \in 0 .. Len(list)
  BY <1>1 DEF At
<1>3. \A j, k \in 1 .. Len(list) + 1 : At(list, j) = At(list, k) => j = k
  BY <1>1 DEF At
<1>4. ASSUME NEW i \in 0 .. Len(list)
      PROVE  \E j \in 1 .. Len(list) + 1 : At(list, j) = i
  <2>1. CASE i = 0
    <3>1. Len(list) + 1 \in 1 .. Len(list) + 1 /\ At(list, Len(list) + 1) = 0
      BY <1>1 DEF At
    <3> QED BY <3>1, <2>1
  <2>2. CASE i # 0
    <3>1. i \in 1 .. Len(list) + 1 /\ At(list, i) = i
      BY <1>1, <2>2 DEF At
    <3> QED BY <3>1
  <2> QED BY <2>1, <2>2
<1> QED BY <1>2, <1>3, <1>4

\* The configs of a plan are of their type and hold the keys of the plan.
LEMMA Configs ==
  ASSUME NEW list \in EdgeLists, NEW key \in KeySet(list), NEW i \in 0 .. Len(list)
  PROVE  ConfOf(key, list, i) \in Conf /\ ConfOf(key, list, i).priv = key[i]
<1>1. Len(list) \in Nat \ {0} /\ \A k \in 1 .. Len(list) : list[k].host \in Hosts
  BY PeerNames
<1>2. key[i] \in Nat /\ key[0] \in Nat /\ \A k \in 1 .. Len(list) : key[k] \in Nat /\ k \in Nat
  BY <1>1 DEF KeySet
<1>3. CASE i = 0
  <2>1. {[host |-> list[k].host, pub |-> key[k], allowed |-> k] : k \in 1 .. Len(list)} \subseteq Peer
    BY <1>1, <1>2 DEF Peer, Keys
  <2> QED BY <1>2, <1>3, <2>1 DEF ConfOf, Conf, Keys
<1>4. CASE i # 0
  <2>1. {[host |-> Origin, pub |-> key[0], allowed |-> 0]} \subseteq Peer
    BY <1>2 DEF Peer, Keys
  <2> QED BY <1>2, <1>4, <2>1 DEF ConfOf, Conf, Keys
<1> QED BY <1>3, <1>4

\* A plan is a sequence of items, one for every peer.
LEMMA Plans ==
  ASSUME NEW list \in EdgeLists, NEW key \in KeySet(list)
  PROVE  /\ Plan(list, key) \in Seq(Item) /\ Len(Plan(list, key)) = Len(list) + 1
         /\ \A j \in 1 .. Len(list) + 1 :
              /\ Plan(list, key)[j].file = PeerName(list, At(list, j))
              /\ Plan(list, key)[j].conf = ConfOf(key, list, At(list, j))
              /\ Plan(list, key)[j].file \in Files /\ Plan(list, key)[j].conf \in Conf
              /\ Plan(list, key)[j].conf.priv = key[At(list, j)]
         /\ \A j, k \in 1 .. Len(list) + 1 :
              Plan(list, key)[j].file = Plan(list, key)[k].file => j = k
<1>1. Len(list) \in Nat \ {0}
  BY PeerNames
<1>2. \A j \in 1 .. Len(list) + 1 :
        /\ Plan(list, key)[j].file = PeerName(list, At(list, j))
        /\ Plan(list, key)[j].conf = ConfOf(key, list, At(list, j))
  BY DEF Plan
<1>3. \A j \in 1 .. Len(list) + 1 :
        /\ PeerName(list, At(list, j)) \in Files /\ ConfOf(key, list, At(list, j)) \in Conf
        /\ ConfOf(key, list, At(list, j)).priv = key[At(list, j)]
  BY Places, PeerNames, Configs
<1>4. \A j \in 1 .. Len(list) + 1 : Plan(list, key)[j] \in Item
  BY <1>3 DEF Plan, Item
<1>5. Plan(list, key) \in Seq(Item) /\ Len(Plan(list, key)) = Len(list) + 1
  BY <1>1, <1>4 DEF Plan
<1>6. \A j, k \in 1 .. Len(list) + 1 :
        Plan(list, key)[j].file = Plan(list, key)[k].file => j = k
  BY <1>2, Places, PeerNames
<1> QED BY <1>2, <1>3, <1>5, <1>6

\* What GenerateWireGuard makes of loaded keys is a plan, with the keys loaded where there
\* are any.
LEMMA ArtifactsArePlans ==
  ASSUME TypeInv, NEW list \in EdgeLists,
         NEW keys, keys = LoadKeys(disk) \/ keys = LoadNothing(disk), Parses(keys, list)
  PROVE  LET key == [i \in 0 .. Len(list) |-> KeyFor(keys, list, i)] IN
         /\ key \in KeySet(list)
         /\ Artifacts(keys, list) = Plan(list, key)
         /\ keys = LoadKeys(disk) => Kept(disk, list, key)
<1> DEFINE key == [i \in 0 .. Len(list) |-> KeyFor(keys, list, i)]
<1>1. Len(list) \in Nat \ {0} /\ \A i \in 0 .. Len(list) : PeerName(list, i) \in Files
  BY PeerNames
<1>2. ASSUME NEW i \in 0 .. Len(list)
      PROVE  KeyFor(keys, list, i) \in Nat
  <2>1. CASE PeerName(list, i) \in DOMAIN keys
    <3>1. keys = LoadKeys(disk)
      BY <2>1 DEF LoadNothing
    <3>2. disk[PeerName(list, i)] # Absent /\ disk[PeerName(list, i)].priv # NoKey
          /\ keys[PeerName(list, i)] = disk[PeerName(list, i)].priv
      BY <2>1, <3>1 DEF LoadKeys
    <3>3. disk[PeerName(list, i)] \in Conf
      BY <3>2, <1>1 DEF TypeInv
    <3>4. keys[PeerName(list, i)] # BadKey
      BY <2>1 DEF Parses
    <3> QED BY <2>1, <3>2, <3>3, <3>4 DEF Conf, Keys, KeyFor
  <2>2. CASE PeerName(list, i) \notin DOMAIN keys
    BY <2>2, <1>1 DEF KeyFor, TypeInv
  <2> QED BY <2>1, <2>2
<1>3. key \in KeySet(list)
  BY <1>2 DEF KeySet
<1>4. Artifacts(keys, list) = Plan(list, key)
  <2>1. \A i \in 0 .. Len(list) : key[i] = KeyFor(keys, list, i)
    OBVIOUS
  <2>2. key[0] = KeyFor(keys, list, 0) /\ \A i \in 1 .. Len(list) : key[i] = KeyFor(keys, list, i)
    BY <2>1, <1>1
  <2> HIDE DEF key
  <2>3. {[host |-> list[k].host, pub |-> key[k], allowed |-> k] : k \in 1 .. Len(list)}
          = {[host |-> list[i].host, pub |-> KeyFor(keys, list, i), allowed |-> i] : i \in 1 .. Len(list)}
    BY <2>2
  <2>4. ConfOf(key, list, 0) = OriginConf(keys, list)
    BY <2>2, <2>3 DEF ConfOf, OriginConf
  <2>5. \A i \in 1 .. Len(list) : ConfOf(key, list, i) = EdgeConf(keys, list, i)
    <3> TAKE i \in 1 .. Len(list)
    <3>1. i # 0 /\ key[i] = KeyFor(keys, list, i) /\ key[0] = KeyFor(keys, list, 0)
      BY <2>2, <1>1
    <3> QED BY <3>1 DEF ConfOf, EdgeConf
  <2>6. PeerName(list, 0) = Origin /\ \A i \in 1 .. Len(list) : PeerName(list, i) = NameOf(list, i)
    BY <1>1 DEF PeerName
  <2> DEFINE item(j) == IF j <= Len(list)
                        THEN [file |-> NameOf(list, j), conf |-> EdgeConf(keys, list, j)]
                        ELSE [file |-> Origin, conf |-> OriginConf(keys, list)]
  <2>7. \A j \in 1 .. Len(list) + 1 :
          [file |-> PeerName(list, At(list, j)), conf |-> ConfOf(key, list, At(list, j))] = item(j)
    <3> TAKE j \in 1 .. Len(list) + 1
    <3>1. CASE j <= Len(list)
      <4>1. j \in 1 .. Len(list) /\ At(list, j) = j
        BY <3>1, <1>1 DEF At
      <4> QED BY <3>1, <4>1, <2>5, <2>6
    <3>2. CASE ~(j <= Len(list))
      BY <3>2, <2>4, <2>6 DEF At
    <3> QED BY <3>1, <3>2
  <2>8. Artifacts(keys, list) = [j \in 1 .. Len(list) + 1 |-> item(j)]
    BY DEF Artifacts
  <2> HIDE DEF item
  <2> QED BY <2>7, <2>8 DEF Plan
<1>5. ASSUME keys = LoadKeys(disk)
      PROVE  Kept(disk, list, key)
  <2>1. ASSUME NEW i \in 0 .. Len(list), HoldsKey(disk, PeerName(list, i))
        PROVE  disk[PeerName(list, i)].priv = key[i]
    <3>1. PeerName(list, i) \in DOMAIN keys /\ keys[PeerName(list, i)] = disk[PeerName(list, i)].priv
      BY <1>1, <1>5, <2>1 DEF LoadKeys, HoldsKey
    <3> QED BY <3>1 DEF KeyFor
  <2> QED BY <2>1 DEF Kept
<1> QED BY <1>3, <1>4, <1>5

\* A plan that is on disk has its keys there.
LEMMA WrittenKeeps ==
  ASSUME NEW list \in EdgeLists, NEW key \in KeySet(list), Written(disk, list, key, Len(list) + 1)
  PROVE  Kept(disk, list, key) /\ AllHold(disk, list)
<1>1. ASSUME NEW i \in 0 .. Len(list)
      PROVE  HoldsKey(disk, PeerName(list, i)) /\ disk[PeerName(list, i)].priv = key[i]
  <2>1. PICK j \in 1 .. Len(list) + 1 : At(list, j) = i
    BY Places
  <2>2. disk[PeerName(list, i)] = Plan(list, key)[j].conf
    BY <2>1, Plans DEF Written
  <2>3. Plan(list, key)[j].conf \in Conf /\ Plan(list, key)[j].conf.priv = key[i]
    BY <2>1, Plans
  <2>4. key[i] \in Nat
    BY DEF KeySet
  <2> QED BY <2>2, <2>3, <2>4, MeshAssumption DEF HoldsKey, Keys
<1> QED BY <1>1 DEF Kept, AllHold

\* Keys that are all on disk are the same for whoever keeps them.
LEMMA KeysAgree ==
  ASSUME NEW list \in EdgeLists, NEW a \in KeySet(list), NEW b \in KeySet(list),
         Kept(disk, list, a), Kept(disk, list, b), AllHold(disk, list)
  PROVE  a = b
<1>1. \A i \in 0 .. Len(list) : a[i] = b[i]
  BY DEF Kept, AllHold
<1> QED BY <1>1 DEF KeySet

\* How many files of a list are written, by what is left in the queue.
LEMMA Counts ==
  ASSUME NEW list, NEW q, Len(list) \in Nat, Len(q) \in Nat, Len(q) <= Len(list) + 1
  PROVE  /\ Left(list, q) \in 0 .. Len(list) + 1 /\ Len(list) + 1 \in 0 .. Len(list) + 1
         /\ Len(q) # 0 => Left(list, q) + 1 \in 1 .. Len(list) + 1
         /\ \A r : Len(r) = Len(q) - 1 => Left(list, r) = Left(list, q) + 1
<1> DEFINE n == Len(list)
           m == Len(q)
<1>1. n \in Nat /\ m \in Nat /\ m <= n + 1
  OBVIOUS
<1>2. Left(list, q) = n + 1 - m /\ Len(list) = n /\ Len(q) = m
  BY DEF Left
<1>3. \A r : Len(r) = m - 1 => Left(list, r) = n + 1 - (m - 1)
  BY DEF Left
<1> HIDE DEF n, m
<1>4. n + 1 - m \in 0 .. n + 1 /\ n + 1 \in 0 .. n + 1 /\ (m # 0 => n + 1 - m + 1 \in 1 .. n + 1)
      /\ n + 1 - (m - 1) = n + 1 - m + 1
  BY <1>1
<1> QED BY <1>2, <1>3, <1>4

\* The rename of one file of a plan, as everyone sees it who has settled on this plan.
LEMMA Landing ==
  ASSUME TypeInv, NEW list \in EdgeLists, NEW key \in KeySet(list), NEW j \in 1 .. Len(list) + 1,
         disk' = [disk EXCEPT ![Plan(list, key)[j].file] = Plan(list, key)[j].conf]
  PROVE  /\ \A k \in 0 .. Len(list) + 1 : Written(disk, list, key, k) => Written(disk', list, key, k)
         /\ Written(disk, list, key, j - 1) => Written(disk', list, key, j)
         /\ Kept(disk, list, key) => Kept(disk', list, key)
         /\ AllHold(disk, list) => AllHold(disk', list)
         /\ Kept(disk, list, key) =>
              \A f \in Files : HoldsKey(disk, f) => HoldsKey(disk', f) /\ disk'[f].priv = disk[f].priv
<1>1. Len(list) \in Nat \ {0}
  BY PeerNames
<1> DEFINE here == Plan(list, key)[j].file
           conf == Plan(list, key)[j].conf
<1>2. here \in Files /\ conf \in Conf /\ conf.priv = key[At(list, j)] /\ key[At(list, j)] \in Nat
      /\ here = PeerName(list, At(list, j)) /\ At(list, j) \in 0 .. Len(list)
  BY Plans, Places DEF KeySet
<1>3. disk'[here] = conf /\ \A f \in Files : f # here => disk'[f] = disk[f]
  BY <1>2 DEF TypeInv
<1>4. HoldsKey(disk', here) /\ disk'[here].priv = key[At(list, j)]
  BY <1>2, <1>3, MeshAssumption DEF HoldsKey, Keys
<1> HIDE DEF here, conf
<1>5. \A k \in 1 .. Len(list) + 1 :
        disk'[Plan(list, key)[k].file] = IF k = j THEN Plan(list, key)[k].conf
                                          ELSE disk[Plan(list, key)[k].file]
  <2>1. \A k \in 1 .. Len(list) + 1 : Plan(list, key)[k].file \in Files
    BY Plans
  <2>2. \A k \in 1 .. Len(list) + 1 : k # j => Plan(list, key)[k].file # here
    BY Plans DEF here
  <2> QED BY <1>3, <2>1, <2>2 DEF here, conf
<1>6. \A k \in 0 .. Len(list) + 1 : Written(disk, list, key, k) => Written(disk', list, key, k)
  BY <1>1, <1>5 DEF Written
<1>7. Written(disk, list, key, j - 1) => Written(disk', list, key, j)
  BY <1>1, <1>5 DEF Written
<1>8. \A i \in 0 .. Len(list) :
        PeerName(list, i) \in Files /\ (PeerName(list, i) = here => i = At(list, j))
  BY <1>2, PeerNames
<1>9. Kept(disk, list, key) => Kept(disk', list, key)
  BY <1>3, <1>4, <1>8 DEF Kept, HoldsKey
<1>10. AllHold(disk, list) => AllHold(disk', list)
  BY <1>3, <1>4, <1>8 DEF AllHold, HoldsKey
<1>11. ASSUME Kept(disk, list, key), NEW f \in Files, HoldsKey(disk, f)
       PROVE  HoldsKey(disk', f) /\ disk'[f].priv = disk[f].priv
  <2>1. CASE f = here
    BY <2>1, <1>2, <1>4, <1>11 DEF Kept
  <2>2. CASE f # here
    BY <2>2, <1>3, <1>11 DEF HoldsKey
  <2> QED BY <2>1, <2>2
<1> QED BY <1>6, <1>7, <1>9, <1>10, <1>11

-----------------------------------------------------------------------------
(* The invariant.                                                          *)

\* What a run means to write is as it was when neither it nor the disk changes.
LEMMA MeantStays ==
  ASSUME NEW r, NEW key, Meant(r, key), disk' = disk, edges'[r] = edges[r], queue'[r] = queue[r],
         staged'[r] = staged[r], rotate'[r] = rotate[r], full'[r] = full[r], rerun'[r] = rerun[r],
         clash[r] => clash'[r]
  PROVE  Meant(r, key)'
BY DEF Meant

\* Nothing is on disk and nobody runs.
LEMMA InitInv == Init => IInv
<1> SUFFICES ASSUME Init PROVE IInv
  OBVIOUS
<1>1. TypeInv
  BY DEF Init, TypeInv
<1>2. Writing = {} /\ \A p \in Runners : pc[p] # "done"
  BY DEF Init, Writing
<1> QED BY <1>1, <1>2 DEF IInv, WriteInv, DoneInv, PairInv

\* A run starts with a plan of which nothing is written; it or its company clashes unless
\* they agree.
LEMMA PrepareInv ==
  ASSUME IInv, NEW p \in Runners, NEW list \in EdgeLists, NEW rotating \in BOOLEAN,
         Prepare(p, list, rotating)
  PROVE  IInv'
<1> DEFINE keys == IF rotating THEN LoadNothing(disk) ELSE LoadKeys(disk)
           keeps == ~rotating /\ AllOnDisk(list)
           disagree == {q \in Writing : ~Agree(q, list, keeps)}
           again == ~rotating /\ \E q \in Runners :
                      /\ pc[q] = "done" \/ (pc[q] = "write" /\ rerun[q])
                      /\ list = edges[q] /\ ~clash[q]
<1>1. TypeInv /\ WriteInv /\ DoneInv /\ PairInv
  BY DEF IInv
<1>2. /\ pc[p] # "write" /\ staged[p] = Absent
      /\ edges' = [edges EXCEPT ![p] = list] /\ rotate' = [rotate EXCEPT ![p] = rotating]
      /\ rerun' = [rerun EXCEPT ![p] = again] /\ full' = [full EXCEPT ![p] = keeps]
      /\ UNCHANGED <<disk, staged>>
  BY <1>1 DEF Prepare, TypeInv
<1>3. Len(list) \in Nat \ {0} /\ \A i \in 0 .. Len(list) : PeerName(list, i) \in Files
  BY PeerNames
<1>4. again \in BOOLEAN /\ keeps \in BOOLEAN
  BY DEF AllOnDisk
<1>5. \A q \in Runners : q # p =>
        /\ edges'[q] = edges[q] /\ rotate'[q] = rotate[q] /\ rerun'[q] = rerun[q]
        /\ full'[q] = full[q] /\ staged'[q] = staged[q]
  BY <1>1, <1>2 DEF TypeInv
<1>6. /\ edges'[p] = list /\ rotate'[p] = rotating /\ full'[p] = keeps /\ rerun'[p] = again
      /\ staged'[p] = Absent
  BY <1>1, <1>2 DEF TypeInv
<1>7. CASE Parses(keys, list)
  <2>1. /\ queue' = [queue EXCEPT ![p] = Artifacts(keys, list)]
        /\ minted' = minted + Len(list) + 1
        /\ pc' = [q \in Runners |-> IF q = p THEN "write"
                                    ELSE IF pc[q] = "done" THEN "idle" ELSE pc[q]]
        /\ clash' = [q \in Runners |-> IF q = p THEN \E r \in disagree : queue[r] # << >>
                                       ELSE clash[q] \/ q \in disagree]
    BY <1>7 DEF Prepare
  <2>2. PICK key \in KeySet(list) : /\ Artifacts(keys, list) = Plan(list, key)
                                    /\ ~rotating => Kept(disk, list, key)
    BY <1>1, <1>7, ArtifactsArePlans
  <2> HIDE DEF keys
  <2>3. Plan(list, key) \in Seq(Item) /\ Len(Plan(list, key)) = Len(list) + 1
    BY <2>2, Plans
  <2>4. queue'[p] = Plan(list, key) /\ \A q \in Runners : q # p => queue'[q] = queue[q]
    BY <1>1, <2>1, <2>2 DEF TypeInv
  <2>5. Writing' = Writing \cup {p} /\ p \notin Writing
    BY <1>2, <2>1 DEF Writing
  <2>6. \A q \in Runners : pc'[q] # "done" /\ (q # p /\ pc'[q] = "write" => pc[q] = "write")
    BY <2>1
  <2>7. \A q \in Writing : (clash[q] => clash'[q]) /\ (~clash'[q] => q \notin disagree)
    BY <2>1, <2>5 DEF Writing
  <2>8. TypeInv'
    <3>1. minted' \in Nat
      BY <1>1, <1>3, <2>1 DEF TypeInv
    <3>2. queue' \in [Runners -> Seq(Item)]
      BY <1>1, <2>1, <2>2, <2>3 DEF TypeInv
    <3>3. pc' \in [Runners -> {"idle", "write", "done", "failed"}] /\ clash' \in [Runners -> BOOLEAN]
      BY <1>1, <2>1 DEF TypeInv
    <3>4. /\ edges' \in [Runners -> EdgeLists \cup {<< >>}] /\ rotate' \in [Runners -> BOOLEAN]
          /\ full' \in [Runners -> BOOLEAN] /\ rerun' \in [Runners -> BOOLEAN]
          /\ disk' \in [Files -> Conf \cup {Absent}] /\ staged' \in [Runners -> Conf \cup {Absent}]
      <4> HIDE DEF again, keeps
      <4> QED BY <1>1, <1>2, <1>4 DEF TypeInv
    <3>5. \A q \in Runners :
            /\ pc'[q] \in {"write", "done"} => edges'[q] \in EdgeLists
            /\ pc'[q] = "done" => queue'[q] = << >>
            /\ pc'[q] # "write" => staged'[q] = Absent
      <4> TAKE q \in Runners
      <4>1. CASE q = p
        BY <4>1, <1>6, <2>1
      <4>2. CASE q # p
        BY <4>2, <1>1, <1>5, <2>1, <2>6 DEF TypeInv
      <4> QED BY <4>1, <4>2
    <3> QED BY <3>1, <3>2, <3>3, <3>4, <3>5 DEF TypeInv
  <2>9. Meant(p, key)'
    <3>1. Left(list, queue'[p]) = 0 /\ Len(queue'[p]) = Len(list) + 1 /\ queue'[p] # << >>
      BY <1>3, <2>3, <2>4 DEF Left
    <3>2. Queued(list, key, queue'[p], Absent)
      <4>1. \A j \in 1 .. Len(queue'[p]) : queue'[p][j] = Plan(list, key)[0 + j]
        BY <1>3, <2>4, <3>1
      <4> QED BY <1>3, <3>1, <4>1 DEF Queued
    <3>3. Written(disk, list, key, Left(list, queue'[p]))
      BY <3>1 DEF Written
    <3>4. disk' = disk
      BY <1>2
    <3>6. keeps => ~rotating /\ AllHold(disk, list)
      BY <1>1, <1>3, MeshAssumption DEF AllHold, HoldsKey, AllOnDisk, TypeInv, Keys
    <3>7. again => Written(disk, list, key, Len(list) + 1)
      <4> SUFFICES ASSUME again PROVE Written(disk, list, key, Len(list) + 1)
        OBVIOUS
      <4>1. PICK q \in Runners : /\ pc[q] = "done" \/ (pc[q] = "write" /\ rerun[q])
                                 /\ list = edges[q] /\ ~clash[q]
        OBVIOUS
      <4>2. PICK k \in KeySet(list) : Written(disk, list, k, Len(list) + 1)
        <5>1. CASE pc[q] = "done"
          BY <1>1, <4>1, <5>1 DEF DoneInv
        <5>2. CASE pc[q] = "write" /\ rerun[q]
          <6>1. q \in Writing
            BY <5>2 DEF Writing
          <6>2. PICK k \in KeySet(list) : Meant(q, k)
            BY <1>1, <4>1, <6>1 DEF WriteInv
          <6> QED BY <4>1, <5>2, <6>2 DEF Meant
        <5> QED BY <4>1, <5>1, <5>2
      <4>3. Kept(disk, list, k) /\ AllHold(disk, list)
        BY <4>2, WrittenKeeps
      <4>4. k = key
        BY <2>2, <4>2, <4>3, KeysAgree
      <4> QED BY <4>2, <4>4
    <3> HIDE DEF again, keeps
    <3> QED BY <1>6, <2>2, <3>2, <3>3, <3>4, <3>6, <3>7 DEF Meant
  <2>10. WriteInv'
    <3> SUFFICES ASSUME NEW q \in Writing' PROVE \E k \in KeySet(edges'[q]) : Meant(q, k)'
      BY DEF WriteInv
    <3>1. CASE q = p
      BY <3>1, <1>6, <2>2, <2>9 DEF Meant
    <3>2. CASE q # p
      <4>1. q \in Writing /\ q \in Runners
        BY <3>2, <2>5 DEF Writing
      <4>2. PICK k \in KeySet(edges[q]) : Meant(q, k)
        BY <1>1, <4>1 DEF WriteInv
      <4>3. Meant(q, k)'
        BY <1>2, <1>5, <2>4, <2>7, <3>2, <4>1, <4>2, MeantStays
      <4> QED BY <1>5, <3>2, <4>1, <4>2, <4>3
    <3> QED BY <3>1, <3>2
  <2>11. DoneInv'
    BY <2>6 DEF DoneInv
  <2>12. PairInv'
    <3> SUFFICES ASSUME NEW q \in Runners, NEW r \in Writing', q # r, pc'[q] \in {"write", "done"},
                        ~clash'[q], queue'[r] # << >>
                 PROVE  edges'[r] = edges'[q] /\ full'[r] /\ ~clash'[r] /\ (full'[q] \/ queue'[q] = << >>)
      BY DEF PairInv
    <3>1. CASE q = p
      <4>1. r \in Writing /\ r \in Runners /\ queue[r] # << >>
        BY <3>1, <2>4, <2>5 DEF Writing
      <4>2. r \notin disagree
        BY <3>1, <4>1, <2>1
      <4>3. Agree(r, list, keeps)
        BY <4>1, <4>2
      <4>4. clash'[r] = clash[r]
        BY <2>1, <3>1, <4>1, <4>2, <1>1 DEF TypeInv
      <4> HIDE DEF keeps
      <4> QED BY <1>5, <1>6, <3>1, <4>1, <4>3, <4>4 DEF Agree
    <3>2. CASE r = p
      <4>1. q \in Writing
        BY <2>6, <3>2 DEF Writing
      <4>2. Agree(q, list, keeps) /\ ~clash[q]
        BY <2>7, <4>1 DEF Agree
      <4>3. ASSUME NEW t \in disagree PROVE queue[t] = << >>
        <5> SUFFICES ASSUME queue[t] # << >> PROVE FALSE
          OBVIOUS
        <5>1. t \in Writing /\ t # q
          BY <2>7, <4>1
        <5>2. edges[t] = edges[q] /\ full[t] /\ ~clash[t]
          BY <1>1, <4>1, <4>2, <5>1 DEF PairInv, Writing
        <5> HIDE DEF keeps
        <5> QED BY <4>2, <4>3, <5>2 DEF Agree
      <4>4. ~clash'[p]
        BY <2>1, <4>3
      <4> HIDE DEF keeps
      <4> QED BY <1>5, <1>6, <2>4, <3>2, <4>2, <4>4 DEF Agree
    <3>3. CASE q # p /\ r # p
      <4>1. q \in Writing /\ r \in Writing /\ r \in Runners
        BY <2>5, <2>6, <3>3 DEF Writing
      <4>2. ~clash[q] /\ q \notin disagree
        BY <2>7, <4>1
      <4>3. edges[r] = edges[q] /\ full[r] /\ ~clash[r] /\ (full[q] \/ queue[q] = << >>)
        BY <1>1, <2>4, <3>3, <4>1, <4>2 DEF PairInv, Writing
      <4>4. r \notin disagree
        <5> HIDE DEF keeps
        <5> QED BY <4>1, <4>2, <4>3 DEF Agree
      <4>5. ~clash'[r]
        BY <2>1, <3>3, <4>1, <4>3, <4>4
      <4> QED BY <1>5, <2>4, <3>3, <4>1, <4>3, <4>5
    <3> QED BY <3>1, <3>2, <3>3
  <2> QED BY <2>8, <2>10, <2>11, <2>12 DEF IInv
<1>8. CASE ~Parses(keys, list)
  <2>1. pc' = [pc EXCEPT ![p] = "failed"] /\ UNCHANGED <<queue, minted, clash>>
    BY <1>8 DEF Prepare
  <2>2. pc'[p] = "failed" /\ \A q \in Runners : q # p => pc'[q] = pc[q]
    BY <1>1, <2>1 DEF TypeInv
  <2>3. Writing' = Writing /\ p \notin Writing
    BY <1>2, <2>2 DEF Writing
  <2>4. TypeInv'
    <3>1. /\ edges' \in [Runners -> EdgeLists \cup {<< >>}] /\ rotate' \in [Runners -> BOOLEAN]
          /\ full' \in [Runners -> BOOLEAN] /\ rerun' \in [Runners -> BOOLEAN]
          /\ disk' \in [Files -> Conf \cup {Absent}] /\ staged' \in [Runners -> Conf \cup {Absent}]
      <4> HIDE DEF again, keeps
      <4> QED BY <1>1, <1>2, <1>4 DEF TypeInv
    <3>2. /\ pc' \in [Runners -> {"idle", "write", "done", "failed"}]
          /\ clash' \in [Runners -> BOOLEAN] /\ queue' \in [Runners -> Seq(Item)] /\ minted' \in Nat
      BY <1>1, <2>1 DEF TypeInv
    <3>3. \A q \in Runners :
            /\ pc'[q] \in {"write", "done"} => edges'[q] \in EdgeLists
            /\ pc'[q] = "done" => queue'[q] = << >>
            /\ pc'[q] # "write" => staged'[q] = Absent
      BY <1>1, <1>5, <1>6, <2>1, <2>2 DEF TypeInv
    <3> QED BY <3>1, <3>2, <3>3 DEF TypeInv
  <2>5. WriteInv'
    <3> SUFFICES ASSUME NEW q \in Writing' PROVE \E k \in KeySet(edges'[q]) : Meant(q, k)'
      BY DEF WriteInv
    <3>1. q \in Writing /\ q \in Runners /\ q # p
      BY <2>3 DEF Writing
    <3>2. PICK k \in KeySet(edges[q]) : Meant(q, k)
      BY <1>1, <3>1 DEF WriteInv
    <3>3. Meant(q, k)'
      BY <1>2, <1>5, <2>1, <3>1, <3>2, MeantStays
    <3> QED BY <1>5, <3>1, <3>2, <3>3
  <2>6. DoneInv'
    <3> SUFFICES ASSUME NEW q \in Runners, pc'[q] = "done", ~clash'[q]
                 PROVE  \E k \in KeySet(edges'[q]) : Written(disk', edges'[q], k, Len(edges'[q]) + 1)
      BY DEF DoneInv
    <3>1. q # p /\ pc[q] = "done" /\ ~clash[q] /\ edges'[q] = edges[q]
      BY <1>5, <2>1, <2>2
    <3>2. PICK k \in KeySet(edges[q]) : Written(disk, edges[q], k, Len(edges[q]) + 1)
      BY <1>1, <3>1 DEF DoneInv
    <3>3. Written(disk', edges'[q], k, Len(edges'[q]) + 1)
      BY <1>2, <3>1, <3>2
    <3> QED BY <3>1, <3>2, <3>3
  <2>7. PairInv'
    BY <1>1, <1>5, <2>1, <2>2, <2>3 DEF PairInv, Writing
  <2> QED BY <2>4, <2>5, <2>6, <2>7 DEF IInv
<1> QED BY <1>7, <1>8

\* A temp file holds the next of the plan.
LEMMA StageInv ==
  ASSUME IInv, NEW p \in Runners, Stage(p)
  PROVE  IInv'
<1>1. TypeInv /\ WriteInv /\ DoneInv /\ PairInv
  BY DEF IInv
<1>2. /\ pc[p] = "write" /\ queue[p] # << >>
      /\ staged' = [staged EXCEPT ![p] = Head(queue[p]).conf]
      /\ UNCHANGED <<disk, pc, edges, rotate, queue, minted, rerun, full, clash>>
  BY DEF Stage
<1>3. queue[p] \in Seq(Item) /\ Head(queue[p]) = queue[p][1] /\ queue[p][1] \in Item
  BY <1>1, <1>2 DEF TypeInv
<1>4. Writing' = Writing
  BY <1>2 DEF Writing
<1>5. staged'[p] = queue[p][1].conf /\ \A q \in Runners : q # p => staged'[q] = staged[q]
  BY <1>1, <1>2, <1>3 DEF TypeInv
<1>6. TypeInv'
  <2>1. queue[p][1].conf \in Conf
    BY <1>3 DEF Item
  <2>2. staged' \in [Runners -> Conf \cup {Absent}]
    BY <1>1, <1>2, <1>3, <2>1 DEF TypeInv
  <2> QED BY <1>1, <1>2, <1>5, <2>2 DEF TypeInv
<1>7. WriteInv'
  <2> SUFFICES ASSUME NEW q \in Writing PROVE \E key \in KeySet(edges'[q]) : Meant(q, key)'
    BY <1>4 DEF WriteInv
  <2>1. PICK key \in KeySet(edges[q]) : Meant(q, key)
    BY <1>1 DEF WriteInv
  <2>2. CASE q = p
    BY <1>2, <1>5, <2>1, <2>2 DEF Meant, Queued
  <2>3. CASE q # p
    BY <1>2, <1>5, <2>1, <2>3 DEF Meant, Writing
  <2> QED BY <2>2, <2>3
<1>8. DoneInv' /\ PairInv'
  BY <1>1, <1>2, <1>4 DEF DoneInv, PairInv
<1> QED BY <1>6, <1>7, <1>8 DEF IInv

\* The file a run renames is the next of its plan; whoever did not clash has the same plan.
LEMMA Renames ==
  ASSUME IInv, NEW p \in Runners, Publish(p)
  PROVE  \E key \in KeySet(edges[p]), j \in 1 .. Len(edges[p]) + 1 :
           /\ Meant(p, key) /\ j = Left(edges[p], queue[p]) + 1 /\ Len(queue[p]) \in Nat \ {0}
           /\ disk' = [disk EXCEPT ![Plan(edges[p], key)[j].file] = Plan(edges[p], key)[j].conf]
           /\ \A r \in Runners : \A k \in KeySet(edges[r]) :
                /\ r # p /\ ~clash[r]
                /\ \/ pc[r] = "write" /\ Meant(r, k)
                   \/ pc[r] = "done" /\ Written(disk, edges[r], k, Len(edges[r]) + 1)
                => edges[r] = edges[p] /\ k = key
<1>1. TypeInv /\ WriteInv /\ DoneInv /\ PairInv
  BY DEF IInv
<1>2. /\ pc[p] = "write" /\ staged[p] # Absent /\ p \in Writing
      /\ disk' = [disk EXCEPT ![Head(queue[p]).file] = staged[p]]
  BY DEF Publish, Writing
<1>3. edges[p] \in EdgeLists /\ Len(edges[p]) \in Nat \ {0} /\ queue[p] \in Seq(Item)
  BY <1>1, <1>2, PeerNames DEF TypeInv
<1>4. PICK key \in KeySet(edges[p]) : Meant(p, key)
  BY <1>1, <1>2 DEF WriteInv
<1>5. /\ Len(queue[p]) <= Len(edges[p]) + 1 /\ queue[p] # << >> /\ staged[p] = queue[p][1].conf
      /\ \A j \in 1 .. Len(queue[p]) : queue[p][j] = Plan(edges[p], key)[Left(edges[p], queue[p]) + j]
  BY <1>2, <1>4 DEF Meant, Queued
<1>6. Len(queue[p]) \in Nat \ {0} /\ Head(queue[p]) = queue[p][1]
  BY <1>3, <1>5
<1> DEFINE j == Left(edges[p], queue[p]) + 1
<1>7. j \in 1 .. Len(edges[p]) + 1
  <2>1. Len(queue[p]) <= Len(edges[p]) + 1
    BY <1>5
  <2> QED BY <1>3, <1>6, <2>1, Counts
<1>8. queue[p][1] = Plan(edges[p], key)[j]
  BY <1>5, <1>6
<1>9. disk' = [disk EXCEPT ![Plan(edges[p], key)[j].file] = Plan(edges[p], key)[j].conf]
  BY <1>2, <1>5, <1>6, <1>8
<1>10. ASSUME NEW r \in Runners, NEW k \in KeySet(edges[r]), r # p, ~clash[r],
              \/ pc[r] = "write" /\ Meant(r, k)
              \/ pc[r] = "done" /\ Written(disk, edges[r], k, Len(edges[r]) + 1)
       PROVE  edges[r] = edges[p] /\ k = key
  <2>1. edges[r] = edges[p] /\ full[p] /\ ~clash[p] /\ (full[r] \/ queue[r] = << >>)
    BY <1>1, <1>2, <1>5, <1>10 DEF PairInv
  <2>2. Kept(disk, edges[p], key) /\ AllHold(disk, edges[p])
    BY <1>4, <2>1 DEF Meant
  <2>3. Kept(disk, edges[p], k)
    <3>1. CASE pc[r] = "write" /\ full[r]
      BY <1>10, <2>1, <3>1 DEF Meant
    <3>2. CASE pc[r] = "write" /\ queue[r] = << >>
      <4>1. Left(edges[r], queue[r]) = Len(edges[r]) + 1
        BY <1>3, <2>1, <3>2 DEF Left
      <4>2. Written(disk, edges[p], k, Len(edges[p]) + 1)
        BY <1>10, <2>1, <3>2, <4>1 DEF Meant
      <4> QED BY <1>3, <1>10, <2>1, <4>2, WrittenKeeps
    <3>3. CASE pc[r] = "done"
      BY <1>3, <1>10, <2>1, <3>3, WrittenKeeps
    <3> QED BY <1>10, <2>1, <3>1, <3>2, <3>3
  <2> QED BY <1>3, <1>10, <2>1, <2>2, <2>3, KeysAgree
<1> HIDE DEF j
<1>11. j = Left(edges[p], queue[p]) + 1
  BY DEF j
<1> QED BY <1>4, <1>6, <1>7, <1>9, <1>10, <1>11

\* The rename takes a run one file further; the others with its plan find what they had
\* written as it was.
LEMMA PublishInv ==
  ASSUME IInv, NEW p \in Runners, Publish(p)
  PROVE  IInv'
<1>1. TypeInv /\ WriteInv /\ DoneInv /\ PairInv
  BY DEF IInv
<1>2. /\ pc[p] = "write" /\ p \in Writing
      /\ queue' = [queue EXCEPT ![p] = Tail(@)] /\ staged' = [staged EXCEPT ![p] = Absent]
      /\ UNCHANGED <<pc, edges, rotate, minted, rerun, full, clash>>
  BY DEF Publish, Writing
<1>3. PICK key \in KeySet(edges[p]), j \in 1 .. Len(edges[p]) + 1 :
        /\ Meant(p, key) /\ j = Left(edges[p], queue[p]) + 1 /\ Len(queue[p]) \in Nat \ {0}
        /\ disk' = [disk EXCEPT ![Plan(edges[p], key)[j].file] = Plan(edges[p], key)[j].conf]
        /\ \A r \in Runners : \A k \in KeySet(edges[r]) :
             /\ r # p /\ ~clash[r]
             /\ \/ pc[r] = "write" /\ Meant(r, k)
                \/ pc[r] = "done" /\ Written(disk, edges[r], k, Len(edges[r]) + 1)
             => edges[r] = edges[p] /\ k = key
  BY Renames
<1>4. edges[p] \in EdgeLists /\ Len(edges[p]) \in Nat \ {0} /\ queue[p] \in Seq(Item)
  BY <1>1, <1>2, PeerNames DEF TypeInv
<1>5. /\ \A k \in 0 .. Len(edges[p]) + 1 : Written(disk, edges[p], key, k) => Written(disk', edges[p], key, k)
      /\ Written(disk, edges[p], key, j - 1) => Written(disk', edges[p], key, j)
      /\ Kept(disk, edges[p], key) => Kept(disk', edges[p], key)
      /\ AllHold(disk, edges[p]) => AllHold(disk', edges[p])
  BY <1>1, <1>3, <1>4, Landing
<1>6. Tail(queue[p]) \in Seq(Item) /\ Len(Tail(queue[p])) = Len(queue[p]) - 1
      /\ \A m \in 1 .. Len(queue[p]) - 1 : Tail(queue[p])[m] = queue[p][m + 1]
  <2>1. queue[p] # << >>
    BY <1>3
  <2> QED BY <1>4, <2>1
<1>7. /\ queue'[p] = Tail(queue[p]) /\ staged'[p] = Absent
      /\ \A q \in Runners : q # p => queue'[q] = queue[q] /\ staged'[q] = staged[q]
  BY <1>1, <1>2 DEF TypeInv
<1>8. Writing' = Writing
  BY <1>2 DEF Writing
<1>9. TypeInv'
  <2>1. disk' \in [Files -> Conf \cup {Absent}]
    <3>1. Plan(edges[p], key)[j].conf \in Conf
      BY <1>3, <1>4, Plans
    <3> QED BY <1>1, <1>3, <3>1 DEF TypeInv
  <2>2. queue' \in [Runners -> Seq(Item)] /\ staged' \in [Runners -> Conf \cup {Absent}]
    BY <1>1, <1>2, <1>6 DEF TypeInv
  <2>3. \A q \in Runners :
          /\ pc'[q] \in {"write", "done"} => edges'[q] \in EdgeLists
          /\ pc'[q] = "done" => queue'[q] = << >>
          /\ pc'[q] # "write" => staged'[q] = Absent
    BY <1>1, <1>2, <1>7 DEF TypeInv
  <2> QED BY <1>1, <1>2, <2>1, <2>2, <2>3 DEF TypeInv
<1>10. Meant(p, key)'
  <2>1. Len(queue'[p]) = Len(queue[p]) - 1 /\ Left(edges[p], queue'[p]) = j
    <3>1. Len(queue[p]) <= Len(edges[p]) + 1
      BY <1>3 DEF Meant, Queued
    <3>2. Len(queue'[p]) = Len(queue[p]) - 1
      BY <1>6, <1>7
    <3>3. Left(edges[p], queue'[p]) = Left(edges[p], queue[p]) + 1
      BY <1>3, <1>4, <3>1, <3>2, Counts
    <3> QED BY <1>3, <3>2, <3>3
  <2>2. Queued(edges[p], key, queue'[p], staged'[p])
    <3>1. /\ Len(queue[p]) <= Len(edges[p]) + 1
          /\ \A m \in 1 .. Len(queue[p]) : queue[p][m] = Plan(edges[p], key)[j - 1 + m]
      <4>1. Left(edges[p], queue[p]) = j - 1
        BY <1>3, <1>4 DEF Left
      <4> QED BY <1>3, <4>1 DEF Meant, Queued
    <3>2. ASSUME NEW m \in 1 .. Len(queue'[p])
          PROVE  queue'[p][m] = Plan(edges[p], key)[j + m]
      <4>1. m \in 1 .. Len(queue[p]) - 1 /\ m + 1 \in 1 .. Len(queue[p]) /\ j - 1 + (m + 1) = j + m
        BY <1>3, <2>1
      <4>2. queue'[p][m] = queue[p][m + 1]
        BY <1>6, <1>7, <4>1
      <4>3. queue[p][m + 1] = Plan(edges[p], key)[j - 1 + (m + 1)]
        BY <3>1, <4>1
      <4> QED BY <4>1, <4>2, <4>3
    <3>3. Len(queue'[p]) <= Len(edges[p]) + 1
      BY <1>3, <1>4, <2>1, <3>1
    <3> QED BY <1>7, <2>1, <3>2, <3>3 DEF Queued
  <2>3. Len(edges[p]) + 1 \in 0 .. Len(edges[p]) + 1 /\ j - 1 = Left(edges[p], queue[p])
    BY <1>3, <1>4 DEF Left
  <2> QED BY <1>2, <1>3, <1>5, <2>1, <2>2, <2>3 DEF Meant
<1>11. WriteInv'
  <2> SUFFICES ASSUME NEW q \in Writing PROVE \E k \in KeySet(edges'[q]) : Meant(q, k)'
    BY <1>8 DEF WriteInv
  <2>1. CASE q = p
    BY <1>2, <1>10, <2>1 DEF Meant
  <2>2. CASE q # p
    <3>1. PICK k \in KeySet(edges[q]) : Meant(q, k)
      BY <1>1 DEF WriteInv
    <3>2. q \in Runners /\ pc[q] = "write" /\ edges[q] \in EdgeLists
      BY <1>1 DEF Writing, TypeInv
    <3>3. CASE clash[q]
      BY <1>2, <1>7, <2>2, <3>1, <3>2, <3>3 DEF Meant
    <3>4. CASE ~clash[q]
      <4>1. edges[q] = edges[p] /\ k = key
        BY <1>3, <2>2, <3>1, <3>2, <3>4
      <4>2. Left(edges[q], queue[q]) \in 0 .. Len(edges[p]) + 1
            /\ Len(edges[p]) + 1 \in 0 .. Len(edges[p]) + 1
        <5>1. Len(queue[q]) \in Nat /\ Len(queue[q]) <= Len(edges[p]) + 1
          BY <1>1, <3>1, <3>2, <4>1 DEF Meant, Queued, TypeInv
        <5> QED BY <1>4, <4>1, <5>1, Counts
      <4> QED BY <1>2, <1>5, <1>7, <2>2, <3>1, <3>2, <4>1, <4>2 DEF Meant
    <3> QED BY <3>3, <3>4
  <2> QED BY <2>1, <2>2
<1>12. DoneInv'
  <2> SUFFICES ASSUME NEW q \in Runners, pc[q] = "done", ~clash[q]
               PROVE  \E k \in KeySet(edges[q]) : Written(disk', edges[q], k, Len(edges[q]) + 1)
    BY <1>2 DEF DoneInv
  <2>1. PICK k \in KeySet(edges[q]) : Written(disk, edges[q], k, Len(edges[q]) + 1)
    BY <1>1 DEF DoneInv
  <2>2. edges[q] = edges[p] /\ k = key
    BY <1>2, <1>3, <2>1
  <2>3. Len(edges[p]) + 1 \in 0 .. Len(edges[p]) + 1
    BY <1>4
  <2> QED BY <1>5, <2>1, <2>2, <2>3
<1>13. PairInv'
  <2>1. queue[p] # << >>
    BY <1>3
  <2> SUFFICES ASSUME NEW q \in Runners, NEW r \in Writing, q # r, pc[q] \in {"write", "done"},
                      ~clash[q], queue'[r] # << >>
               PROVE  edges[r] = edges[q] /\ full[r] /\ ~clash[r] /\ (full[q] \/ queue'[q] = << >>)
    BY <1>2, <1>8 DEF PairInv
  <2>2. queue[r] # << >>
    BY <1>7, <2>1 DEF Writing
  <2>3. edges[r] = edges[q] /\ full[r] /\ ~clash[r] /\ (full[q] \/ queue[q] = << >>)
    BY <1>1, <2>2 DEF PairInv
  <2> QED BY <1>7, <2>1, <2>3
<1> QED BY <1>9, <1>11, <1>12, <1>13 DEF IInv

\* A run whose queue is empty has its whole plan on disk.
LEMMA FinishInv ==
  ASSUME IInv, NEW p \in Runners, Finish(p)
  PROVE  IInv'
<1>1. TypeInv /\ WriteInv /\ DoneInv /\ PairInv
  BY DEF IInv
<1>2. /\ pc[p] = "write" /\ queue[p] = << >> /\ p \in Writing /\ pc' = [pc EXCEPT ![p] = "done"]
      /\ UNCHANGED <<disk, edges, rotate, queue, staged, minted, rerun, full, clash>>
  BY DEF Finish, Writing
<1>3. pc'[p] = "done" /\ \A q \in Runners : q # p => pc'[q] = pc[q]
  BY <1>1, <1>2 DEF TypeInv
<1>4. \A q \in Writing' : q \in Writing /\ q \in Runners /\ q # p
  BY <1>3 DEF Writing
<1>5. PICK key \in KeySet(edges[p]) : Meant(p, key)
  BY <1>1, <1>2 DEF WriteInv
<1>6. edges[p] \in EdgeLists /\ Len(edges[p]) \in Nat \ {0}
  BY <1>1, <1>2, PeerNames DEF TypeInv
<1>7. TypeInv'
  <2>1. staged[p] = Absent
    BY <1>2, <1>5 DEF Meant, Queued
  <2>2. pc' \in [Runners -> {"idle", "write", "done", "failed"}]
    BY <1>1, <1>2 DEF TypeInv
  <2>3. \A q \in Runners :
          /\ pc'[q] \in {"write", "done"} => edges'[q] \in EdgeLists
          /\ pc'[q] = "done" => queue'[q] = << >>
          /\ pc'[q] # "write" => staged'[q] = Absent
    BY <1>1, <1>2, <1>3, <1>6, <2>1 DEF TypeInv
  <2> QED BY <1>1, <1>2, <2>2, <2>3 DEF TypeInv
<1>8. WriteInv'
  BY <1>1, <1>2, <1>4 DEF WriteInv, Meant
<1>9. DoneInv'
  <2> SUFFICES ASSUME NEW q \in Runners, pc'[q] = "done", ~clash[q]
               PROVE  \E k \in KeySet(edges[q]) : Written(disk, edges[q], k, Len(edges[q]) + 1)
    BY <1>2 DEF DoneInv
  <2>1. CASE q = p
    <3>1. Left(edges[p], queue[p]) = Len(edges[p]) + 1
      BY <1>2, <1>6 DEF Left
    <3> QED BY <1>5, <2>1, <3>1 DEF Meant
  <2>2. CASE q # p
    BY <1>1, <1>3, <2>2 DEF DoneInv
  <2> QED BY <2>1, <2>2
<1>10. PairInv'
  BY <1>1, <1>2, <1>3, <1>4 DEF PairInv
<1> QED BY <1>7, <1>8, <1>9, <1>10 DEF IInv

\* A run that stops leaves its queue to nobody.
LEMMA InterruptInv ==
  ASSUME IInv, NEW p \in Runners, Interrupt(p)
  PROVE  IInv'
<1>1. TypeInv /\ WriteInv /\ DoneInv /\ PairInv
  BY DEF IInv
<1>2. /\ pc[p] = "write" /\ pc' = [pc EXCEPT ![p] = "failed"]
      /\ queue' = [queue EXCEPT ![p] = << >>] /\ staged' = [staged EXCEPT ![p] = Absent]
      /\ UNCHANGED <<disk, edges, rotate, minted, rerun, full, clash>>
  BY DEF Interrupt
<1>3. /\ pc'[p] = "failed" /\ queue'[p] = << >> /\ staged'[p] = Absent
      /\ \A q \in Runners : q # p => pc'[q] = pc[q] /\ queue'[q] = queue[q] /\ staged'[q] = staged[q]
  BY <1>1, <1>2 DEF TypeInv
<1>4. \A q \in Writing' : q \in Writing /\ q \in Runners /\ q # p
  BY <1>3 DEF Writing
<1>5. TypeInv'
  <2>1. /\ pc' \in [Runners -> {"idle", "write", "done", "failed"}]
        /\ queue' \in [Runners -> Seq(Item)] /\ staged' \in [Runners -> Conf \cup {Absent}]
    BY <1>1, <1>2 DEF TypeInv
  <2>2. \A q \in Runners :
          /\ pc'[q] \in {"write", "done"} => edges'[q] \in EdgeLists
          /\ pc'[q] = "done" => queue'[q] = << >>
          /\ pc'[q] # "write" => staged'[q] = Absent
    BY <1>1, <1>2, <1>3 DEF TypeInv
  <2> QED BY <1>1, <1>2, <2>1, <2>2 DEF TypeInv
<1>6. WriteInv'
  <2> SUFFICES ASSUME NEW q \in Writing' PROVE \E k \in KeySet(edges'[q]) : Meant(q, k)'
    BY DEF WriteInv
  <2>1. PICK k \in KeySet(edges[q]) : Meant(q, k)
    BY <1>1, <1>4 DEF WriteInv
  <2> QED BY <1>2, <1>3, <1>4, <2>1 DEF Meant
<1>7. DoneInv'
  BY <1>1, <1>2, <1>3 DEF DoneInv
<1>8. PairInv'
  BY <1>1, <1>2, <1>3, <1>4 DEF PairInv
<1> QED BY <1>5, <1>6, <1>7, <1>8 DEF IInv

\* A key is lost while nobody writes, and no run counts as completed after that.
LEMMA DamageInv ==
  ASSUME IInv, NEW f \in Files, Damage(f)
  PROVE  IInv'
<1>1. TypeInv
  BY DEF IInv
<1>2. /\ Writing = {} /\ disk[f] # Absent
      /\ \E lost \in {NoKey, BadKey} : disk' = [disk EXCEPT ![f].priv = lost]
      /\ pc' = [p \in Runners |-> "idle"]
      /\ UNCHANGED <<edges, rotate, queue, staged, minted, rerun, full, clash>>
  BY DEF Damage
<1>3. Writing' = {} /\ \A p \in Runners : pc'[p] = "idle" /\ staged[p] = Absent
  BY <1>1, <1>2 DEF Writing, TypeInv
<1>4. disk' \in [Files -> Conf \cup {Absent}]
  <2>1. PICK lost \in {NoKey, BadKey} : disk' = [disk EXCEPT ![f].priv = lost]
    BY <1>2
  <2>2. disk[f] \in Conf
    BY <1>1, <1>2 DEF TypeInv
  <2>3. [disk[f] EXCEPT !.priv = lost] \in Conf
    BY <2>2 DEF Conf
  <2> QED BY <1>1, <2>1, <2>3 DEF TypeInv
<1>5. TypeInv'
  BY <1>1, <1>2, <1>3, <1>4 DEF TypeInv
<1> QED BY <1>3, <1>5 DEF IInv, WriteInv, DoneInv, PairInv

\* What a deployment changes, or a stuttering step, is none of this.
LEMMA SameInv ==
  ASSUME IInv, UNCHANGED <<disk, pc, edges, rotate, queue, staged, minted, rerun, full, clash>>
  PROVE  IInv'
<1>1. TypeInv' /\ Writing' = Writing
  BY DEF IInv, TypeInv, Writing
<1> QED BY <1>1 DEF IInv, WriteInv, DoneInv, PairInv, Meant

\* In every reachable state a run has a plan it follows, completed runs are on disk, and
\* overlapping runs of one plan have company of that plan only.
THEOREM MeshInvariant == Spec => []IInv
<1>1. Init => IInv
  BY InitInv
<1>2. IInv /\ [Next]_vars => IInv'
  <2> SUFFICES ASSUME IInv, [Next]_vars PROVE IInv'
    OBVIOUS
  <2>1. CASE UNCHANGED vars
    BY <2>1, SameInv DEF vars
  <2>2. ASSUME NEW p \in Runners, NEW list \in EdgeLists, NEW rotating \in BOOLEAN,
               Prepare(p, list, rotating)
        PROVE  IInv'
    BY <2>2, PrepareInv
  <2>3. ASSUME NEW p \in Runners, Stage(p)
        PROVE  IInv'
    BY <2>3, StageInv
  <2>4. ASSUME NEW p \in Runners, Publish(p)
        PROVE  IInv'
    BY <2>4, PublishInv
  <2>5. ASSUME NEW p \in Runners, Finish(p)
        PROVE  IInv'
    BY <2>5, FinishInv
  <2>6. ASSUME NEW p \in Runners, Interrupt(p)
        PROVE  IInv'
    BY <2>6, InterruptInv
  <2>7. ASSUME NEW p \in Runners, NEW host \in Hosts \cup {Origin}, NEW f \in Files, Deploy(p, host, f)
        PROVE  IInv'
    BY <2>7, SameInv DEF Deploy
  <2>8. ASSUME NEW f \in Files, Damage(f)
        PROVE  IInv'
    BY <2>8, DamageInv
  <2> QED BY <2>1, <2>2, <2>3, <2>4, <2>5, <2>6, <2>7, <2>8 DEF Next
<1> QED BY <1>1, <1>2, PTL DEF Spec

-----------------------------------------------------------------------------
(* The properties.                                                         *)

\* Both ends of every tunnel of a completed run have each other's key: they come from
\* one plan.
THEOREM MeshCompletedAuthenticates == Spec => []CompletedMeshAuthenticates
<1>1. IInv => CompletedMeshAuthenticates
  <2> SUFFICES ASSUME IInv, NEW p \in Runners, pc[p] = "done", ~clash[p],
                      NEW i \in 1 .. Len(edges[p])
               PROVE  Linked(disk[NameOf(edges[p], i)], disk[Origin], edges[p][i].host)
    BY DEF CompletedMeshAuthenticates
  <2>1. edges[p] \in EdgeLists
    BY DEF IInv, TypeInv
  <2>2. PICK key \in KeySet(edges[p]) : Written(disk, edges[p], key, Len(edges[p]) + 1)
    BY DEF IInv, DoneInv
  <2>3. ASSUME NEW k \in 0 .. Len(edges[p])
        PROVE  disk[PeerName(edges[p], k)] = ConfOf(key, edges[p], k)
    <3>1. PICK j \in 1 .. Len(edges[p]) + 1 : At(edges[p], j) = k
      BY <2>1, Places
    <3> QED BY <2>1, <2>2, <3>1, Plans DEF Written
  <2>4. i \in 0 .. Len(edges[p]) /\ 0 \in 0 .. Len(edges[p]) /\ i # 0
    BY <2>1, PeerNames
  <2>5. disk[NameOf(edges[p], i)] = ConfOf(key, edges[p], i) /\ disk[Origin] = ConfOf(key, edges[p], 0)
    BY <2>3, <2>4 DEF PeerName
  <2> QED BY <2>4, <2>5 DEF Linked, ConfOf
<1> QED BY <1>1, MeshInvariant, PTL

\* What a run renames holds the key that was on disk, if it kept the keys and nobody
\* with other ones was at work.
THEOREM MeshRunsKeepKeys == Spec => RunsKeepKeys
<1> DEFINE Keeping == Writing # {} /\ (\A p \in Writing : ~rotate[p] /\ ~clash[p]) =>
                        \A f \in Files : disk[f] # Absent /\ disk[f].priv # NoKey =>
                          disk'[f] # Absent /\ disk'[f].priv = disk[f].priv
<1>1. IInv /\ [Next]_vars => [Keeping]_vars
  <2> SUFFICES ASSUME IInv, Next, Writing # {}, \A p \in Writing : ~rotate[p] /\ ~clash[p],
                      NEW f \in Files, disk[f] # Absent, disk[f].priv # NoKey
               PROVE  disk'[f] # Absent /\ disk'[f].priv = disk[f].priv
    OBVIOUS
  <2>1. CASE disk' = disk
    BY <2>1
  <2>2. ASSUME NEW p \in Runners, Publish(p)
        PROVE  disk'[f] # Absent /\ disk'[f].priv = disk[f].priv
    <3>1. PICK key \in KeySet(edges[p]), j \in 1 .. Len(edges[p]) + 1 :
            /\ Meant(p, key)
            /\ disk' = [disk EXCEPT ![Plan(edges[p], key)[j].file] = Plan(edges[p], key)[j].conf]
      BY <2>2, Renames
    <3>2. p \in Writing /\ edges[p] \in EdgeLists /\ TypeInv
      BY <2>2 DEF Publish, Writing, IInv, TypeInv
    <3>3. Kept(disk, edges[p], key)
      BY <3>1, <3>2 DEF Meant
    <3> QED BY <3>1, <3>2, <3>3, Landing DEF HoldsKey
  <2> QED BY <2>1, <2>2 DEF Next, Prepare, Stage, Finish, Interrupt, Deploy, Damage
<1> QED BY <1>1, MeshInvariant, PTL DEF Spec, RunsKeepKeys

\* What a run that repeats a completed one renames is on disk already.
THEOREM MeshRerunsAreIdentical == Spec => RerunsAreIdentical
<1> DEFINE Same == Writing # {} /\ (\A p \in Writing : rerun[p] /\ ~clash[p]) => disk' = disk
<1>1. IInv /\ [Next]_vars => [Same]_disk
  <2> SUFFICES ASSUME IInv, Next, Writing # {}, \A p \in Writing : rerun[p] /\ ~clash[p]
               PROVE  disk' = disk
    BY DEF vars
  <2>1. ASSUME NEW p \in Runners, Publish(p)
        PROVE  disk' = disk
    <3>1. PICK key \in KeySet(edges[p]), j \in 1 .. Len(edges[p]) + 1 :
            /\ Meant(p, key)
            /\ disk' = [disk EXCEPT ![Plan(edges[p], key)[j].file] = Plan(edges[p], key)[j].conf]
      BY <2>1, Renames
    <3>2. p \in Writing /\ edges[p] \in EdgeLists /\ TypeInv
      BY <2>1 DEF Publish, Writing, IInv, TypeInv
    <3>3. disk[Plan(edges[p], key)[j].file] = Plan(edges[p], key)[j].conf
      BY <3>1, <3>2 DEF Meant, Written
    <3> QED BY <3>1, <3>2, <3>3 DEF TypeInv
  <2> QED BY <2>1 DEF Next, Prepare, Stage, Finish, Interrupt, Deploy, Damage
<1> QED BY <1>1, MeshInvariant, PTL DEF Spec, RerunsAreIdentical

-----------------------------------------------------------------------------
(* Deployed tunnels.                                                       *)

\* An endpoint keeps its name and its position in every list: what the operator has to
\* see to when the mesh grows or shrinks.
KeepsPlaces ==
  \A a, b \in EdgeLists : \A i \in 1 .. Len(a), j \in 1 .. Len(b) :
    a[i].host = b[j].host => i = j /\ NameOf(a, i) = NameOf(b, j)

\* These keys are on disk, and whoever writes at the moment writes none but them.
Secured(d, writers, q, list, key) ==
  \A j \in 0 .. Len(list) :
    /\ HoldsKey(d, PeerName(list, j)) /\ d[PeerName(list, j)].priv = key[j]
    /\ \A p \in writers : \A n \in 1 .. Len(q[p]) :
         q[p][n].file = PeerName(list, j) => q[p][n].conf.priv = key[j]

\* Peer i of a list runs at a host.
RunsAt(list, i, host) == host = IF i = 0 THEN Origin ELSE list[i].host

\* What was deployed in this era from a run that did not clash is of a plan whose keys are
\* secured.
EraInv ==
  \A h \in Hosts \cup {Origin} :
    deployed[h] # Absent /\ deployed[h].era = era /\ ~deployed[h].clash =>
      \E list \in EdgeLists : \E key \in KeySet(list) : \E i \in 0 .. Len(list) :
        /\ RunsAt(list, i, h) /\ deployed[h].conf = ConfOf(key, list, i)
        /\ Secured(disk, Writing, queue, list, key)

DeployedType ==
  /\ era \in Nat
  /\ deployed \in [Hosts \cup {Origin} ->
                     [conf : Conf \cup {Absent}, era : Nat, clash : BOOLEAN] \cup {Absent}]
  /\ \A h \in Hosts \cup {Origin} : deployed[h] # Absent => deployed[h].era <= era

DeployedInv == DeployedType /\ EraInv

\* Keys stay secured when writers leave and nobody else writes more.
LEMMA SecuredStays ==
  ASSUME NEW d, NEW w, NEW q, NEW list, NEW key, Secured(d, w, q, list, key),
         NEW v, NEW r, v \subseteq w, \A p \in v : r[p] = q[p]
  PROVE  Secured(d, v, r, list, key)
BY DEF Secured

\* A run that does not rotate starts with the secured keys.
LEMMA PrepareSecures ==
  ASSUME IInv, NEW p \in Runners, NEW own \in EdgeLists, Prepare(p, own, FALSE),
         NEW list \in EdgeLists, NEW key \in KeySet(list), Secured(disk, Writing, queue, list, key)
  PROVE  Secured(disk', Writing', queue', list, key)
<1>1. TypeInv /\ disk' = disk /\ pc[p] # "write"
  BY DEF IInv, Prepare
<1> DEFINE keys == LoadKeys(disk)
<1>2. CASE Parses(keys, own)
  <2>1. /\ queue' = [queue EXCEPT ![p] = Artifacts(keys, own)]
        /\ pc' = [q \in Runners |-> IF q = p THEN "write"
                                    ELSE IF pc[q] = "done" THEN "idle" ELSE pc[q]]
    BY <1>2 DEF Prepare
  <2>2. PICK new \in KeySet(own) : Artifacts(keys, own) = Plan(own, new) /\ Kept(disk, own, new)
    BY <1>1, <1>2, ArtifactsArePlans
  <2>3. queue'[p] = Plan(own, new) /\ \A q \in Writing : q # p /\ queue'[q] = queue[q]
    BY <1>1, <2>1, <2>2 DEF TypeInv, Writing
  <2>4. Writing' = Writing \cup {p}
    BY <1>1, <2>1 DEF Writing
  <2>5. ASSUME NEW j \in 0 .. Len(list), NEW n \in 1 .. Len(queue'[p]),
               queue'[p][n].file = PeerName(list, j)
        PROVE  queue'[p][n].conf.priv = key[j]
    <3>1. n \in 1 .. Len(own) + 1 /\ At(own, n) \in 0 .. Len(own)
      BY <2>3, Plans, Places
    <3>2. PeerName(own, At(own, n)) = PeerName(list, j) /\ queue'[p][n].conf.priv = new[At(own, n)]
      BY <2>3, <2>5, <3>1, Plans
    <3>3. disk[PeerName(list, j)].priv = new[At(own, n)]
      BY <2>2, <3>1, <3>2 DEF Kept, Secured
    <3> QED BY <3>2, <3>3 DEF Secured
  <2> QED BY <1>1, <2>3, <2>4, <2>5 DEF Secured
<1>3. CASE ~Parses(keys, own)
  <2>1. pc' = [pc EXCEPT ![p] = "failed"] /\ queue' = queue
    BY <1>3 DEF Prepare
  <2>2. Writing' \subseteq Writing
    BY <1>1, <2>1 DEF Writing, TypeInv
  <2> QED BY <1>1, <2>1, <2>2, SecuredStays
<1> QED BY <1>2, <1>3

\* A rename of a secured key's file puts the same key there.
LEMMA PublishSecures ==
  ASSUME IInv, NEW p \in Runners, Publish(p),
         NEW list \in EdgeLists, NEW key \in KeySet(list), Secured(disk, Writing, queue, list, key)
  PROVE  Secured(disk', Writing', queue', list, key)
<1>1. TypeInv /\ WriteInv
  BY DEF IInv
<1>2. /\ pc[p] = "write" /\ staged[p] # Absent /\ p \in Writing /\ UNCHANGED pc
      /\ disk' = [disk EXCEPT ![Head(queue[p]).file] = staged[p]]
      /\ queue' = [queue EXCEPT ![p] = Tail(@)]
  BY DEF Publish, Writing
<1>3. queue[p] # << >> /\ staged[p] = queue[p][1].conf
  BY <1>1, <1>2 DEF WriteInv, Meant, Queued
<1>4. queue[p] \in Seq(Item) /\ Head(queue[p]) = queue[p][1] /\ 1 \in 1 .. Len(queue[p])
  BY <1>1, <1>3 DEF TypeInv
<1>5. queue[p][1].file \in Files /\ staged[p] \in Conf
  <2>1. queue[p][1] \in Item
    BY <1>4
  <2>2. staged[p] \in Conf \cup {Absent}
    BY <1>1 DEF TypeInv
  <2> QED BY <1>2, <2>1, <2>2 DEF Item
<1>6. \A f \in Files : disk'[f] = IF f = queue[p][1].file THEN staged[p] ELSE disk[f]
  BY <1>1, <1>2, <1>4, <1>5 DEF TypeInv
<1>7. Writing' = Writing
  BY <1>2 DEF Writing
<1>8. /\ Len(queue'[p]) = Len(queue[p]) - 1 /\ Len(queue[p]) \in Nat
      /\ \A n \in 1 .. Len(queue[p]) - 1 : queue'[p][n] = queue[p][n + 1]
      /\ \A q \in Runners : q # p => queue'[q] = queue[q]
  BY <1>1, <1>2, <1>3, <1>4 DEF TypeInv
<1>9. ASSUME NEW j \in 0 .. Len(list)
      PROVE  HoldsKey(disk', PeerName(list, j)) /\ disk'[PeerName(list, j)].priv = key[j]
  <2>1. PeerName(list, j) \in Files /\ key[j] \in Nat
    BY PeerNames DEF KeySet
  <2>2. CASE PeerName(list, j) = queue[p][1].file
    <3>1. staged[p].priv = key[j]
      BY <1>2, <1>3, <1>4, <2>2 DEF Secured
    <3> QED BY <1>2, <1>6, <2>1, <2>2, <3>1, MeshAssumption DEF HoldsKey, Keys
  <2>3. CASE PeerName(list, j) # queue[p][1].file
    BY <1>6, <2>1, <2>3 DEF Secured, HoldsKey
  <2> QED BY <2>2, <2>3
<1>10. ASSUME NEW j \in 0 .. Len(list), NEW q \in Writing, NEW n \in 1 .. Len(queue'[q]),
              queue'[q][n].file = PeerName(list, j)
       PROVE  queue'[q][n].conf.priv = key[j]
  <2>1. q \in Runners
    BY DEF Writing
  <2>2. CASE q = p
    <3>1. n \in 1 .. Len(queue[p]) - 1 /\ n + 1 \in 1 .. Len(queue[p])
      BY <1>8, <2>2
    <3>2. queue'[p][n] = queue[p][n + 1]
      BY <1>8, <3>1
    <3>3. queue[p][n + 1].file = PeerName(list, j)
      BY <1>10, <2>2, <3>2
    <3>4. queue[p][n + 1].conf.priv = key[j]
      BY <1>2, <3>1, <3>3 DEF Secured
    <3> QED BY <2>2, <3>2, <3>4
  <2>3. CASE q # p
    BY <1>8, <1>10, <2>1, <2>3 DEF Secured
  <2> QED BY <2>2, <2>3
<1> QED BY <1>7, <1>9, <1>10 DEF Secured

\* A deployment is of a plan that is on disk, while nobody writes.
LEMMA DeploySecures ==
  ASSUME IInv, NEW p \in Runners, NEW host \in Hosts \cup {Origin}, NEW f \in Files,
         Deploy(p, host, f), ~clash[p]
  PROVE  \E list \in EdgeLists : \E key \in KeySet(list) : \E i \in 0 .. Len(list) :
           /\ RunsAt(list, i, host) /\ disk[f] = ConfOf(key, list, i)
           /\ Secured(disk, Writing, queue, list, key)
<1>1. /\ Writing = {} /\ pc[p] = "done" /\ edges[p] \in EdgeLists
      /\ \/ host = Origin /\ f = Origin
         \/ \E i \in 1 .. Len(edges[p]) : host = edges[p][i].host /\ f = NameOf(edges[p], i)
  BY DEF Deploy, IInv, TypeInv
<1>2. PICK key \in KeySet(edges[p]) : Written(disk, edges[p], key, Len(edges[p]) + 1)
  BY <1>1 DEF IInv, DoneInv
<1>3. Secured(disk, Writing, queue, edges[p], key)
  BY <1>1, <1>2, WrittenKeeps DEF Secured, Kept, AllHold
<1>4. ASSUME NEW k \in 0 .. Len(edges[p])
      PROVE  disk[PeerName(edges[p], k)] = ConfOf(key, edges[p], k)
  <2>1. PICK j \in 1 .. Len(edges[p]) + 1 : At(edges[p], j) = k
    BY <1>1, Places
  <2> QED BY <1>1, <1>2, <2>1, Plans DEF Written
<1>5. PICK i \in 0 .. Len(edges[p]) : RunsAt(edges[p], i, host) /\ f = PeerName(edges[p], i)
  <2>1. Len(edges[p]) \in Nat \ {0}
    BY <1>1, PeerNames
  <2>2. CASE host = Origin /\ f = Origin
    <3>1. 0 \in 0 .. Len(edges[p])
      BY <2>1
    <3> QED BY <2>2, <3>1 DEF RunsAt, PeerName
  <2>3. CASE \E i \in 1 .. Len(edges[p]) : host = edges[p][i].host /\ f = NameOf(edges[p], i)
    <3>1. PICK i \in 1 .. Len(edges[p]) : host = edges[p][i].host /\ f = NameOf(edges[p], i)
      BY <2>3
    <3>2. i \in 0 .. Len(edges[p]) /\ i # 0
      BY <2>1
    <3> QED BY <3>1, <3>2 DEF RunsAt, PeerName
  <2> QED BY <1>1, <2>2, <2>3
<1> QED BY <1>1, <1>3, <1>4, <1>5

\* What was deployed in this era stays of a plan whose keys are secured.
LEMMA StepDeployed == IInv /\ DeployedInv /\ [Next]_vars => DeployedInv'
<1> SUFFICES ASSUME IInv, DeployedInv, [Next]_vars PROVE DeployedInv'
  OBVIOUS
<1> USE DEF DeployedInv
<1>1. ASSUME era' = era + 1, deployed' = deployed
      PROVE  DeployedInv'
  BY <1>1 DEF DeployedType, EraInv
<1>2. ASSUME era' = era, deployed' = deployed,
             \A list \in EdgeLists : \A key \in KeySet(list) :
               Secured(disk, Writing, queue, list, key) => Secured(disk', Writing', queue', list, key)
      PROVE  DeployedInv'
  <2>1. DeployedType'
    BY <1>2 DEF DeployedType
  <2>2. EraInv'
    BY <1>2 DEF EraInv
  <2> QED BY <2>1, <2>2
<1>3. ASSUME era' = era, deployed' = deployed, disk' = disk, Writing' \subseteq Writing,
             \A q \in Writing' : queue'[q] = queue[q]
      PROVE  DeployedInv'
  BY <1>2, <1>3, SecuredStays
<1>4. ASSUME NEW p \in Runners, NEW list \in EdgeLists, NEW rotating \in BOOLEAN,
             Prepare(p, list, rotating)
      PROVE  DeployedInv'
  <2>1. CASE rotating
    BY <1>1, <1>4, <2>1 DEF Prepare
  <2>2. CASE ~rotating
    <3>1. rotating = FALSE
      BY <2>2
    <3>2. Prepare(p, list, FALSE)
      BY <1>4, <3>1
    <3>3. era' = era /\ deployed' = deployed
      BY <3>2 DEF Prepare
    <3> QED BY <1>2, <3>2, <3>3, PrepareSecures
  <2> QED BY <2>1, <2>2
<1>5. ASSUME NEW p \in Runners, Stage(p)
      PROVE  DeployedInv'
  BY <1>3, <1>5 DEF Stage, Writing
<1>6. ASSUME NEW p \in Runners, Publish(p)
      PROVE  DeployedInv'
  <2>1. era' = era /\ deployed' = deployed
    BY <1>6 DEF Publish
  <2> QED BY <1>2, <1>6, <2>1, PublishSecures
<1>7. ASSUME NEW p \in Runners, Finish(p) \/ Interrupt(p)
      PROVE  DeployedInv'
  <2>1. era' = era /\ deployed' = deployed /\ disk' = disk
    BY <1>7 DEF Finish, Interrupt
  <2>2. Writing' \subseteq Writing /\ \A q \in Writing' : queue'[q] = queue[q]
    BY <1>7 DEF Finish, Interrupt, Writing, IInv, TypeInv
  <2> QED BY <1>3, <2>1, <2>2
<1>8. ASSUME NEW p \in Runners, NEW host \in Hosts \cup {Origin}, NEW f \in Files, Deploy(p, host, f)
      PROVE  DeployedInv'
  <2>1. /\ deployed' = [deployed EXCEPT ![host] = [conf |-> disk[f], era |-> era, clash |-> clash[p]]]
        /\ UNCHANGED <<disk, pc, queue, era>>
    BY <1>8 DEF Deploy
  <2>2. Writing' = Writing
    BY <2>1 DEF Writing
  <2>3. disk[f] \in Conf \cup {Absent} /\ clash[p] \in BOOLEAN
    BY DEF IInv, TypeInv
  <2>4. /\ deployed'[host] = [conf |-> disk[f], era |-> era, clash |-> clash[p]]
        /\ \A h \in Hosts \cup {Origin} : h # host => deployed'[h] = deployed[h]
    BY <2>1 DEF DeployedType
  <2>5. DeployedType'
    BY <2>1, <2>3, <2>4 DEF DeployedType
  <2>6. EraInv'
    <3> SUFFICES ASSUME NEW h \in Hosts \cup {Origin}, deployed'[h] # Absent, deployed'[h].era = era,
                        ~deployed'[h].clash
                 PROVE  \E list \in EdgeLists : \E key \in KeySet(list) : \E i \in 0 .. Len(list) :
                          /\ RunsAt(list, i, h) /\ deployed'[h].conf = ConfOf(key, list, i)
                          /\ Secured(disk, Writing, queue, list, key)
      BY <2>1, <2>2 DEF EraInv
    <3>1. CASE h = host
      BY <1>8, <2>4, <3>1, DeploySecures
    <3>2. CASE h # host
      BY <2>4, <3>2 DEF EraInv
    <3> QED BY <3>1, <3>2
  <2> QED BY <2>5, <2>6
<1>9. ASSUME NEW f \in Files, Damage(f)
      PROVE  DeployedInv'
  BY <1>1, <1>9 DEF Damage
<1>10. CASE UNCHANGED vars
  BY <1>3, <1>10 DEF vars, Writing
<1> QED BY <1>4, <1>5, <1>6, <1>7, <1>8, <1>9, <1>10 DEF Next

\* The two ends of a tunnel, each of a plan whose keys are secured, are linked.
LEMMA EndsLinked ==
  ASSUME KeepsPlaces, DeployedInv, NEW host \in Hosts,
         deployed[host] # Absent, deployed[Origin] # Absent,
         deployed[host].era = era, deployed[Origin].era = era,
         ~deployed[host].clash, ~deployed[Origin].clash,
         \E peer \in deployed[Origin].conf.peers : peer.host = host
  PROVE  Linked(deployed[host].conf, deployed[Origin].conf, host)
<1>1. PICK a \in EdgeLists : \E key \in KeySet(a) : \E i \in 0 .. Len(a) :
        /\ RunsAt(a, i, host) /\ deployed[host].conf = ConfOf(key, a, i)
        /\ Secured(disk, Writing, queue, a, key)
  BY DEF DeployedInv, EraInv
<1>2. PICK ka \in KeySet(a), i \in 0 .. Len(a) :
        /\ RunsAt(a, i, host) /\ deployed[host].conf = ConfOf(ka, a, i)
        /\ Secured(disk, Writing, queue, a, ka)
  BY <1>1
<1>3. PICK b \in EdgeLists : \E key \in KeySet(b) : \E j \in 0 .. Len(b) :
        /\ RunsAt(b, j, Origin) /\ deployed[Origin].conf = ConfOf(key, b, j)
        /\ Secured(disk, Writing, queue, b, key)
  BY DEF DeployedInv, EraInv
<1>4. PICK kb \in KeySet(b), j \in 0 .. Len(b) :
        /\ RunsAt(b, j, Origin) /\ deployed[Origin].conf = ConfOf(kb, b, j)
        /\ Secured(disk, Writing, queue, b, kb)
  BY <1>3
<1>5. /\ Len(a) \in Nat \ {0} /\ Len(b) \in Nat \ {0}
      /\ \A k \in 1 .. Len(a) : a[k].host \in Hosts
      /\ \A k \in 1 .. Len(b) : b[k].host \in Hosts
  BY PeerNames
<1>6. Origin \notin Hosts
  BY MeshAssumption
<1>7. i \in 1 .. Len(a) /\ i # 0 /\ a[i].host = host
  BY <1>2, <1>5, <1>6 DEF RunsAt
<1>8. j = 0
  BY <1>4, <1>5, <1>6 DEF RunsAt
<1>9. deployed[Origin].conf =
        [priv  |-> kb[0], addr |-> 0,
         peers |-> {[host |-> b[k].host, pub |-> kb[k], allowed |-> k] : k \in 1 .. Len(b)}]
  BY <1>4, <1>8 DEF ConfOf
<1>10. PICK m \in 1 .. Len(b) : b[m].host = host
  BY <1>9
<1>11. m = i /\ NameOf(a, i) = NameOf(b, i)
  BY <1>7, <1>10 DEF KeepsPlaces
<1>12. ka[0] = kb[0]
  <2>1. 0 \in 0 .. Len(a) /\ 0 \in 0 .. Len(b) /\ PeerName(a, 0) = PeerName(b, 0)
    BY <1>5 DEF PeerName
  <2> QED BY <1>2, <1>4, <2>1 DEF Secured
<1>13. ka[i] = kb[i]
  <2>1. i \in 0 .. Len(a) /\ i \in 0 .. Len(b) /\ PeerName(a, i) = PeerName(b, i)
    BY <1>5, <1>7, <1>10, <1>11 DEF PeerName
  <2> QED BY <1>2, <1>4, <2>1 DEF Secured
<1>14. deployed[host].conf =
         [priv |-> ka[i], addr |-> i, peers |-> {[host |-> Origin, pub |-> ka[0], allowed |-> 0]}]
  BY <1>2, <1>7 DEF ConfOf
<1>15. [host |-> host, pub |-> kb[i], allowed |-> i]
         \in {[host |-> b[k].host, pub |-> kb[k], allowed |-> k] : k \in 1 .. Len(b)}
  BY <1>10, <1>11
<1> QED BY <1>9, <1>12, <1>13, <1>14, <1>15 DEF Linked

\* The tunnels between ends deployed in this era.
EraLinked ==
  \A host \in Hosts :
    /\ deployed[host] # Absent /\ deployed[Origin] # Absent
    /\ deployed[host].era = era /\ deployed[Origin].era = era
    /\ ~deployed[host].clash /\ ~deployed[Origin].clash
    /\ \E peer \in deployed[Origin].conf.peers : peer.host = host
    => Linked(deployed[host].conf, deployed[Origin].conf, host)

\* A deployment is of this era: if it makes a tunnel's ends of one era, both are of this
\* one.  Nothing else changes what runs at a host.
LEMMA StepTunnels ==
  ASSUME DeployedType, DeployedTunnelsSurvive, [Next]_vars, EraLinked'
  PROVE  DeployedTunnelsSurvive'
<1>1. CASE deployed' = deployed
  BY <1>1 DEF DeployedTunnelsSurvive
<1>2. ASSUME NEW p \in Runners, NEW h \in Hosts \cup {Origin}, NEW f \in Files, Deploy(p, h, f)
      PROVE  DeployedTunnelsSurvive'
  <2>1. /\ era' = era
        /\ deployed'[h] = [conf |-> disk[f], era |-> era, clash |-> clash[p]]
        /\ \A g \in Hosts \cup {Origin} : g # h => deployed'[g] = deployed[g]
    BY <1>2 DEF Deploy, DeployedType
  <2>2. ASSUME NEW host \in Hosts,
               deployed'[host] # Absent, deployed'[Origin] # Absent,
               deployed'[host].era = deployed'[Origin].era,
               ~deployed'[host].clash, ~deployed'[Origin].clash,
               \E peer \in deployed'[Origin].conf.peers : peer.host = host
        PROVE  Linked(deployed'[host].conf, deployed'[Origin].conf, host)
    <3>1. CASE h = host \/ h = Origin
      <4>1. deployed'[h].era = era'
        BY <2>1
      <4> QED BY <2>2, <3>1, <4>1 DEF EraLinked
    <3>2. CASE h # host /\ h # Origin
      BY <2>1, <2>2, <3>2 DEF DeployedTunnelsSurvive
    <3> QED BY <3>1, <3>2
  <2> QED BY <2>2 DEF DeployedTunnelsSurvive, Linked
<1>3. deployed' = deployed \/ \E p \in Runners, h \in Hosts \cup {Origin}, f \in Files : Deploy(p, h, f)
  BY DEF Next, vars, Prepare, Stage, Publish, Finish, Interrupt, Damage
<1> QED BY <1>1, <1>2, <1>3

\* When endpoints keep their places, an edge and an origin deployed from completed runs
\* stay linked, as long as no key was rotated or lost in between and no runs clashed.
THEOREM MeshDeployedTunnels == ASSUME KeepsPlaces PROVE Spec => []DeployedTunnelsSurvive
<1>1. Init => DeployedInv /\ DeployedTunnelsSurvive
  <2> SUFFICES ASSUME Init PROVE DeployedInv /\ DeployedTunnelsSurvive
    OBVIOUS
  <2>1. era = 0 /\ \A h \in Hosts \cup {Origin} : deployed[h] = Absent
    BY DEF Init
  <2>2. DeployedInv
    BY <2>1 DEF Init, DeployedInv, DeployedType, EraInv
  <2> QED BY <2>1, <2>2 DEF DeployedTunnelsSurvive
<1>2. IInv /\ DeployedInv /\ [Next]_vars => DeployedInv'
  BY StepDeployed
<1>3. DeployedInv => EraLinked
  BY EndsLinked DEF EraLinked
<1>4. DeployedInv /\ DeployedTunnelsSurvive /\ [Next]_vars /\ EraLinked' => DeployedTunnelsSurvive'
  BY StepTunnels DEF DeployedInv
<1> QED BY <1>1, <1>2, <1>3, <1>4, MeshInvariant, PTL DEF Spec
=============================================================================
