--------------------------------- MODULE Mesh ---------------------------------
(***************************************************************************)
(* prepare --mesh-edge: the WireGuard keys under <out>/mesh.  A run loads  *)
(* the keys on disk (unless --rotate-mesh-keys), generates one config per  *)
(* edge and the origin's, and writes them one by one, each staged beside   *)
(* its destination and renamed.  A run may be killed or fail between two   *)
(* files, be run again with other edges, overlap another run, for nothing  *)
(* locks the directory, and a file may lose its key; the operator deploys  *)
(* what a completed run wrote.                                             *)
(*                                                                         *)
(* A key stands for its keypair: a config names its own private key and    *)
(* its peers' public keys, and X25519 derives the second from the first.   *)
(* A mesh address is its last octet, 0 standing for the origin's 254.      *)
(***************************************************************************)
EXTENDS Naturals, Sequences

CONSTANTS
  Runners,    \* processes that run prepare
  Names,      \* peer names, which name the files
  Hosts,      \* endpoints of edges
  Origin,     \* the origin's name, also as a host
  Single,     \* "edge": the default name of an only edge
  Numbered,   \* "edge-1", "edge-2", ...: the default names of several
  Unnamed,    \* --mesh-edge without a name
  EdgeLists,  \* the --mesh-edge arguments explored
  Absent,     \* no such file
  NoKey,      \* a config without a PrivateKey line
  BadKey,     \* a PrivateKey that is not an X25519 key
  MaxRuns,    \* bound: runs of prepare
  MaxDamage   \* bound: files that lose their key

VARIABLES
  disk,      \* <out>/mesh/<name>.wg0.conf
  pc,        \* of each runner: idle, write, done, failed
  edges,     \* the --mesh-edge arguments of its last run
  rotate,    \* its --rotate-mesh-keys
  queue,     \* the configs it has still to write
  staged,    \* its temp file, beside the next destination
  minted,    \* keys generated so far
  deployed,  \* what runs at each host, with the era it was deployed in
  era,       \* rotations and lost keys so far (history)
  rerun,     \* the run repeats one that completed (history)
  full,      \* all its keys were on disk when it started, and it kept them (history)
  clash,     \* it overlapped another that might disagree with it (history)
  runs, damage

vars == <<disk, pc, edges, rotate, queue, staged, minted, deployed, era, rerun,
          full, clash, runs, damage>>

Files == Names \cup {Origin}
Keys  == Nat
Peer  == [host: Hosts \cup {Origin}, pub: Keys, allowed: Nat]
Conf  == [priv: Keys \cup {NoKey, BadKey}, addr: Nat, peers: SUBSET Peer]
Edge  == [name: Names \cup {Unnamed}, host: Hosts]

SingleIsEdge(list, i) == IF Len(list) = 1 THEN Single ELSE list[i].name

\* normalized: an edge without a name is called after its position, or plainly
\* "edge" when it is the only one.
NameOf(list, i) ==
  IF list[i].name # Unnamed THEN list[i].name
  ELSE IF Len(list) = 1 THEN Single ELSE Numbered[i]

ASSUME MeshAssumption ==
  /\ Origin \notin Names \cup Hosts
  /\ Single \in Names /\ Numbered \in Seq(Names)
  /\ NoKey \notin Keys /\ BadKey \notin Keys /\ NoKey # BadKey
  /\ Absent \notin Conf
  /\ MaxRuns \in Nat /\ MaxDamage \in Nat

\* What is asked of the operator: an edge has a name of its own, not the origin's,
\* and an endpoint of its own.
ASSUME EdgeListsAssumption ==
  \A list \in EdgeLists :
    /\ list \in Seq(Edge) /\ Len(list) \in 1 .. Len(Numbered)
    /\ \A i, j \in 1 .. Len(list) :
         i # j => NameOf(list, i) # NameOf(list, j) /\ list[i].host # list[j].host

-----------------------------------------------------------------------------

LoadNothing(d) == [f \in {} |-> NoKey]
LoadEdgesOnly(d) ==
  [f \in {g \in Names : d[g] # Absent /\ d[g].priv # NoKey} |-> d[f].priv]

\* LoadKeys: the PrivateKey lines of the configs on disk; a config without one is
\* passed over, and so is a temp file a killed run left, by its name.
LoadKeys(d) ==
  [f \in {g \in Files : d[g] # Absent /\ d[g].priv # NoKey} |-> d[f].priv]

\* keyFor: the loaded key of peer i (0 is the origin), or a new one.
PeerName(list, i) == IF i = 0 THEN Origin ELSE NameOf(list, i)
KeyFor(keys, list, i) ==
  IF PeerName(list, i) \in DOMAIN keys THEN keys[PeerName(list, i)] ELSE minted + i

\* An edge listens and peers with the origin; the origin peers with every edge. The
\* mesh address of an edge is its position.
EdgeConf(keys, list, i) ==
  [priv  |-> KeyFor(keys, list, i),
   addr  |-> i,
   peers |-> {[host |-> Origin, pub |-> KeyFor(keys, list, 0), allowed |-> 0]}]

OriginConf(keys, list) ==
  [priv  |-> KeyFor(keys, list, 0),
   addr  |-> 0,
   peers |-> {[host |-> list[i].host, pub |-> KeyFor(keys, list, i), allowed |-> i] :
                i \in 1 .. Len(list)}]

ArtifactsOriginOnce(keys, list) ==
  [i \in 1 .. Len(list) + IF Origin \in DOMAIN keys THEN 0 ELSE 1 |->
     IF i <= Len(list)
     THEN [file |-> NameOf(list, i), conf |-> EdgeConf(keys, list, i)]
     ELSE [file |-> Origin, conf |-> OriginConf(keys, list)]]

\* GenerateWireGuard's artifacts in the order they are written: edges, then origin.
Artifacts(keys, list) ==
  [i \in 1 .. Len(list) + 1 |->
     IF i <= Len(list)
     THEN [file |-> NameOf(list, i), conf |-> EdgeConf(keys, list, i)]
     ELSE [file |-> Origin, conf |-> OriginConf(keys, list)]]

\* A supplied key that does not parse is an error, not a reason for a new one.
Parses(keys, list) ==
  \A i \in 0 .. Len(list) :
    PeerName(list, i) \in DOMAIN keys => keys[PeerName(list, i)] # BadKey

-----------------------------------------------------------------------------

Init ==
  /\ disk = [f \in Files |-> Absent]
  /\ pc = [p \in Runners |-> "idle"]
  /\ edges = [p \in Runners |-> << >>] /\ rotate = [p \in Runners |-> FALSE]
  /\ queue = [p \in Runners |-> << >>] /\ staged = [p \in Runners |-> Absent]
  /\ minted = 0
  /\ deployed = [h \in Hosts \cup {Origin} |-> Absent]
  /\ era = 0
  /\ rerun = [p \in Runners |-> FALSE] /\ full = [p \in Runners |-> FALSE]
  /\ clash = [p \in Runners |-> FALSE]
  /\ runs = 0 /\ damage = 0

Writing == {p \in Runners : pc[p] = "write"}

AllOnDisk(list) ==
  \A i \in 0 .. Len(list) :
    disk[PeerName(list, i)] # Absent /\ disk[PeerName(list, i)].priv \in 0 .. minted

\* Runs that overlap agree when they write the same mesh with the keys on disk, and no
\* other run has been writing others since.
Agree(p, list, keeps) ==
  /\ edges[p] = list
  /\ full[p] \/ queue[p] = << >>
  /\ keeps /\ ~clash[p]

\* prepare up to the first write: nothing on disk changes, and a key that does
\* not parse ends the run there.
Prepare(p, list, rotating) ==
  LET keys     == IF rotating THEN LoadNothing(disk) ELSE LoadKeys(disk)
      keeps    == ~rotating /\ AllOnDisk(list)
      disagree == {q \in Writing : ~Agree(q, list, keeps)}
  IN
  /\ pc[p] # "write"
  /\ runs < MaxRuns
  /\ runs' = runs + 1
  /\ edges' = [edges EXCEPT ![p] = list] /\ rotate' = [rotate EXCEPT ![p] = rotating]
  /\ rerun' = [rerun EXCEPT ![p] =
       ~rotating /\ \E q \in Runners : /\ pc[q] = "done" \/ (pc[q] = "write" /\ rerun[q])
                                       /\ list = edges[q] /\ ~clash[q]]
  /\ full' = [full EXCEPT ![p] = keeps]
  /\ era' = IF rotating THEN era + 1 ELSE era
  /\ IF Parses(keys, list)
     THEN /\ queue' = [queue EXCEPT ![p] = Artifacts(keys, list)]
          /\ minted' = minted + Len(list) + 1
          /\ pc' = [q \in Runners |-> IF q = p THEN "write"
                                      ELSE IF pc[q] = "done" THEN "idle" ELSE pc[q]]
          /\ clash' = [q \in Runners |-> IF q = p THEN \E r \in disagree : queue[r] # << >>
                                         ELSE clash[q] \/ q \in disagree]
     ELSE pc' = [pc EXCEPT ![p] = "failed"] /\ UNCHANGED <<queue, minted, clash>>
  /\ UNCHANGED <<disk, staged, deployed, damage>>

StageInPlace(p) ==
  /\ pc[p] = "write" /\ queue[p] # << >>
  /\ staged[p] = Absent
  /\ staged' = [staged EXCEPT ![p] = Head(queue[p]).conf]
  /\ disk' = [disk EXCEPT ![Head(queue[p]).file] = [priv |-> NoKey, addr |-> 0, peers |-> {}]]
  /\ UNCHANGED <<pc, edges, rotate, queue, minted, deployed, era, rerun, full, clash, runs, damage>>

\* safeio.WriteFile up to the rename, in a temp file of a name of its own: the destination
\* is not touched.
Stage(p) ==
  /\ pc[p] = "write" /\ queue[p] # << >>
  /\ staged[p] = Absent
  /\ staged' = [staged EXCEPT ![p] = Head(queue[p]).conf]
  /\ UNCHANGED <<disk, pc, edges, rotate, queue, minted, deployed, era, rerun, full, clash,
                 runs, damage>>

\* The rename.
Publish(p) ==
  /\ pc[p] = "write"
  /\ staged[p] # Absent
  /\ disk' = [disk EXCEPT ![Head(queue[p]).file] = staged[p]]
  /\ staged' = [staged EXCEPT ![p] = Absent]
  /\ queue' = [queue EXCEPT ![p] = Tail(@)]
  /\ UNCHANGED <<pc, edges, rotate, minted, deployed, era, rerun, full, clash, runs, damage>>

\* What is written after the configs (the mesh's README and .gitignore, the edges'
\* cloud-init) succeeds too.
Finish(p) ==
  /\ pc[p] = "write" /\ queue[p] = << >>
  /\ pc' = [pc EXCEPT ![p] = "done"]
  /\ UNCHANGED <<disk, edges, rotate, queue, staged, minted, deployed, era, rerun, full, clash,
                 runs, damage>>

\* A write fails and its temp file is removed, or the process is killed and the
\* temp file stays, under a name nothing reads.
Interrupt(p) ==
  /\ pc[p] = "write"
  /\ pc' = [pc EXCEPT ![p] = "failed"]
  /\ queue' = [queue EXCEPT ![p] = << >>] /\ staged' = [staged EXCEPT ![p] = Absent]
  /\ UNCHANGED <<disk, edges, rotate, minted, deployed, era, rerun, full, clash, runs, damage>>

\* Someone redacts or mangles a key on disk between runs.
Damage(f) ==
  /\ Writing = {}
  /\ damage < MaxDamage
  /\ damage' = damage + 1
  /\ disk[f] # Absent
  /\ \E lost \in {NoKey, BadKey} : disk' = [disk EXCEPT ![f].priv = lost]
  /\ pc' = [p \in Runners |-> "idle"]
  /\ era' = era + 1
  /\ UNCHANGED <<edges, rotate, queue, staged, minted, deployed, rerun, full, clash, runs>>

\* The operator copies a config of a completed run to its host.
Deploy(p, host, f) ==
  /\ Writing = {} /\ pc[p] = "done"
  /\ \/ host = Origin /\ f = Origin
     \/ \E i \in 1 .. Len(edges[p]) : host = edges[p][i].host /\ f = NameOf(edges[p], i)
  /\ deployed' = [deployed EXCEPT ![host] = [conf |-> disk[f], era |-> era, clash |-> clash[p]]]
  /\ UNCHANGED <<disk, pc, edges, rotate, queue, staged, minted, era, rerun, full, clash,
                 runs, damage>>

Next ==
  \/ \E p \in Runners :
       \/ \E list \in EdgeLists, rotating \in BOOLEAN : Prepare(p, list, rotating)
       \/ Stage(p) \/ Publish(p) \/ Finish(p) \/ Interrupt(p)
       \/ \E host \in Hosts \cup {Origin}, f \in Files : Deploy(p, host, f)
  \/ \E f \in Files : Damage(f)

Spec == Init /\ [][Next]_vars

-----------------------------------------------------------------------------
(* Properties.                                                             *)

\* Without --rotate-mesh-keys a run never replaces a private key on disk, even one
\* that does not parse, wherever the run stops and whatever the one before left.  Two runs
\* at once keep them too, unless one mints a key that the other lacks.
RunsKeepKeys ==
  [][Writing # {} /\ (\A p \in Writing : ~rotate[p] /\ ~clash[p]) =>
       \A f \in Files : disk[f] # Absent /\ disk[f].priv # NoKey =>
         disk'[f] # Absent /\ disk'[f].priv = disk[f].priv]_vars

\* A run that repeats a completed one changes nothing on disk, byte for byte; nor do
\* several of them that overlap, at any moment, one of them killed.
RerunsAreIdentical ==
  [][Writing # {} /\ (\A p \in Writing : rerun[p] /\ ~clash[p]) => disk' = disk]_disk

\* The two ends of a tunnel accept each other: each has the other's key, and allows
\* the address the other sends from.
Linked(edge, origin, host) ==
  /\ [host |-> Origin, pub |-> origin.priv, allowed |-> origin.addr] \in edge.peers
  /\ [host |-> host, pub |-> edge.priv, allowed |-> edge.addr] \in origin.peers

\* When a run completes, every edge on disk is linked with the origin on disk, though
\* an earlier run stopped between two files or halfway through a rotation, the list
\* of edges changed, a key was lost, or another run writes the same mesh at this moment.
\* Left out are runs that overlap with a key missing, a rotation or another list.
CompletedMeshAuthenticates ==
  \A p \in Runners : pc[p] = "done" /\ ~clash[p] =>
    \A i \in 1 .. Len(edges[p]) :
      Linked(disk[NameOf(edges[p], i)], disk[Origin], edges[p][i].host)

\* An edge and an origin deployed from completed runs stay linked, whichever runs
\* they came from, as long as no key was rotated or lost in between and no runs
\* clashed: re-running prepare and deploying one end does not break a tunnel.
DeployedTunnelsSurvive ==
  \A host \in Hosts :
    LET e == deployed[host]  o == deployed[Origin] IN
    e # Absent /\ o # Absent /\ e.era = o.era /\ ~e.clash /\ ~o.clash
      /\ (\E p \in o.conf.peers : p.host = host)
    => Linked(e.conf, o.conf, host)
=============================================================================
