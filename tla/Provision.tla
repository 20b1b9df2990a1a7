------------------------------ MODULE Provision ------------------------------
(***************************************************************************)
(* provision on the backends called idempotent, but for OVH (see Ovh).     *)
(* PowerDNS, Scaleway and Route 53 replace every rrset of the plan in one  *)
(* call, Gandi, Azure and Cloud DNS one by one; Hetzner adds the records   *)
(* it lacks.  PowerDNS and Scaleway create a zone that is not there, and   *)
(* PowerDNS signs it.  Certificates follow.  Any call may fail, or be      *)
(* applied and its answer lost; the operator runs it again, maybe with     *)
(* another plan.  A body that is lost is no error either, and Hetzner's    *)
(* listing without one reads as that of an empty zone; where another call  *)
(* loses its body the run fails, or ends up as after a failed call.        *)
(*                                                                         *)
(* The APIs are external; Hetzner's takes a record it has once more.       *)
(* Reading the nameservers, whose errors are dropped and whose answer is   *)
(* only printed, is left out.                                              *)
(***************************************************************************)
EXTENDS Naturals, FiniteSets

CONSTANTS
  N,          \* rrsets, 1 .. N in the order of the plan
  Values,     \* record contents
  Bare,       \* [Values -> Values], what hetznerdns compares: no quotes, no final dot
  Certs,
  Asks,       \* what provision is asked for: see AskSet
  Initial,    \* the records before the first run, of a zone that exists
  Unmapped,   \* rrsets recordProps refuses: of an unknown type, or malformed
  Backends,   \* the backends explored
  MaxFaults,  \* bound: calls that fail, answers and bodies lost, kills
  MaxRuns     \* bound: changes of plan and reruns after a success

Sets == 1 .. N
AskSet == [dns : BOOLEAN, zone : [Sets -> SUBSET Values], signed : BOOLEAN, certs : SUBSET Certs]

ASSUME ProvisionAssumption ==
  /\ N \in Nat /\ MaxFaults \in Nat /\ MaxRuns \in Nat
  /\ Bare \in [Values -> Values]
  /\ Asks \subseteq AskSet /\ Initial \in [Sets -> [Values -> 0 .. 1]] /\ Unmapped \subseteq Sets
  /\ Backends \subseteq {"powerdns", "scaleway", "route53", "gandi", "azure", "clouddns", "hetzner"}

VARIABLES
  backend,
  exists, live,   \* the zone, and how often each record is in it
  keys,           \* its active signing keys
  issued,         \* certificates CertMate has
  pc,             \* the call to come, or how the last run ended
  ask,            \* what this run was asked for
  todo,           \* rrsets still to replace
  missing,        \* <<rrset, value>> still to add
  left,           \* certificates still to request
  told,           \* keys whose DS records are shown when the run succeeds
  unread,         \* listings that lost their body (history)
  faults, runs

world == <<exists, live, keys, issued>>
vars == <<backend, world, pc, ask, todo, missing, left, told, unread, faults, runs>>

Ended == {"idle", "ok", "failed"}
Batch == {"powerdns", "scaleway", "route53"}
Named == {"route53", "clouddns", "hetzner"}   \* look up the zone by its name first

Once(S) == [v \in Values |-> IF v \in S THEN 1 ELSE 0]
Planned(a) == {k \in Sets : a.zone[k] # {}}
Replaced(ks) == [k \in Sets |-> IF k \in ks THEN Once(ask.zone[k]) ELSE live[k]]
InZone(k) == {v \in Values : live[k][v] > 0}

\* recKey: the zone has a record hetznerdns takes for this one.
Has(k, v) == \E u \in InZone(k) : Bare[u] = Bare[v]
Same(r, s) == r[1] = s[1] /\ Bare[r[2]] = Bare[s[2]]
-----------------------------------------------------------------------------

Init ==
  /\ backend \in Backends
  /\ exists \in BOOLEAN
  /\ live = IF exists THEN Initial ELSE [k \in Sets |-> Once({})]
  /\ keys = 0 /\ issued = {}
  /\ pc = "idle" /\ ask \in Asks
  /\ todo = {} /\ missing = {} /\ left = {} /\ told = 0
  /\ unread = 0 /\ faults = 0 /\ runs = 0

FirstCall(a) ==
  CASE ~ a.dns                                         -> "certs"
    [] a.dns /\ backend = "powerdns"                    -> "probe"
    [] a.dns /\ backend = "scaleway"                    -> "create"
    [] a.dns /\ backend \in {"gandi", "azure"}          -> "write"
    [] a.dns /\ backend \in Named                       -> "lookup"

Start(a) ==
  /\ pc \in Ended
  /\ IF pc = "failed" /\ a = ask
     THEN UNCHANGED runs
     ELSE runs < MaxRuns /\ runs' = runs + 1
  /\ ask' = a /\ pc' = FirstCall(a)
  /\ todo' = Planned(a) /\ missing' = {} /\ left' = a.certs /\ told' = 0
  /\ UNCHANGED <<backend, world, unread, faults>>

CountFault == faults < MaxFaults /\ faults' = faults + 1

\* A call that fails ends the run; it may have changed the records all the same.
Fault(after) ==
  /\ CountFault
  /\ pc' = "failed" /\ live' \in {live, after}

\* PowerDNS: GET the zone.  Whatever goes wrong is taken for a zone that is not there.
Probe ==
  /\ pc = "probe"
  /\ \/ pc' = (IF exists THEN "write" ELSE "create") /\ UNCHANGED faults
     \/ pc' = "create" /\ CountFault
  /\ UNCHANGED <<backend, world, ask, todo, missing, left, told, unread, runs>>

PostZoneToleratesConflict ==
  /\ pc = "create" /\ backend = "powerdns"
  /\ exists' = TRUE /\ live' = (IF exists THEN live ELSE Replaced(todo))
  /\ todo' = {} /\ pc' = "write"
  /\ UNCHANGED <<backend, keys, issued, ask, missing, left, told, unread, faults, runs>>

\* PowerDNS: POST the zone with its rrsets; a zone that is there is a conflict.
PostZone ==
  /\ pc = "create" /\ backend = "powerdns"
  /\ \/ exists /\ pc' = "failed" /\ UNCHANGED <<exists, live, todo, faults>>
     \/ /\ ~ exists /\ exists' = TRUE
        /\ live' = Replaced(todo) /\ todo' = {}
        /\ \/ pc' = "write" /\ UNCHANGED faults
           \/ pc' = "failed" /\ CountFault
     \/ pc' = "failed" /\ CountFault /\ UNCHANGED <<exists, live, todo>>
  /\ UNCHANGED <<backend, keys, issued, ask, missing, left, told, unread, runs>>

EnsureZoneOnce ==
  /\ pc = "create" /\ backend = "scaleway"
  /\ pc' = (IF exists THEN "failed" ELSE "write") /\ exists' = TRUE
  /\ UNCHANGED <<backend, live, keys, issued, ask, todo, missing, left, told, unread, faults, runs>>

\* Scaleway: POST the zone, empty; a conflict is as good.
EnsureZone ==
  /\ pc = "create" /\ backend = "scaleway"
  /\ \/ pc' = "write" /\ exists' = TRUE /\ UNCHANGED faults
     \/ pc' = "failed" /\ CountFault /\ (exists' = TRUE \/ UNCHANGED exists)
  /\ UNCHANGED <<backend, live, keys, issued, ask, todo, missing, left, told, unread, runs>>

\* Route 53, Cloud DNS, Hetzner: find the zone's id.
Lookup ==
  /\ pc = "lookup"
  /\ \/ /\ pc' = (IF ~ exists THEN "failed" ELSE IF backend = "hetzner" THEN "list" ELSE "write")
        /\ UNCHANGED faults
     \/ pc' = "failed" /\ CountFault
  /\ UNCHANGED <<backend, world, ask, todo, missing, left, told, unread, runs>>

ListNothing ==
  /\ pc = "list"
  /\ pc' = "write" /\ todo' = {}
  /\ missing' = {r \in Sets \X Values : r[2] \in ask.zone[r[1]]}
  /\ UNCHANGED <<backend, world, ask, left, told, unread, faults, runs>>

\* Hetzner: GET the records; the plan's that are not among them are to be added.
List ==
  /\ pc = "list"
  /\ \/ /\ missing' = {r \in Sets \X Values : r[2] \in ask.zone[r[1]] /\ ~ Has(r[1], r[2])}
        /\ todo' = {} /\ pc' = "write"
        /\ UNCHANGED <<unread, faults>>
     \/ /\ missing' = {r \in Sets \X Values : r[2] \in ask.zone[r[1]]}
        /\ todo' = {} /\ pc' = "write"
        /\ unread' = unread + 1 /\ CountFault
     \/ pc' = "failed" /\ CountFault /\ UNCHANGED <<todo, missing, unread>>
  /\ UNCHANGED <<backend, world, ask, left, told, runs>>

\* Hetzner: POST one record; those recKey takes for the same are skipped.
Add(r) ==
  /\ pc = "write" /\ backend = "hetzner" /\ r \in missing
  /\ LET after == [live EXCEPT ![r[1]][r[2]] = @ + 1] IN
     \/ /\ live' = after /\ missing' = {s \in missing : ~ Same(r, s)}
        /\ UNCHANGED <<pc, faults>>
     \/ Fault(after) /\ UNCHANGED missing
  /\ UNCHANGED <<backend, exists, keys, issued, ask, todo, left, told, unread, runs>>

\* PowerDNS, Scaleway, Route 53: one call replaces every rrset of the plan.
ReplaceAll ==
  /\ pc = "write" /\ backend \in Batch /\ todo # {}
  /\ \/ live' = Replaced(todo) /\ todo' = {} /\ UNCHANGED <<pc, faults>>
     \/ Fault(Replaced(todo)) /\ UNCHANGED todo
  /\ UNCHANGED <<backend, exists, keys, issued, ask, missing, left, told, unread, runs>>

\* The rrset whose turn it is.
Turn(k) == pc = "write" /\ backend \notin Batch /\ k \in todo /\ \A j \in todo : k <= j

\* Gandi, Azure: PUT it.  Cloud DNS: POST it.
Put(k) ==
  /\ Turn(k) /\ exists
  /\ backend = "azure" => k \notin Unmapped
  /\ backend = "clouddns" => InZone(k) = {}
  /\ \/ live' = Replaced({k}) /\ todo' = todo \ {k} /\ UNCHANGED <<pc, faults>>
     \/ Fault(Replaced({k})) /\ UNCHANGED todo
  /\ UNCHANGED <<backend, exists, keys, issued, ask, missing, left, told, unread, runs>>

\* Azure: recordProps refuses it, and whatever comes after it.  Azure and Gandi: no such zone.
Refuse(k) ==
  /\ Turn(k)
  /\ exists => backend = "azure" /\ k \in Unmapped
  /\ pc' = "failed"
  /\ UNCHANGED <<backend, world, ask, todo, missing, left, told, unread, faults, runs>>

\* Cloud DNS: the POST meets an rrset that is there.
Conflict(k) ==
  /\ Turn(k) /\ backend = "clouddns" /\ InZone(k) # {}
  /\ \/ pc' = "patch" /\ UNCHANGED faults
     \/ pc' = "failed" /\ CountFault
  /\ UNCHANGED <<backend, world, ask, todo, missing, left, told, unread, runs>>

DeleteFirst(k) ==
  /\ pc = "patch" /\ k \in todo /\ \A j \in todo : k <= j
  /\ live' = [live EXCEPT ![k] = Once({})] /\ pc' = "write"
  /\ UNCHANGED <<backend, exists, keys, issued, ask, todo, missing, left, told, unread, faults, runs>>

\* Cloud DNS: PATCH it.
Patch(k) ==
  /\ pc = "patch" /\ k \in todo /\ \A j \in todo : k <= j
  /\ \/ live' = Replaced({k}) /\ todo' = todo \ {k} /\ pc' = "write" /\ UNCHANGED faults
     \/ Fault(Replaced({k})) /\ UNCHANGED todo
  /\ UNCHANGED <<backend, exists, keys, issued, ask, missing, left, told, unread, runs>>

\* Provision returns.
Written ==
  /\ pc = "write" /\ todo = {} /\ missing = {}
  /\ pc' = IF ask.signed /\ backend = "powerdns" THEN "sign" ELSE "certs"
  /\ UNCHANGED <<backend, world, ask, todo, missing, left, told, unread, faults, runs>>

\* EnableDNSSEC, POST a key and then GET the keys; cmdProvision drops its error.
Sign ==
  /\ pc = "sign"
  /\ \/ keys' = keys + 1 /\ pc' = "keys" /\ UNCHANGED faults
     \/ keys' \in {keys, keys + 1} /\ pc' = "certs" /\ CountFault
  /\ UNCHANGED <<backend, exists, live, issued, ask, todo, missing, left, told, unread, runs>>

ReadKeys ==
  /\ pc = "keys" /\ pc' = "certs"
  /\ \/ told' = keys /\ UNCHANGED faults
     \/ CountFault /\ UNCHANGED told
  /\ UNCHANGED <<backend, world, ask, todo, missing, left, unread, runs>>

\* CertMate: one request each, in the order of a Go map; a conflict is as good.
Issue(c) ==
  /\ pc = "certs" /\ c \in left
  /\ \/ issued' = issued \cup {c} /\ left' = left \ {c} /\ UNCHANGED <<pc, faults>>
     \/ /\ pc' = "failed" /\ CountFault
        /\ issued' \in {issued, issued \cup {c}} /\ UNCHANGED left
  /\ UNCHANGED <<backend, exists, live, keys, ask, todo, missing, told, unread, runs>>

Finish ==
  /\ pc = "certs" /\ left = {}
  /\ pc' = "ok"
  /\ UNCHANGED <<backend, world, ask, todo, missing, left, told, unread, faults, runs>>

\* Between two calls.  Within one, a kill is a fault.
Kill ==
  /\ pc \notin Ended
  /\ pc' = "failed" /\ CountFault
  /\ UNCHANGED <<backend, world, ask, todo, missing, left, told, unread, runs>>

\* The operator creates the zone, as the error asks.
CreateByHand ==
  /\ ~ exists /\ exists' = TRUE
  /\ UNCHANGED <<backend, live, keys, issued, pc, ask, todo, missing, left, told, unread, faults, runs>>

Step ==
  \/ Probe \/ PostZone \/ EnsureZone \/ Lookup \/ List \/ ReplaceAll
  \/ \E r \in Sets \X Values : Add(r)
  \/ \E k \in Sets : Put(k) \/ Refuse(k) \/ Conflict(k) \/ Patch(k)
  \/ Written \/ Sign \/ ReadKeys \/ Finish
  \/ \E c \in Certs : Issue(c)

Next == Step \/ Kill \/ CreateByHand \/ \E a \in Asks : Start(a)

Spec == Init /\ [][Next]_vars

\* A call ends, by an answer or the client's timeout; the operator creates a zone that is
\* missing, and runs a plan that failed again.
FairSpec == Spec /\ WF_vars(Step) /\ WF_vars(CreateByHand) /\ WF_vars(pc = "failed" /\ Start(ask))
-----------------------------------------------------------------------------

\* A backend holds a record once, whatever answers were lost (live-proof.md: "no duplicate
\* records"), and once more at most for each listing that lost its body.
TypeOK ==
  /\ backend \in Backends
  /\ exists \in BOOLEAN /\ unread \in Nat
  /\ live \in [Sets -> [Values -> 0 .. 1 + unread]]
  /\ keys \in Nat /\ issued \subseteq Certs
  /\ pc \in Ended \cup {"probe", "create", "lookup", "list", "write", "patch", "sign", "keys", "certs"}
  /\ ask \in Asks
  /\ todo \subseteq Sets /\ missing \subseteq Sets \X Values /\ left \subseteq Certs
  /\ told \in Nat /\ faults \in 0 .. MaxFaults /\ runs \in 0 .. MaxRuns

\* An rrset is what the plan says; on Hetzner what the plan says is in it, and maybe more.
AsPlanned(k) ==
  IF backend = "hetzner"
  THEN \A v \in ask.zone[k] : Has(k, v)
  ELSE live[k] = Once(ask.zone[k])

Converged ==
  /\ ask.dns => \A k \in Planned(ask) : AsPlanned(k)
  /\ ask.certs \subseteq issued

\* A run that reports success has every rrset of its plan as planned and every certificate,
\* and the DS records it shows, if any, are those of every key that signs the zone.
SuccessIsThePlan == pc = "ok" => Converged /\ told \in {0, keys}

\* What provision says of these backends when a run fails, "re-running is safe": no step of
\* any run leaves an rrset without records that had some, takes away a record the plan has,
\* or touches an rrset it has not.
NoWindow ==
  [][\A k \in Sets :
       /\ InZone(k) # {} => InZone(k)' # {}
       /\ InZone(k) \cap ask.zone[k] \subseteq InZone(k)'
       /\ live'[k] # live[k] => k \in Planned(ask)]_vars

\* Azure never gets past an rrset it has no mapping for.
Stuck == ask.dns /\ backend = "azure" /\ Planned(ask) \cap Unmapped # {}

\* A plan that is run again until it succeeds is on the backend, and stays.
RerunsConverge == <>[](runs = 0 \/ Stuck \/ Converged)
=============================================================================
