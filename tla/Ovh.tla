--------------------------------- MODULE Ovh ---------------------------------
(***************************************************************************)
(* provision --dns ovh.  For each rrset of the plan the records staged     *)
(* under its name and type are listed, deleted one by one, and the plan's  *)
(* posted; a final refresh publishes what is staged.  Any call may fail,   *)
(* or be applied and its answer lost, and the run ends there; a kill shows *)
(* as one of the two.  A listing whose body is lost reads as an empty one, *)
(* and the run goes on.  The operator runs it again, maybe with another    *)
(* plan for the same rrsets.                                               *)
(*                                                                         *)
(* OVH itself is external: record calls change the staged zone only, and   *)
(* refresh makes it the live one.  A record posted twice counts once: an   *)
(* rrset is a set to resolvers, and every id the listing gives is deleted. *)
(***************************************************************************)
EXTENDS Naturals, FiniteSets

CONSTANTS
  N,          \* rrsets of the plan, 1 .. N in the order they are replaced
  Values,     \* record contents
  Zones,      \* the plans asked for
  Initial,    \* the zone before the first run
  MaxFaults,  \* bound: calls that fail, answers and bodies lost
  MaxRuns     \* bound: changes of plan and reruns after a success

Sets == 1 .. N
Zone == [Sets -> SUBSET Values]

\* Two plans of one migration have the same rrsets.
ASSUME OvhAssumption ==
  /\ N \in Nat \ {0} /\ MaxFaults \in Nat /\ MaxRuns \in Nat
  /\ Initial \in Zone /\ Zones \subseteq Zone
  /\ IsFiniteSet(Values)

VARIABLES
  live,    \* what resolvers see
  staged,  \* the records the API lists
  pc,      \* idle; list, delete, create, refresh; ok, failed
  plan,    \* the zone this run is to publish
  k,       \* the rrset it is at
  ids,     \* listed, still to delete
  todo,    \* planned, still to post
  unread,  \* rrsets whose listing lost its body in this run (history)
  faults, runs

vars == <<live, staged, pc, plan, k, ids, todo, unread, faults, runs>>

Ended == {"idle", "ok", "failed"}

-----------------------------------------------------------------------------

Init ==
  /\ live = Initial /\ staged = Initial
  /\ pc = "idle" /\ plan = Initial /\ k = 1
  /\ ids = {} /\ todo = {} /\ unread = {}
  /\ faults = 0 /\ runs = 0

Start(zone) ==
  /\ pc \in Ended
  /\ IF pc = "failed" /\ zone = plan
     THEN UNCHANGED runs
     ELSE runs < MaxRuns /\ runs' = runs + 1
  /\ plan' = zone
  /\ pc' = "list" /\ k' = 1 /\ unread' = {}
  /\ UNCHANGED <<live, staged, ids, todo, faults>>

\* A call that fails ends the run: it left the staged zone as it was, or as after.
Fault(after) ==
  /\ faults < MaxFaults /\ faults' = faults + 1
  /\ staged' \in {staged, after}
  /\ pc' = "failed"

\* GET the record ids under the rrset's name and type.  A body that does not come is no
\* error: there is nothing to delete.
List ==
  /\ pc = "list"
  /\ \/ /\ ids' = staged[k] /\ todo' = plan[k]
        /\ pc' = "delete"
        /\ UNCHANGED <<staged, unread, faults>>
     \/ /\ faults < MaxFaults /\ faults' = faults + 1
        /\ ids' = {} /\ todo' = plan[k] /\ unread' = unread \cup {k}
        /\ pc' = "delete"
        /\ UNCHANGED staged
     \/ Fault(staged) /\ UNCHANGED <<ids, todo, unread>>
  /\ UNCHANGED <<live, plan, k, runs>>

\* DELETE one of them.
Delete(r) ==
  LET after == [staged EXCEPT ![k] = @ \ {r}] IN
  /\ pc = "delete" /\ r \in ids
  /\ \/ staged' = after /\ ids' = ids \ {r} /\ UNCHANGED <<pc, faults>>
     \/ Fault(after) /\ UNCHANGED ids
  /\ UNCHANGED <<live, plan, k, todo, unread, runs>>

Deleted ==
  /\ pc = "delete" /\ ids = {}
  /\ pc' = "create"
  /\ UNCHANGED <<live, staged, plan, k, ids, todo, unread, faults, runs>>

CreatePublishing(r) ==
  /\ pc = "create" /\ r \in todo
  /\ staged' = [staged EXCEPT ![k] = @ \cup {r}] /\ live' = staged'
  /\ todo' = todo \ {r}
  /\ UNCHANGED <<pc, plan, k, ids, unread, faults, runs>>

\* POST one record of the plan.
Create(r) ==
  LET after == [staged EXCEPT ![k] = @ \cup {r}] IN
  /\ pc = "create" /\ r \in todo
  /\ \/ staged' = after /\ todo' = todo \ {r} /\ UNCHANGED <<pc, faults>>
     \/ Fault(after) /\ UNCHANGED todo
  /\ UNCHANGED <<live, plan, k, ids, unread, runs>>

\* The next rrset, or the refresh.
Created ==
  /\ pc = "create" /\ todo = {}
  /\ IF k < N THEN pc' = "list" /\ k' = k + 1 ELSE pc' = "refresh" /\ UNCHANGED k
  /\ UNCHANGED <<live, staged, plan, ids, todo, unread, faults, runs>>

RefreshUnread ==
  /\ pc = "refresh"
  /\ pc' = "ok"
  /\ \/ live' = staged /\ UNCHANGED faults
     \/ faults < MaxFaults /\ faults' = faults + 1 /\ UNCHANGED live
  /\ UNCHANGED <<staged, plan, k, ids, todo, unread, runs>>

\* POST refresh.
Refresh ==
  /\ pc = "refresh"
  /\ \/ live' = staged /\ pc' = "ok" /\ UNCHANGED <<staged, faults>>
     \/ Fault(staged) /\ live' \in {live, staged}
  /\ UNCHANGED <<plan, k, ids, todo, unread, runs>>

Call ==
  \/ List \/ Deleted \/ Created \/ Refresh
  \/ \E r \in Values : Delete(r) \/ Create(r)

Next == Call \/ \E zone \in Zones : Start(zone)

Spec == Init /\ [][Next]_vars

\* A call ends, by an answer or the client's timeout, and the operator runs a plan
\* that failed again.
FairSpec == Spec /\ WF_vars(Call) /\ WF_vars(pc = "failed" /\ Start(plan))

-----------------------------------------------------------------------------
(* Properties.                                                             *)

TypeOK ==
  /\ live \in Zone /\ staged \in Zone /\ plan \in Zone
  /\ pc \in Ended \cup {"list", "delete", "create", "refresh"}
  /\ k \in Sets /\ unread \subseteq Sets
  /\ ids \subseteq Values /\ todo \subseteq Values
  /\ faults \in 0 .. MaxFaults /\ runs \in 0 .. MaxRuns

\* A zone has what this run was asked for, and of the rrsets it read nothing else.
AsPlanned(zone) ==
  \A s \in Sets :
    /\ plan[s] \subseteq zone[s]
    /\ s \notin unread => zone[s] = plan[s]

\* Halfway through a run the staged zone is a prefix of the plan, one rrset in
\* transit, and the rest of what the run found: at the refresh it is the plan, beside
\* what was there of an rrset whose listing had no body.
StagedIsThePlan == pc = "refresh" => AsPlanned(staged)

P == INSTANCE Publication WITH
  wish <- plan,
  missed <- unread,
  told <- IF pc \in {"ok", "failed"} THEN pc ELSE "none"

\* Resolvers only ever see a whole zone, the initial one or a plan, however many runs
\* stopped halfway, and a run that reports success has published its plan.  A listing
\* that lost its body leaves records of earlier plans beside it in that rrset, in no other.
PublishesWholeZones == P!Spec

\* A plan that is run again until it succeeds is published, and stays; exactly, of the
\* rrsets its last run read.
RerunsPublish == <>[](runs = 0 \/ AsPlanned(live))
=============================================================================
