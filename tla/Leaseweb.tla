------------------------------- MODULE Leaseweb -------------------------------
(***************************************************************************)
(* provision --dns leaseweb.  The API has no upsert, so each rrset of the  *)
(* plan is read, deleted and created, and put back when the create fails.  *)
(* A call may fail, or be applied and its answer lost; Ctrl-C cancels the  *)
(* calls made under the root context, all but the one that puts back; the  *)
(* process may be killed; the operator runs it again until it succeeds.    *)
(*                                                                         *)
(* Leaseweb itself is external: POST creates an rrset that does not exist, *)
(* DELETE answers 404 for one that does not.                               *)
(***************************************************************************)
EXTENDS Naturals

CONSTANTS
  N,          \* rrsets of the plan, 1 .. N in the order they are replaced
  Absent,     \* no such rrset in the zone
  MaxFaults,  \* bound: failed calls, lost answers, Ctrl-C and kills
  MaxReruns   \* bound: runs after one that succeeded

ASSUME LeasewebAssumption ==
  /\ N \in Nat \ {0} /\ MaxFaults \in Nat /\ MaxReruns \in Nat
  /\ Absent \notin [name : 1 .. N, version : {"old", "new"}]

VARIABLES
  live,       \* the zone: the rrset of each name, or Absent
  pc,         \* idle; get, delete, create, restore; ok, failed, killed
  k,          \* the rrset the run is at
  prior,      \* what get read of it
  ctx,        \* the root context: open, or done once Ctrl-C came
  said,       \* what the error tells of the previous record
  before,     \* the zone when the run began (history)
  faults,     \* faults so far
  inRun,      \* faults of this run (history)
  failedOn,   \* delete, when its answer is what failed (history)
  reruns

vars == <<live, pc, k, prior, ctx, said, before, faults, inRun, failedOn, reruns>>

Sets   == 1 .. N
RRset  == [name : Sets, version : {"old", "new"}]
Zone   == [Sets -> RRset \cup {Absent}]
Old(s) == [name |-> s, version |-> "old"]
New(s) == [name |-> s, version |-> "new"]

Calls   == {"get", "delete", "create", "restore"}
Running == pc \in Calls
Ended   == {"idle", "ok", "failed", "killed"}

-----------------------------------------------------------------------------

Init ==
  /\ live \in [Sets -> {Old(s) : s \in Sets} \cup {Absent}]
  /\ \A s \in Sets : live[s] \in {Old(s), Absent}
  /\ before = live
  /\ pc = "idle" /\ k = 1
  /\ prior = Absent /\ ctx = "open" /\ said = "nothing"
  /\ faults = 0 /\ inRun = 0 /\ failedOn = "nothing"
  /\ reruns = 0

\* The operator runs provision, again when it failed.
Start ==
  /\ pc \in Ended
  /\ pc = "ok" => reruns < MaxReruns
  /\ reruns' = IF pc = "ok" THEN reruns + 1 ELSE reruns
  /\ before' = live
  /\ pc' = "get" /\ k' = 1
  /\ prior' = Absent /\ ctx' = "open" /\ said' = "nothing"
  /\ inRun' = 0 /\ failedOn' = "nothing"
  /\ UNCHANGED <<live, faults>>

\* A call fails because its context is done, or for a reason of its own, of which
\* Ctrl-C while it is in flight is one.
Fault ==
  \/ ctx = "done" /\ UNCHANGED <<ctx, faults, inRun>>
  \/ /\ ctx = "open"
     /\ faults < MaxFaults
     /\ faults' = faults + 1 /\ inRun' = inRun + 1
     /\ ctx' \in {"open", "done"}

\* GET, where a 404 and any other error alike mean that nothing was there.
Get ==
  /\ pc = "get"
  /\ pc' = "delete"
  /\ \/ ctx = "open" /\ prior' = live[k] /\ UNCHANGED <<ctx, faults, inRun>>
     \/ Fault /\ prior' = Absent
  /\ UNCHANGED <<live, k, said, before, failedOn, reruns>>

DeleteWantsTheRecord ==
  /\ pc = "delete"
  /\ \/ /\ ctx = "open" /\ live[k] # Absent
        /\ live' = [live EXCEPT ![k] = Absent]
        /\ pc' = "create"
        /\ UNCHANGED <<ctx, faults, inRun, failedOn>>
     \/ /\ ctx = "open" /\ live[k] = Absent
        /\ pc' = "failed"
        /\ UNCHANGED <<live, ctx, faults, inRun, failedOn>>
     \/ /\ Fault
        /\ UNCHANGED live \/ (ctx = "open" /\ live' = [live EXCEPT ![k] = Absent])
        /\ pc' = "failed" /\ failedOn' = IF ctx = "open" THEN "delete" ELSE "nothing"
  /\ UNCHANGED <<k, prior, said, before, reruns>>

\* DELETE: a 404 will do; after any other error the run ends there, whether or not
\* the rrset is gone.
Delete ==
  /\ pc = "delete"
  /\ \/ /\ ctx = "open"
        /\ live' = [live EXCEPT ![k] = Absent]
        /\ pc' = "create"
        /\ UNCHANGED <<ctx, faults, inRun, failedOn>>
     \/ /\ Fault
        /\ UNCHANGED live \/ (ctx = "open" /\ live' = [live EXCEPT ![k] = Absent])
        /\ pc' = "failed" /\ failedOn' = IF ctx = "open" THEN "delete" ELSE "nothing"
  /\ UNCHANGED <<k, prior, said, before, reruns>>

\* What POST makes of the zone: an rrset that exists is not replaced.
Post(zone, set) == IF zone[set.name] = Absent THEN [zone EXCEPT ![set.name] = set] ELSE zone

CreateGoingOn ==
  /\ pc = "create"
  /\ k' = IF k < N THEN k + 1 ELSE k
  /\ pc' = IF k < N THEN "get" ELSE "ok"
  /\ \/ /\ ctx = "open"
        /\ live' = Post(live, New(k))
        /\ UNCHANGED <<ctx, faults, inRun>>
     \/ Fault /\ UNCHANGED live
  /\ UNCHANGED <<prior, said, before, failedOn, reruns>>

\* POST the rrset of the plan, and on to the next; a failure goes to restore.
Create ==
  /\ pc = "create"
  /\ \/ /\ ctx = "open"
        /\ live' = Post(live, New(k))
        /\ k' = IF k < N THEN k + 1 ELSE k
        /\ pc' = IF k < N THEN "get" ELSE "ok"
        /\ UNCHANGED <<ctx, faults, inRun>>
     \/ /\ Fault
        /\ UNCHANGED live \/ (ctx = "open" /\ live' = Post(live, New(k)))
        /\ pc' = "restore" /\ UNCHANGED k
  /\ UNCHANGED <<prior, said, before, failedOn, reruns>>

RestoreUnderCtx ==
  /\ pc = "restore"
  /\ pc' = "failed"
  /\ \/ /\ prior # Absent /\ ctx = "open" /\ live[prior.name] = Absent
        /\ live' = Post(live, prior) /\ said' = "restored"
        /\ UNCHANGED <<faults, inRun>>
     \/ /\ prior = Absent \/ ctx = "done"
        /\ said' = "absent" /\ UNCHANGED <<live, faults, inRun>>
  /\ UNCHANGED <<k, prior, ctx, before, failedOn, reruns>>

RestorePostsDesired ==
  /\ pc = "restore"
  /\ pc' = "failed"
  /\ live' = Post(live, New(k))
  /\ said' = IF prior = Absent THEN "unread" ELSE "restored"
  /\ UNCHANGED <<k, prior, ctx, before, faults, inRun, failedOn, reruns>>

\* restore: POST what was read, under a context of its own.
Restore ==
  /\ pc = "restore"
  /\ pc' = "failed"
  /\ \/ /\ prior = Absent
        /\ said' = "unread" /\ UNCHANGED <<live, faults, inRun>>
     \/ /\ prior # Absent
        /\ live' = Post(live, prior)
        /\ said' = IF live[prior.name] = Absent THEN "restored" ELSE "absent"
        /\ UNCHANGED <<faults, inRun>>
     \/ /\ prior # Absent
        /\ faults < MaxFaults /\ faults' = faults + 1 /\ inRun' = inRun + 1
        /\ live' \in {live, Post(live, prior)}
        /\ said' = "absent"
  /\ UNCHANGED <<k, prior, ctx, before, failedOn, reruns>>

CtrlC ==
  /\ Running /\ ctx = "open"
  /\ faults < MaxFaults
  /\ faults' = faults + 1 /\ inRun' = inRun + 1
  /\ ctx' = "done"
  /\ UNCHANGED <<live, pc, k, prior, said, before, failedOn, reruns>>

Kill ==
  /\ Running
  /\ faults < MaxFaults
  /\ faults' = faults + 1 /\ inRun' = inRun + 1
  /\ pc' = "killed"
  /\ UNCHANGED <<live, k, prior, ctx, said, before, failedOn, reruns>>

Next == Start \/ Get \/ Delete \/ Create \/ Restore \/ CtrlC \/ Kill

Spec == Init /\ [][Next]_vars

\* A call ends, by an answer or by the client's 20-second timeout, and the operator
\* runs provision again until it has succeeded.
FairSpec == Spec /\ WF_vars(Get \/ Delete \/ Create \/ Restore) /\ WF_vars(Start)

-----------------------------------------------------------------------------
(* Properties.                                                             *)

TypeOK ==
  /\ live \in Zone /\ before \in Zone
  /\ pc \in Ended \cup Calls
  /\ k \in Sets
  /\ prior \in RRset \cup {Absent}
  /\ ctx \in {"open", "done"} /\ failedOn \in {"nothing", "delete"}
  /\ said \in {"nothing", "unread", "restored", "absent"}
  /\ faults \in 0 .. MaxFaults /\ inRun \in 0 .. faults
  /\ reruns \in 0 .. MaxReruns

\* The rrsets before the one a run stopped at are those of the plan, the ones after it
\* are untouched, and that one is as it was, as planned, or gone: at most one record
\* of the zone is at risk, and it is the one the error names.
OneRecordAtRisk ==
  pc # "idle" =>
    /\ \A s \in Sets : s < k => live[s] = New(s)
    /\ \A s \in Sets : s > k => live[s] = before[s]
    /\ live[k] \in {before[k], New(k), Absent}

\* A run that reports success has left every rrset as planned, though earlier runs
\* stopped anywhere, deleted what they did not put back or put back the old record.
SuccessIsComplete == pc = "ok" => \A s \in Sets : live[s] = New(s)

\* "the previous record was restored" is true of the zone the run found.
RestoredIsWhatWasThere ==
  said = "restored" => live[k] = before[k] /\ before[k] # Absent

\* The record a failed run stopped at is still there, old or new, when one thing went
\* wrong in the run and it was not the answer to the DELETE: a create that failed, a
\* read that failed before a create that did not, or Ctrl-C anywhere.
OneFailureIsCovered ==
  pc = "failed" /\ inRun <= 1 /\ failedOn # "delete" /\ before[k] # Absent => live[k] # Absent

\* Running it again converges on the plan, whatever the failed runs left.
RerunsConverge == <>[](\A s \in Sets : live[s] = New(s))
=============================================================================
