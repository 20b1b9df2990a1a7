------------------------------- MODULE Cutover -------------------------------
(***************************************************************************)
(* execute and present: from the assessment to the parity gate and the     *)
(* operator's DNS flip.  Each probe is sent to the live edge, found by     *)
(* DNS, and to the staged edge, dialled at --after-addr, by two goroutines *)
(* at once.  The edges change and go down while this happens, and SIGINT   *)
(* cancels the context both fetches run under.                             *)
(***************************************************************************)
EXTENDS Parity

CONSTANTS
  PlansExplored,  \* the plans the snapshot and decisions may build
  SourceReplies,  \* what the source edge may answer, asked in each of the ways
  StagedReplies,  \* what the staged edge may answer
  Endpoints,      \* how a run may ask the live edge and the staged one
  Pending,        \* a fetch has not ended
  NoProbe,        \* no probe is in flight
  MaxChanges,     \* bound: changes of an edge in a behaviour
  MaxRuns         \* bound: runs of a verb in a behaviour

ASSUME CutoverAssumption ==
  /\ PlansExplored \subseteq Plans
  /\ SourceReplies \subseteq Behaviours /\ StagedReplies \subseteq Behaviours
  /\ Endpoints \subseteq [before : {"https", "http"}, after : Ways]
  /\ Pending \notin Fetched /\ NoProbe \notin Probe
  /\ MaxChanges \in Nat /\ MaxRuns \in Nat

VARIABLES
  plan,                 \* the input: the plan it builds, its MANUAL findings
  source, staged, dns,  \* the two edges, and which of them DNS names
  verb, accept,         \* the verb running and its --accept-manual
  asked,                \* its --before-scheme, --after-scheme and --insecure-after
  stop,                 \* the root context is cancelled
  pc, todo,             \* the step, and the probes not yet sent
  probe, got,           \* the probe in flight and its two fetches
  results,              \* what Compare recorded, probe by probe
  disturbed,            \* an edge changed while this run compared (history)
  exit,                 \* the run's exit code
  changes, runs         \* counters for the bounds

edges  == <<source, staged, dns>>
run    == <<verb, accept, asked, stop>>
vars   == <<plan, source, staged, dns, verb, accept, asked, stop, pc, todo,
            probe, got, results, disturbed, exit, changes, runs>>

Sides   == {"before", "after"}
NoFetch == [s \in Sides |-> Pending]

\* What an edge answers to the probe in flight.  Execute and present reach the
\* live edge through DNS, which the flip points at the staged one.
LiveIsSource(p) == source[p][asked.before]
Live(p) == (IF dns = "source" THEN source[p] ELSE staged[p])[asked.before]
Answer(side, p) == IF side = "before" THEN Live(p) ELSE staged[p][asked.after]

AsFetched(reply) == IF reply = Down THEN Error ELSE reply

-----------------------------------------------------------------------------

Init ==
  /\ plan \in PlansExplored
  /\ source \in [ProbesFromPlan(plan) -> SourceReplies]
  /\ staged \in [ProbesFromPlan(plan) -> StagedReplies]
  /\ dns = "source"
  /\ verb = "none" /\ accept = FALSE /\ stop = FALSE
  /\ asked = [before |-> "https", after |-> "https"]
  /\ pc = "idle" /\ todo = {}
  /\ probe = NoProbe /\ got = NoFetch
  /\ results = << >>
  /\ disturbed = FALSE
  /\ exit = "none"
  /\ changes = 0 /\ runs = 0

Exit(code) == pc' = "done" /\ exit' = code

(* The environment.                                                        *)

\* An edge that changes before the first run is another initial state.
EdgeChanges ==
  /\ changes < MaxChanges /\ runs > 0
  /\ changes' = changes + 1
  /\ \E p \in DOMAIN staged :
       \/ \E r \in SourceReplies \ {source[p]} :
            source' = [source EXCEPT ![p] = r] /\ UNCHANGED staged
       \/ \E r \in StagedReplies \ {staged[p]} :
            staged' = [staged EXCEPT ![p] = r] /\ UNCHANGED source
  /\ disturbed' = (disturbed \/ pc # "idle")
  /\ UNCHANGED <<plan, dns, run, pc, todo, probe, got, results, exit, runs>>

Stop ==
  /\ pc \notin {"idle", "done"}
  /\ ~stop
  /\ stop' = TRUE
  /\ UNCHANGED <<plan, edges, verb, accept, asked, pc, todo, probe, got, results,
                 disturbed, exit, changes, runs>>

(* One run of a verb.                                                      *)

\* present has no assessment; execute starts with it.
Start ==
  /\ pc \in {"idle", "done"}
  /\ runs < MaxRuns
  /\ runs' = runs + 1
  /\ verb' \in {"execute", "present"}
  /\ accept' \in BOOLEAN
  /\ verb' = "present" => ~accept'
  /\ asked' \in Endpoints
  /\ pc' = IF verb' = "execute" THEN "assess" ELSE "build"
  /\ stop' = FALSE
  /\ todo' = {} /\ probe' = NoProbe /\ got' = NoFetch
  /\ results' = << >> /\ disturbed' = FALSE /\ exit' = "none"
  /\ UNCHANGED <<plan, edges, changes>>

\* MANUAL items stop execute unless --accept-manual.
Assess ==
  /\ pc = "assess"
  /\ IF plan.manual /\ ~accept THEN Exit("10") ELSE pc' = "build" /\ UNCHANGED exit
  /\ UNCHANGED <<plan, edges, run, todo, probe, got, results, disturbed, changes, runs>>

\* plan.Build, which fails when the plan does not validate, and the probes: a
\* run with none ends with a usage error.
Build ==
  /\ pc = "build"
  /\ IF ~plan.valid THEN Exit("1") /\ UNCHANGED todo
     ELSE IF ProbesFromPlan(plan) = {} THEN Exit("2") /\ UNCHANGED todo
     ELSE /\ todo' = ProbesFromPlan(plan)
          /\ pc' = "compare" /\ UNCHANGED exit
  /\ UNCHANGED <<plan, edges, run, probe, got, results, disturbed, changes, runs>>

\* The order of the probes is fixed, and no property needs it.
FirstOf(probes) == CHOOSE p \in probes : TRUE

\* The next probe goes to both edges at once; under a cancelled context neither
\* request leaves.
SendProbe ==
  /\ pc = "compare"
  /\ todo # {}
  /\ probe' = FirstOf(todo)
  /\ todo' = todo \ {probe'}
  /\ got' = [s \in Sides |-> IF stop THEN Error ELSE Pending]
  /\ pc' = "fetch"
  /\ UNCHANGED <<plan, edges, run, results, disturbed, exit, changes, runs>>

FetchWithoutTimeout(side) ==
  /\ pc = "fetch"
  /\ got[side] = Pending
  /\ Answer(side, probe) # Down
  /\ got' = [got EXCEPT ![side] = AsFetched(Answer(side, probe))]
  /\ UNCHANGED <<plan, edges, run, pc, todo, probe, results, disturbed, exit, changes, runs>>

\* A goroutine's fetch ends with what its edge answers at that moment.
FetchEnds(side) ==
  /\ pc = "fetch"
  /\ got[side] = Pending
  /\ got' = [got EXCEPT ![side] = AsFetched(Answer(side, probe))]
  /\ UNCHANGED <<plan, edges, run, pc, todo, probe, results, disturbed, exit, changes, runs>>

\* The context is cancelled under a fetch in flight.
FetchCancelled(side) ==
  /\ pc = "fetch"
  /\ got[side] = Pending
  /\ stop
  /\ got' = [got EXCEPT ![side] = Error]
  /\ UNCHANGED <<plan, edges, run, pc, todo, probe, results, disturbed, exit, changes, runs>>

RecordWithoutWaiting ==
  /\ pc = "fetch"
  /\ got["before"] # Pending
  /\ results' = [p \in DOMAIN results \cup {probe} |->
                   IF p = probe
                   THEN [before |-> got["before"],
                         after |-> IF got["after"] = Pending THEN got["before"]
                                                             ELSE got["after"]]
                   ELSE results[p]]
  /\ probe' = NoProbe /\ got' = NoFetch
  /\ pc' = "compare"
  /\ UNCHANGED <<plan, edges, run, todo, disturbed, exit, changes, runs>>

\* wg.Wait, and the pair is recorded.
Record ==
  /\ pc = "fetch"
  /\ \A s \in Sides : got[s] # Pending
  /\ results' = [p \in DOMAIN results \cup {probe} |->
                   IF p = probe
                   THEN [before |-> got["before"], after |-> got["after"]]
                   ELSE results[p]]
  /\ probe' = NoProbe /\ got' = NoFetch
  /\ pc' = "compare"
  /\ UNCHANGED <<plan, edges, run, todo, disturbed, exit, changes, runs>>

\* The gate.  execute then prints that the cutover is authorised.
Decide ==
  /\ pc = "compare"
  /\ todo = {}
  /\ Exit(IF Gate(results) THEN "0" ELSE "12")
  /\ UNCHANGED <<plan, edges, run, todo, probe, got, results, disturbed, changes, runs>>

\* The operator flips DNS once execute has authorised it.
FlipDNS ==
  /\ pc = "done" /\ verb = "execute" /\ exit = "0"
  /\ dns = "source"
  /\ dns' = "staged"
  /\ UNCHANGED <<plan, source, staged, run, pc, todo, probe, got, results,
                 disturbed, exit, changes, runs>>

Compare == SendProbe \/ (\E s \in Sides : FetchEnds(s) \/ FetchCancelled(s)) \/ Record
Run     == Assess \/ Build \/ Compare \/ Decide

Next == EdgeChanges \/ Stop \/ Start \/ Run \/ FlipDNS

Spec == Init /\ [][Next]_vars

\* Every step of a run is taken: a fetch has a timeout on the client and on the
\* dial.  Nothing is assumed of the edges, the signal or the operator.
FairSpec == Spec /\ WF_vars(Run)

-----------------------------------------------------------------------------
(* Properties.                                                             *)

TypeOK ==
  /\ plan \in PlansExplored
  /\ source \in [ProbesFromPlan(plan) -> SourceReplies]
  /\ staged \in [ProbesFromPlan(plan) -> StagedReplies]
  /\ dns \in {"source", "staged"}
  /\ verb \in {"none", "execute", "present"} /\ accept \in BOOLEAN /\ stop \in BOOLEAN
  /\ asked \in [before : {"https", "http"}, after : Ways]
  /\ pc \in {"idle", "assess", "build", "compare", "fetch", "done"}
  /\ todo \subseteq ProbesFromPlan(plan)
  /\ probe \in ProbesFromPlan(plan) \cup {NoProbe}
  /\ got \in [Sides -> Fetched \cup {Pending}]
  /\ DOMAIN results \subseteq ProbesFromPlan(plan)
  /\ \A p \in DOMAIN results : results[p] \in [before: Fetched, after: Fetched]
  /\ disturbed \in BOOLEAN
  /\ exit \in {"none", "0", "1", "2", "10", "12"}
  /\ changes \in 0 .. MaxChanges /\ runs \in 0 .. MaxRuns

\* A run that authorises the cutover sent every probe of the plan to both edges,
\* and each was answered alike on the hard signals by both, or by neither.
AuthorisedOnlyWithoutHardDivergence ==
  exit = "0" =>
    /\ DOMAIN results = ProbesFromPlan(plan) /\ ProbesFromPlan(plan) # {}
    /\ \A p \in DOMAIN results : SameBehaviour(results[p]) \/ Blind(results[p])

\* execute never authorises a cutover over MANUAL items nobody accepted, and stops
\* over nothing else.
ManualStopsExecute ==
  /\ verb = "execute" /\ exit = "0" => ~plan.manual \/ accept
  /\ exit = "10" => verb = "execute" /\ plan.manual

\* Between two edges that held still, before the flip, the verdict of a run nobody
\* stopped is the truth about the edges, each as it was asked: 0 when they agree on the
\* hard signals wherever one of them answers, 12 only when somewhere they do not.
VerdictMatchesEdges ==
  exit \in {"0", "12"} /\ ~disturbed /\ ~stop /\ dns = "source" =>
    (exit = "0" <=> \A p \in ProbesFromPlan(plan) :
       LET old == source[p][asked.before]
           new == staged[p][asked.after]
       IN \/ old = Down /\ new = Down
          \/ /\ old # Down /\ new # Down
             /\ old.status = new.status /\ old.location = new.location)

\* Once DNS names the new edge, present compares it with itself: on an edge that holds
\* still it fails only where the edge tells the two ways of asking apart (two schemes, or
\* a certificate that --insecure-after spares one of them), so asked alike it passes and
\* says nothing about the source.
NothingToFindAfterFlip ==
  exit = "12" /\ ~disturbed /\ ~stop =>
    dns = "source" \/ \E p \in ProbesFromPlan(plan) :
                         staged[p][asked.before] # staged[p][asked.after]

\* Every run ends, whatever the edges and the operator do.
RunEnds == pc = "assess" \/ pc = "build" ~> pc = "done"

=============================================================================
