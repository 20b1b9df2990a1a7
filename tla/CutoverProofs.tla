---------------------------- MODULE CutoverProofs ----------------------------
(* Proofs about execute and present, for every set of plans, replies and     *)
(* sites, and any number of runs and of changes of the edges.                *)
EXTENDS Cutover, TLAPS

\* The probes of the plan are shared out among those recorded, the one in
\* flight and those not yet sent; only a run that has them all can decide.
ProbesAccountedFor ==
  /\ pc \in {"compare", "fetch"} =>
       /\ ProbesFromPlan(plan) # {}
       /\ ProbesFromPlan(plan) =
            DOMAIN results \cup todo \cup (IF pc = "fetch" THEN {probe} ELSE {})
  /\ pc = "fetch" => probe \in ProbesFromPlan(plan)

ManualSettled ==
  verb = "execute" /\ (pc \in {"build", "compare", "fetch"} \/ exit = "0") =>
    ~plan.manual \/ accept

DecidedOnAll ==
  exit = "0" => /\ Gate(results)
                /\ DOMAIN results = ProbesFromPlan(plan)
                /\ ProbesFromPlan(plan) # {}

CodeMeetsPlace ==
  /\ pc \in {"idle", "assess", "build", "compare", "fetch"} => exit = "none"
  /\ pc = "assess" => verb = "execute"
  /\ exit = "10" => verb = "execute" /\ plan.manual

IInv ==
  /\ TypeOK
  /\ ProbesAccountedFor
  /\ ManualSettled
  /\ DecidedOnAll
  /\ CodeMeetsPlace

-----------------------------------------------------------------------------

\* What a passing gate says of a probe: the edges answered alike on the hard
\* signals, or neither answered.
LEMMA NoHardFail ==
  ASSUME NEW o, ~HardFail(o)
  PROVE  SameBehaviour(o) \/ Blind(o)
<1>1. CASE o.before = Error \/ o.after = Error
  BY <1>1 DEF HardFail, Blind
<1>2. CASE o.before # Error /\ o.after # Error
  <2>1. HardDiff(o.before, o.after) = {}
    BY <1>2 DEF HardFail
  <2>2. "status" \notin HardDiff(o.before, o.after)
        /\ "redirect" \notin HardDiff(o.before, o.after)
    BY <2>1
  <2>3. o.before.status = o.after.status /\ o.before.location = o.after.location
    BY <2>2 DEF HardDiff
  <2>4. QED
    BY <1>2, <2>3 DEF SameBehaviour
<1>3. QED
  BY <1>1, <1>2

\* The probe that comes next is one of those to come; which one is not used.
LEMMA FirstIsOne == ASSUME NEW probes, probes # {} PROVE FirstOf(probes) \in probes
BY Zenon DEF FirstOf

\* A probe is a record, so a reply is never one of the three markers.
LEMMA Markers ==
  /\ Pending \notin Fetched
  /\ \A f \in SourceReplies \cup StagedReplies, w \in Ways :
       f[w] \in Reply \cup {Down} /\ AsFetched(f[w]) \in Fetched
<1>1. ASSUME NEW f \in SourceReplies \cup StagedReplies, NEW w \in Ways
      PROVE  f[w] \in Reply \cup {Down}
  BY CutoverAssumption DEF Behaviours
<1> QED
  BY <1>1, CutoverAssumption DEF AsFetched, Fetched

LEMMA InitIInv == Init => IInv
<1> SUFFICES ASSUME Init PROVE IInv
  OBVIOUS
<1>1. accept \in BOOLEAN /\ stop \in BOOLEAN /\ disturbed \in BOOLEAN
  BY Zenon DEF Init
<1>2. DOMAIN results = {} /\ got \in [Sides -> Fetched \cup {Pending}]
  BY DEF Init, NoFetch
<1>3. TypeOK
  BY <1>1, <1>2, CutoverAssumption DEF Init, TypeOK, Ways
<1>4. QED
  BY <1>3 DEF Init, IInv, ProbesAccountedFor, ManualSettled, DecidedOnAll, CodeMeetsPlace

\* A change of an edge keeps the edges' types and touches no run.
LEMMA EdgeStep ==
  ASSUME IInv, EdgeChanges PROVE IInv'
<1> USE DEF IInv
<1>1. source' \in [ProbesFromPlan(plan) -> SourceReplies]
      /\ staged' \in [ProbesFromPlan(plan) -> StagedReplies]
  BY DEF EdgeChanges, TypeOK
<1>2. changes' \in 0 .. MaxChanges
  BY CutoverAssumption DEF EdgeChanges, TypeOK
<1>3. disturbed' \in BOOLEAN
  BY Zenon DEF EdgeChanges
<1>4. TypeOK'
  BY <1>1, <1>2, <1>3 DEF EdgeChanges, TypeOK, edges, run
<1>5. QED
  BY <1>4 DEF EdgeChanges, run, ProbesAccountedFor, ManualSettled, DecidedOnAll,
              CodeMeetsPlace

LEMMA StartStep ==
  ASSUME IInv, Start PROVE IInv'
<1> USE DEF IInv
<1>1. stop' \in BOOLEAN /\ disturbed' \in BOOLEAN
  BY Zenon DEF Start
<1>2. runs' \in 0 .. MaxRuns
  BY CutoverAssumption DEF Start, TypeOK
<1>3. DOMAIN results' = {} /\ got' \in [Sides -> Fetched \cup {Pending}]
  BY DEF Start, NoFetch
<1>4. asked' \in [before : {"https", "http"}, after : Ways]
  BY CutoverAssumption DEF Start
<1>5. TypeOK'
  BY <1>1, <1>2, <1>3, <1>4 DEF Start, TypeOK, edges
<1>6. QED
  BY <1>5 DEF Start, ProbesAccountedFor, ManualSettled, DecidedOnAll, CodeMeetsPlace

LEMMA AssessStep ==
  ASSUME IInv, Assess PROVE IInv'
<1> USE DEF IInv
<1>1. TypeOK'
  BY DEF Assess, Exit, TypeOK, edges, run
<1>2. QED
  BY <1>1 DEF Assess, Exit, run, ProbesAccountedFor, ManualSettled, DecidedOnAll,
              CodeMeetsPlace

LEMMA BuildStep ==
  ASSUME IInv, Build PROVE IInv'
<1> USE DEF IInv
<1>1. TypeOK'
  BY DEF Build, Exit, TypeOK, edges, run
<1>2. DOMAIN results \subseteq ProbesFromPlan(plan)
  BY DEF TypeOK
<1>3. ProbesAccountedFor'
  BY <1>2 DEF Build, Exit, ProbesAccountedFor
<1>4. QED
  BY <1>1, <1>3 DEF Build, Exit, run, ManualSettled, DecidedOnAll, CodeMeetsPlace

LEMMA SendStep ==
  ASSUME IInv, SendProbe PROVE IInv'
<1> USE DEF IInv
<1>1. probe' \in todo /\ todo' = todo \ {probe'}
  BY FirstIsOne DEF SendProbe
<1>2. got' \in [Sides -> Fetched \cup {Pending}]
  BY DEF SendProbe, Fetched
<1>3. TypeOK'
  BY <1>1, <1>2 DEF SendProbe, TypeOK, edges, run
<1>4. ProbesAccountedFor'
  BY <1>1 DEF SendProbe, ProbesAccountedFor, TypeOK
<1>5. QED
  BY <1>3, <1>4 DEF SendProbe, run, ManualSettled, DecidedOnAll, CodeMeetsPlace

LEMMA FetchStep ==
  ASSUME IInv, NEW side \in Sides, FetchEnds(side) \/ FetchCancelled(side)
  PROVE  IInv'
<1> USE DEF IInv
<1>1. probe \in ProbesFromPlan(plan)
  BY DEF FetchEnds, FetchCancelled, ProbesAccountedFor
<1>2. AsFetched(Answer(side, probe)) \in Fetched
  BY <1>1, Markers DEF Answer, Live, TypeOK, Ways
<1>3. got' \in [Sides -> Fetched \cup {Pending}]
  BY <1>2, Markers DEF FetchEnds, FetchCancelled, TypeOK, Fetched
<1>4. TypeOK'
  BY <1>3 DEF FetchEnds, FetchCancelled, TypeOK, edges, run
<1>5. QED
  BY <1>4 DEF FetchEnds, FetchCancelled, run, ProbesAccountedFor, ManualSettled,
              DecidedOnAll, CodeMeetsPlace

LEMMA RecordStep ==
  ASSUME IInv, Record PROVE IInv'
<1> USE DEF IInv
<1>1. /\ probe \in ProbesFromPlan(plan)
      /\ got["before"] \in Fetched /\ got["after"] \in Fetched
  BY DEF Record, ProbesAccountedFor, TypeOK, Sides
<1>2. /\ DOMAIN results' = DOMAIN results \cup {probe}
      /\ \A p \in DOMAIN results' :
           results'[p] = IF p = probe
                         THEN [before |-> got["before"], after |-> got["after"]]
                         ELSE results[p]
  BY DEF Record
<1>3. /\ DOMAIN results' \subseteq ProbesFromPlan(plan)
      /\ \A p \in DOMAIN results' : results'[p] \in [before: Fetched, after: Fetched]
  BY <1>1, <1>2 DEF TypeOK
<1>4. got' \in [Sides -> Fetched \cup {Pending}]
  BY DEF Record, NoFetch
<1>5. TypeOK'
  BY <1>3, <1>4 DEF Record, TypeOK, edges, run
<1>6. ProbesAccountedFor'
  BY <1>2 DEF Record, ProbesAccountedFor
<1>7. QED
  BY <1>5, <1>6 DEF Record, run, ManualSettled, DecidedOnAll, CodeMeetsPlace

LEMMA DecideStep ==
  ASSUME IInv, Decide PROVE IInv'
<1> USE DEF IInv
<1>1. TypeOK'
  BY DEF Decide, Exit, TypeOK, edges, run
<1>2. DecidedOnAll'
  BY DEF Decide, Exit, DecidedOnAll, ProbesAccountedFor
<1>3. QED
  BY <1>1, <1>2 DEF Decide, Exit, run, ProbesAccountedFor, ManualSettled, CodeMeetsPlace

-----------------------------------------------------------------------------

LEMMA StepIInv == IInv /\ [Next]_vars => IInv'
<1> SUFFICES ASSUME IInv, [Next]_vars PROVE IInv'
  OBVIOUS
<1>1. CASE EdgeChanges
  BY <1>1, EdgeStep
<1>2. CASE Stop
  <2>1. stop' \in BOOLEAN
    BY <1>2, Zenon DEF Stop
  <2>2. TypeOK'
    BY <1>2, <2>1 DEF Stop, IInv, TypeOK, edges
  <2>3. QED
    BY <1>2, <2>2 DEF Stop, IInv, ProbesAccountedFor, ManualSettled, DecidedOnAll,
                      CodeMeetsPlace
<1>3. CASE Start
  BY <1>3, StartStep
<1>4. CASE Assess
  BY <1>4, AssessStep
<1>5. CASE Build
  BY <1>5, BuildStep
<1>6. CASE SendProbe
  BY <1>6, SendStep
<1>7. CASE \E s \in Sides : FetchEnds(s) \/ FetchCancelled(s)
  BY <1>7, FetchStep
<1>8. CASE Record
  BY <1>8, RecordStep
<1>9. CASE Decide
  BY <1>9, DecideStep
<1>10. CASE FlipDNS
  <2>1. TypeOK'
    BY <1>10 DEF FlipDNS, IInv, TypeOK, run
  <2>2. QED
    BY <1>10, <2>1 DEF FlipDNS, IInv, run, ProbesAccountedFor, ManualSettled,
                       DecidedOnAll, CodeMeetsPlace
<1>11. CASE UNCHANGED vars
  BY <1>11 DEF vars, IInv, TypeOK, ProbesAccountedFor, ManualSettled, DecidedOnAll,
               CodeMeetsPlace
<1>12. QED
  BY <1>1, <1>2, <1>3, <1>4, <1>5, <1>6, <1>7, <1>8, <1>9, <1>10, <1>11
     DEF Next, Run, Compare

\* execute's invariant: every probe of the plan is recorded, in flight or still to
\* be sent, and a decision to proceed was taken on all of them.
THEOREM CutoverInvariant == Spec => []IInv
<1>1. QED
  BY InitIInv, StepIInv, PTL DEF Spec

\* Type correctness.
THEOREM CutoverTypeOK == Spec => []TypeOK
<1>1. IInv => TypeOK
  BY DEF IInv
<1>2. QED
  BY <1>1, CutoverInvariant, PTL

\* An authorised cutover had every probe of its plan answered alike on the hard
\* signals by both edges, or by neither: for any plan, replies and interleaving.
THEOREM CutoverAuthorised == Spec => []AuthorisedOnlyWithoutHardDivergence
<1>1. IInv => AuthorisedOnlyWithoutHardDivergence
  BY NoHardFail DEF IInv, DecidedOnAll, Gate, AuthorisedOnlyWithoutHardDivergence
<1>2. QED
  BY <1>1, CutoverInvariant, PTL

\* execute never authorises a cutover over MANUAL items nobody accepted.
THEOREM CutoverManualStops == Spec => []ManualStopsExecute
<1>1. IInv => ManualStopsExecute
  BY DEF IInv, ManualSettled, CodeMeetsPlace, ManualStopsExecute
<1>2. QED
  BY <1>1, CutoverInvariant, PTL

-----------------------------------------------------------------------------
(* What a verdict says about the edges.                                    *)

\* As long as nobody changes an edge or stops the run, what is recorded, and what the
\* fetches in flight have come back with, is what the edges answer.  An authorised run
\* recorded what the live edge answered before the flip.
Truthful ==
  ~disturbed /\ ~stop =>
    /\ \A p \in DOMAIN results :
         /\ results[p].after = AsFetched(staged[p][asked.after])
         /\ dns = "source" \/ exit # "0" => results[p].before = AsFetched(Live(p))
    /\ pc = "fetch" => \A s \in Sides : got[s] \in {Pending, AsFetched(Answer(s, probe))}

RefusedOnHardFail == exit = "12" => ~Gate(results)

TruthInv ==
  /\ pc = "idle" => DOMAIN results = {}
  /\ RefusedOnHardFail
  /\ Truthful

\* A reply is not an error, so a fetch fails exactly when the edge is down.
LEMMA Fetches ==
  ASSUME NEW reply \in Reply \cup {Down}
  PROVE  AsFetched(reply) = Error <=> reply = Down
BY CutoverAssumption, NoReplyAssumption DEF AsFetched

\* A hard failure, signal by signal.
LEMMA HardFailMeans ==
  ASSUME NEW o
  PROVE  ~HardFail(o) <=>
           \/ Blind(o)
           \/ SameBehaviour(o)
<1>1. HardDiff(o.before, o.after) = {} <=> o.before.status = o.after.status /\ o.before.location = o.after.location
  <2>1. "status" \in HardDiff(o.before, o.after) <=> o.before.status # o.after.status
    BY DEF HardDiff
  <2>2. "redirect" \in HardDiff(o.before, o.after) <=> o.before.location # o.after.location
    BY DEF HardDiff
  <2>3. HardDiff(o.before, o.after) \subseteq {"status", "redirect"}
    BY DEF HardDiff
  <2> QED BY <2>1, <2>2, <2>3
<1> QED BY <1>1 DEF HardFail, SameBehaviour, Blind

LEMMA InitTruth == Init => TruthInv
BY DEF Init, TruthInv, RefusedOnHardFail, Truthful

\* A fetch that ends without a cancellation brings what its edge answers.
LEMMA FetchTruth ==
  ASSUME IInv, TruthInv, NEW side \in Sides, FetchEnds(side) \/ FetchCancelled(side)
  PROVE  TruthInv'
<1>1. /\ pc = "fetch" /\ UNCHANGED <<plan, source, staged, dns, verb, accept, asked, stop, pc, probe, results, disturbed, exit>>
      /\ ~stop => got' = [got EXCEPT ![side] = AsFetched(Answer(side, probe))]
  BY DEF FetchEnds, FetchCancelled, edges, run
<1>2. got \in [Sides -> Fetched \cup {Pending}]
  BY DEF IInv, TypeOK
<1>3. \A s \in Sides : Answer(s, probe)' = Answer(s, probe)
  BY <1>1 DEF Answer, Live
<1>4. Truthful'
  BY <1>1, <1>2, <1>3 DEF TruthInv, Truthful, Live
<1> QED BY <1>1, <1>4 DEF TruthInv, RefusedOnHardFail

LEMMA RecordTruth ==
  ASSUME IInv, TruthInv, Record
  PROVE  TruthInv'
<1>1. /\ pc = "fetch" /\ pc' = "compare" /\ exit = "none"
      /\ UNCHANGED <<plan, source, staged, dns, verb, accept, asked, stop, disturbed, exit>>
      /\ got["before"] # Pending /\ got["after"] # Pending
      /\ DOMAIN results' = DOMAIN results \cup {probe}
      /\ \A p \in DOMAIN results' :
           results'[p] = IF p = probe THEN [before |-> got["before"], after |-> got["after"]]
                                      ELSE results[p]
  BY DEF Record, edges, run, Sides, IInv, CodeMeetsPlace
<1>2. Truthful'
  <2> SUFFICES ASSUME ~disturbed, ~stop, NEW p \in DOMAIN results'
               PROVE  /\ results'[p].after = AsFetched(staged[p][asked.after])
                      /\ results'[p].before = AsFetched(Live(p))
    BY <1>1 DEF Truthful, Live
  <2>1. CASE p = probe
    <3>1. got["before"] = AsFetched(Live(p)) /\ got["after"] = AsFetched(staged[p][asked.after])
      BY <1>1, <2>1 DEF TruthInv, Truthful, Answer, Sides
    <3> QED BY <1>1, <2>1, <3>1
  <2>2. CASE p # probe
    <3>1. p \in DOMAIN results /\ results'[p] = results[p]
      BY <1>1, <2>2
    <3> QED BY <1>1, <3>1 DEF TruthInv, Truthful
  <2> QED BY <2>1, <2>2
<1> QED BY <1>1, <1>2 DEF TruthInv, RefusedOnHardFail

\* A verdict stays true: the edges that change make it a disturbed one, the flip concerns
\* an authorised run only, and a new run starts with nothing recorded.
LEMMA StepTruth == IInv /\ TruthInv /\ [Next]_vars => TruthInv'
<1> SUFFICES ASSUME IInv, TruthInv, [Next]_vars PROVE TruthInv'
  OBVIOUS
<1>1. CASE EdgeChanges
  <2>1. disturbed' = (disturbed \/ pc # "idle") /\ UNCHANGED <<pc, results, exit>>
    BY <1>1 DEF EdgeChanges
  <2>2. Truthful'
    BY <2>1 DEF TruthInv, Truthful
  <2> QED BY <2>1, <2>2 DEF TruthInv, RefusedOnHardFail
<1>2. CASE Stop
  BY <1>2 DEF Stop, TruthInv, RefusedOnHardFail, Truthful
<1>3. CASE Start
  BY <1>3 DEF Start, TruthInv, RefusedOnHardFail, Truthful
<1>4. CASE Assess \/ Build
  <2>1. /\ pc' # "idle" /\ pc' # "fetch" /\ exit' # "12" /\ exit' # "0"
        /\ UNCHANGED <<source, staged, dns, asked, stop, results, disturbed>> /\ exit # "0"
    BY <1>4 DEF Assess, Build, Exit, edges, run, IInv, CodeMeetsPlace
  <2> QED BY <2>1 DEF TruthInv, RefusedOnHardFail, Truthful, Live
<1>5. CASE SendProbe
  <2>1. /\ pc' = "fetch" /\ UNCHANGED <<source, staged, dns, asked, stop, results, disturbed, exit>>
        /\ ~stop => got' = [s \in Sides |-> Pending]
    BY <1>5 DEF SendProbe, edges, run
  <2> QED BY <2>1 DEF TruthInv, RefusedOnHardFail, Truthful, Live
<1>6. CASE \E s \in Sides : FetchEnds(s) \/ FetchCancelled(s)
  BY <1>6, FetchTruth
<1>7. CASE Record
  BY <1>7, RecordTruth
<1>8. CASE Decide
  <2>1. /\ pc' = "done" /\ exit' = (IF Gate(results) THEN "0" ELSE "12") /\ exit = "none"
        /\ UNCHANGED <<source, staged, dns, asked, stop, results, disturbed>>
    BY <1>8 DEF Decide, Exit, edges, run, IInv, CodeMeetsPlace
  <2>2. Truthful'
    BY <2>1 DEF TruthInv, Truthful, Live
  <2> QED BY <2>1, <2>2 DEF TruthInv, RefusedOnHardFail
<1>9. CASE FlipDNS
  BY <1>9 DEF FlipDNS, run, TruthInv, RefusedOnHardFail, Truthful
<1>10. CASE UNCHANGED vars
  BY <1>10 DEF vars, TruthInv, RefusedOnHardFail, Truthful, Live, Answer
<1> QED
  BY <1>1, <1>2, <1>3, <1>4, <1>5, <1>6, <1>7, <1>8, <1>9, <1>10 DEF Next, Run, Compare

\* In every reachable state the records of a run that nobody disturbed are what the edges
\* answer.
THEOREM CutoverTruth == Spec => []TruthInv
BY InitTruth, StepTruth, CutoverInvariant, PTL DEF Spec

\* Before the flip, the verdict of a run that nobody disturbed is the truth about the edges.
THEOREM CutoverVerdict == Spec => []VerdictMatchesEdges
<1>1. IInv /\ TruthInv => VerdictMatchesEdges
  <2> DEFINE old(p) == source[p][asked.before]
             new(p) == staged[p][asked.after]
             Agree(p) == \/ old(p) = Down /\ new(p) = Down
                         \/ /\ old(p) # Down /\ new(p) # Down
                            /\ old(p).status = new(p).status
                            /\ old(p).location = new(p).location
  <2> SUFFICES ASSUME IInv, TruthInv, exit \in {"0", "12"}, ~disturbed, ~stop, dns = "source"
               PROVE  exit = "0" <=> \A p \in ProbesFromPlan(plan) : Agree(p)
    BY DEF VerdictMatchesEdges
  <2>1. \A p \in DOMAIN results : p \in ProbesFromPlan(plan)
    BY DEF IInv, TypeOK
  <2>2. ASSUME NEW p \in DOMAIN results
        PROVE  ~HardFail(results[p]) <=> Agree(p)
    <3>1. old(p) \in Reply \cup {Down} /\ new(p) \in Reply \cup {Down}
      BY <2>1, Markers DEF IInv, TypeOK, Ways
    <3>2. results[p].before = AsFetched(old(p)) /\ results[p].after = AsFetched(new(p))
      BY DEF TruthInv, Truthful, Live
    <3>3. /\ results[p].before = Error <=> old(p) = Down
          /\ results[p].after = Error <=> new(p) = Down
      BY <3>1, <3>2, Fetches
    <3>4. /\ old(p) # Down => results[p].before = old(p)
          /\ new(p) # Down => results[p].after = new(p)
      BY <3>2 DEF AsFetched
    <3> HIDE DEF old, new
    <3> QED BY <3>3, <3>4, HardFailMeans DEF Blind, SameBehaviour
  <2>3. exit = "0" => Gate(results) /\ DOMAIN results = ProbesFromPlan(plan)
    BY DEF IInv, DecidedOnAll
  <2>4. exit = "12" => ~Gate(results)
    BY DEF TruthInv, RefusedOnHardFail
  <2> HIDE DEF Agree
  <2> QED BY <2>1, <2>2, <2>3, <2>4 DEF Gate
<1> QED BY <1>1, CutoverInvariant, CutoverTruth, PTL

\* After the flip a run that nobody disturbed compares an edge with itself, and finds
\* only what the edge itself makes of the two ways it was asked.
THEOREM CutoverNothingAfterFlip == Spec => []NothingToFindAfterFlip
<1>1. IInv /\ TruthInv => NothingToFindAfterFlip
  <2> SUFFICES ASSUME IInv, TruthInv, exit = "12", ~disturbed, ~stop, dns # "source",
                      \A p \in ProbesFromPlan(plan) :
                        staged[p][asked.before] = staged[p][asked.after]
               PROVE  FALSE
    BY DEF NothingToFindAfterFlip
  <2>1. ASSUME NEW p \in DOMAIN results
        PROVE  ~HardFail(results[p])
    <3>1. results[p].before = results[p].after
      BY DEF TruthInv, Truthful, Live, IInv, TypeOK
    <3> QED BY <3>1, HardFailMeans DEF Blind, SameBehaviour
  <2> QED BY <2>1 DEF TruthInv, RefusedOnHardFail, Gate
<1> QED BY <1>1, CutoverInvariant, CutoverTruth, PTL
=============================================================================
