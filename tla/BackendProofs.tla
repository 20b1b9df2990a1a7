--------------------------- MODULE BackendProofs ---------------------------
(* What holds of the two backends without an upsert for any number of rrsets,
   faults and runs: Leaseweb, which works on the live zone, and then OVH, which
   stages and publishes. *)
EXTENDS Leaseweb, TLAPS

\* An rrset is stored under its own name.
Named(zone) == \A s \in Sets : zone[s] # Absent => zone[s].name = s

\* Where a call finds the rrset the run is at, and what get can have read of it.
AtCall ==
  /\ pc \in {"get", "delete"} => live[k] = before[k]
  /\ pc = "create" => live[k] = Absent
  /\ pc = "restore" => live[k] \in {Absent, New(k)}
  /\ pc \in {"delete", "create", "restore"} => prior \in {Absent, before[k]}
  /\ pc = "ok" => k = N /\ live[k] = New(k)

\* Get came back with nothing though the rrset was there.
Missed == prior = Absent /\ before[k] # Absent

\* How many things have gone wrong by now.
Counted ==
  /\ ctx = "done" => inRun >= 1
  /\ pc \in {"delete", "create"} /\ Missed => inRun >= 1
  /\ pc = "create" /\ Missed /\ ctx = "done" => inRun >= 2
  /\ pc = "restore" => inRun >= 1
  /\ pc = "restore" /\ Missed => inRun >= 2

Told ==
  /\ said # "nothing" => pc = "failed"
  /\ RestoredIsWhatWasThere

Names == Named(live) /\ Named(before)

Inv ==
  /\ TypeOK /\ Names
  /\ OneRecordAtRisk /\ AtCall
  /\ Counted /\ Told /\ OneFailureIsCovered

\* The parts of the assumption that arithmetic needs, apart from the rest.
LEMMA Bounds == N \in Nat /\ N >= 1 /\ MaxFaults \in Nat /\ MaxReruns \in Nat
  BY LeasewebAssumption

LEMMA CountsAreNat ==
  ASSUME Inv
  PROVE  k \in Nat /\ k >= 1 /\ k <= N /\ faults \in Nat /\ inRun \in Nat
  BY Bounds DEF Inv, TypeOK, Sets

\* Changing one rrset of a zone changes no other.
LEMMA Change ==
  ASSUME NEW zone \in Zone, NEW s \in Sets, NEW set \in RRset \cup {Absent}
  PROVE  /\ [zone EXCEPT ![s] = set] \in Zone
         /\ [zone EXCEPT ![s] = set][s] = set
         /\ \A t \in Sets : t # s => [zone EXCEPT ![s] = set][t] = zone[t]
  BY DEF Zone

LEMMA NewIsRRset ==
  ASSUME NEW s \in Sets
  PROVE  New(s) \in RRset /\ New(s) # Absent /\ New(s).name = s
  BY LeasewebAssumption DEF New, RRset, Sets

LEMMA InitInv == Init => Inv
<1> SUFFICES ASSUME Init PROVE Inv
  OBVIOUS
<1>1. live \in Zone /\ Named(live)
  BY LeasewebAssumption DEF Init, Zone, RRset, Old, Named, Sets
<1>2. TypeOK
  BY <1>1, LeasewebAssumption DEF Init, TypeOK, Sets, Ended
<1>3. Names /\ OneRecordAtRisk /\ AtCall /\ Counted /\ Told /\ OneFailureIsCovered
  BY <1>1 DEF Init, Names, OneRecordAtRisk, AtCall, Counted, Told, OneFailureIsCovered,
     RestoredIsWhatWasThere
<1> QED  BY <1>2, <1>3 DEF Inv

LEMMA StartKeeps ==
  ASSUME Inv, Start
  PROVE  Inv'
<1>1. TypeOK'
  BY Bounds DEF Inv, TypeOK, Start, Sets, Calls
<1>2. Names' /\ AtCall' /\ Counted' /\ Told' /\ OneFailureIsCovered'
  BY DEF Inv, Names, Named, AtCall, Counted, Told, RestoredIsWhatWasThere, OneFailureIsCovered,
     Start
<1>3. OneRecordAtRisk'
  BY DEF OneRecordAtRisk, Start, Sets
<1> QED  BY <1>1, <1>2, <1>3 DEF Inv

LEMMA GetKeeps ==
  ASSUME Inv, Get
  PROVE  Inv'
<1>1. TypeOK'
  BY Bounds DEF Inv, TypeOK, Get, Fault, Zone, Calls
<1>2. Names' /\ OneRecordAtRisk' /\ AtCall' /\ Told' /\ OneFailureIsCovered'
  BY DEF Inv, Names, Named, OneRecordAtRisk, AtCall, Told, RestoredIsWhatWasThere,
     OneFailureIsCovered, Get, New
<1>3. Counted'
  BY DEF Inv, TypeOK, AtCall, Counted, Missed, Get, Fault
<1> QED  BY <1>1, <1>2, <1>3 DEF Inv

\* What every step that works on one rrset leaves alone.
LEMMA OneChanges ==
  ASSUME Inv, pc # "idle", k' = k, before' = before,
         NEW set \in {before[k], New(k), Absent}, live' = [live EXCEPT ![k] = set]
  PROVE  live' \in Zone /\ live'[k] = set /\ Names' /\ OneRecordAtRisk'
<1>1. set \in RRset \cup {Absent} /\ (set # Absent => set.name = k)
  BY NewIsRRset DEF Inv, TypeOK, Names, Named, Zone
<1>2. /\ live' \in Zone /\ live'[k] = set
      /\ \A t \in Sets : t # k => live'[t] = live[t]
  BY <1>1 DEF Inv, TypeOK, Zone
<1>3. Names'
  BY <1>1, <1>2 DEF Inv, TypeOK, Names, Named
<1>4. \A t \in Sets : t < k \/ t > k => t # k
  BY CountsAreNat, Bounds DEF Sets
<1>5. OneRecordAtRisk'
  BY <1>2, <1>4 DEF Inv, OneRecordAtRisk, New
<1> QED  BY <1>2, <1>3, <1>5

LEMMA NoneChanges ==
  ASSUME Inv, k' = k, before' = before, live' = live, pc # "idle"
  PROVE  Names' /\ OneRecordAtRisk'
  BY DEF Inv, Names, Named, OneRecordAtRisk, New

LEMMA DeleteKeeps ==
  ASSUME Inv, Delete
  PROVE  Inv'
<1>1. CASE live' = [live EXCEPT ![k] = Absent] /\ pc' = "create" /\ ctx = "open"
  <2>1. live' \in Zone /\ live'[k] = Absent /\ Names' /\ OneRecordAtRisk'
    BY <1>1, OneChanges DEF Delete
  <2>2. TypeOK'
    BY <1>1, <2>1 DEF Inv, TypeOK, Delete, Fault, Calls
  <2>3. Counted'
    BY <1>1 DEF Inv, Counted, Missed, Delete, Fault
  <2>4. AtCall' /\ Told' /\ OneFailureIsCovered'
    BY <1>1, <2>1 DEF Inv, AtCall, Told, RestoredIsWhatWasThere, OneFailureIsCovered, Delete
  <2> QED  BY <2>1, <2>2, <2>3, <2>4 DEF Inv
<1>2. CASE pc' = "failed"
  <2>0. /\ Fault /\ pc = "delete" /\ k' = k /\ before' = before
        /\ failedOn' = IF ctx = "open" THEN "delete" ELSE "nothing"
    BY <1>2 DEF Delete
  <2>1. live' \in Zone /\ Names' /\ OneRecordAtRisk'
    <3>1. CASE live' = live
      BY <3>1, <2>0, NoneChanges DEF Inv, TypeOK
    <3>2. CASE live' = [live EXCEPT ![k] = Absent]
      BY <3>2, <2>0, OneChanges
    <3> QED  BY <1>2, <3>1, <3>2 DEF Delete
  <2>2. TypeOK'
    BY <1>2, <2>1, Bounds DEF Inv, TypeOK, Delete, Fault, Ended
  <2>3. Counted'
    BY <1>2, <2>0 DEF Inv, TypeOK, Counted, Fault
  <2>4. AtCall' /\ Told'
    BY <1>2 DEF Inv, AtCall, Told, RestoredIsWhatWasThere, Delete
  <2>5. OneFailureIsCovered'
    <3>1. CASE ctx = "done"
      BY <3>1, <1>2, <2>0 DEF Inv, AtCall, OneFailureIsCovered, Delete
    <3>2. CASE ctx = "open"
      BY <3>2, <2>0 DEF OneFailureIsCovered
    <3> QED  BY <3>1, <3>2 DEF Inv, TypeOK
  <2> QED  BY <2>1, <2>2, <2>3, <2>4, <2>5 DEF Inv
<1> QED  BY <1>1, <1>2 DEF Delete

\* Where nothing is, POST puts.
LEMMA PostsAtCreate ==
  ASSUME Inv, pc = "create"
  PROVE  Post(live, New(k)) = [live EXCEPT ![k] = New(k)]
  BY NewIsRRset DEF Inv, TypeOK, AtCall, Post

LEMMA CreateKeeps ==
  ASSUME Inv, Create
  PROVE  Inv'
<1>0. k \in Sets /\ pc = "create" /\ before' = before /\ prior' = prior /\ said' = said
  BY DEF Inv, TypeOK, Create
<1>1. CASE live' = Post(live, New(k)) /\ ctx = "open" /\ UNCHANGED <<ctx, faults, inRun>>
           /\ k' = (IF k < N THEN k + 1 ELSE k) /\ pc' = (IF k < N THEN "get" ELSE "ok")
  <2>1. /\ live' \in Zone /\ live'[k] = New(k)
        /\ \A t \in Sets : t # k => live'[t] = live[t]
    BY <1>0, <1>1, PostsAtCreate, NewIsRRset, Change DEF Inv, TypeOK
  <2>2. Names'
    BY <1>0, <2>1, NewIsRRset DEF Inv, Names, Named
  <2>3. TypeOK'
    BY <1>0, <1>1, <2>1, Bounds DEF Inv, TypeOK, Create, Sets, Calls, Ended
  <2>4. \A t \in Sets : (t < k => live'[t] = New(t)) /\ (t > k => live'[t] = before[t])
    BY <1>0, <2>1, Bounds DEF Inv, OneRecordAtRisk, Sets
  <2>5. CASE k < N
    <3>1. k + 1 \in Sets /\ k' = k + 1 /\ pc' = "get"
      BY <2>5, <1>0, <1>1, Bounds DEF Sets
    <3>2. live'[k'] = before'[k']
      BY <3>1, <2>4, <1>0, Bounds DEF Sets
    <3>3. \A t \in Sets : (t < k + 1 => t < k \/ t = k) /\ (t > k + 1 => t > k)
      BY <1>0 DEF Sets
    <3>4. OneRecordAtRisk'
      BY <3>1, <3>2, <3>3, <2>1, <2>4, <1>0 DEF OneRecordAtRisk, New
    <3>5. AtCall' /\ OneFailureIsCovered'
      BY <3>1, <3>2 DEF AtCall, OneFailureIsCovered
    <3>6. Counted' /\ Told'
      BY <3>1, <1>0, <1>1 DEF Inv, Counted, Told, RestoredIsWhatWasThere
    <3> QED  BY <2>2, <2>3, <3>4, <3>5, <3>6 DEF Inv
  <2>6. CASE ~(k < N)
    <3>1. k' = k /\ k = N /\ pc' = "ok"
      BY <2>6, <1>0, <1>1, Bounds DEF Sets
    <3>2. OneRecordAtRisk' /\ AtCall' /\ OneFailureIsCovered'
      BY <3>1, <2>1, <2>4, <1>0 DEF OneRecordAtRisk, AtCall, OneFailureIsCovered, New
    <3>3. Counted' /\ Told'
      BY <3>1, <1>0, <1>1 DEF Inv, Counted, Told, RestoredIsWhatWasThere
    <3> QED  BY <2>2, <2>3, <3>2, <3>3 DEF Inv
  <2> QED  BY <2>5, <2>6
<1>2. CASE pc' = "restore" /\ k' = k /\ Fault
           /\ (live' = live \/ live' = Post(live, New(k)))
  <2>1. live' \in Zone /\ live'[k] \in {Absent, New(k)} /\ Names' /\ OneRecordAtRisk'
    <3>1. CASE live' = live
      BY <3>1, <1>0, <1>2, NoneChanges DEF Inv, TypeOK, AtCall
    <3>2. CASE live' = Post(live, New(k))
      BY <3>2, <1>0, <1>2, PostsAtCreate, OneChanges
    <3> QED  BY <1>2, <3>1, <3>2
  <2>2. TypeOK'
    BY <1>0, <1>2, <2>1, Bounds DEF Inv, TypeOK, Create, Fault, Calls
  <2>3. Counted'
    BY <1>0, <1>2 DEF Inv, TypeOK, Counted, Missed, Fault
  <2>4. AtCall' /\ Told' /\ OneFailureIsCovered'
    BY <1>0, <1>2, <2>1 DEF Inv, AtCall, Told, RestoredIsWhatWasThere, OneFailureIsCovered, New
  <2> QED  BY <2>1, <2>2, <2>3, <2>4 DEF Inv
<1> QED  BY <1>1, <1>2 DEF Create

LEMMA RestoreKeeps ==
  ASSUME Inv, Restore
  PROVE  Inv'
<1>0. /\ k \in Sets /\ pc = "restore" /\ pc' = "failed" /\ k' = k /\ before' = before
      /\ ctx' = ctx /\ failedOn' = failedOn /\ inRun \in Nat
  BY DEF Inv, TypeOK, Restore
<1>1. prior # Absent => prior = before[k] /\ prior.name = k /\ prior \in RRset
  BY <1>0 DEF Inv, TypeOK, AtCall, Names, Named
<1>2. prior # Absent =>
        Post(live, prior) = IF live[k] = Absent THEN [live EXCEPT ![k] = prior] ELSE live
  BY <1>1 DEF Post
<1>3. live' \in Zone /\ Names' /\ OneRecordAtRisk'
  <2>1. CASE live' = live
    BY <2>1, <1>0, NoneChanges DEF Inv, TypeOK
  <2>2. CASE prior # Absent /\ live' = [live EXCEPT ![k] = prior]
    BY <2>2, <1>0, <1>1, OneChanges
  <2> QED  BY <1>2, <2>1, <2>2 DEF Restore
<1>4. TypeOK'
  BY <1>0, <1>3, Bounds DEF Inv, TypeOK, Restore, Ended
<1>5. Counted'
  BY <1>0 DEF Inv, Counted, Restore
<1>6. AtCall'
  BY <1>0 DEF AtCall
<1>7. Told'
  <2>1. CASE said' = "restored"
    <3>1. prior # Absent /\ live' = Post(live, prior) /\ live[k] = Absent
      BY <2>1, <1>1 DEF Restore
    <3> QED  BY <3>1, <1>0, <1>1, <1>2, Change DEF Inv, TypeOK, Told, RestoredIsWhatWasThere
  <2>2. CASE said' # "restored"
    BY <2>2, <1>0 DEF Told, RestoredIsWhatWasThere
  <2> QED  BY <2>1, <2>2
<1>8. OneFailureIsCovered'
  <2>1. CASE prior = Absent
    BY <2>1, <1>0 DEF Inv, Counted, Missed, OneFailureIsCovered, Restore
  <2>2. CASE prior # Absent /\ inRun' = inRun
    <3>1. live' = Post(live, prior)
      BY <2>2, <1>0 DEF Restore
    <3>2. live'[k] # Absent
      BY <3>1, <2>2, <1>0, <1>1, <1>2, Change DEF Inv, TypeOK
    <3> QED  BY <3>2, <1>0 DEF OneFailureIsCovered
  <2>3. CASE prior # Absent /\ inRun' # inRun
    <3>1. inRun' >= 2
      BY <2>3, <1>0 DEF Inv, Counted, Restore
    <3> QED  BY <3>1, <1>0 DEF OneFailureIsCovered, Restore
  <2> QED  BY <2>1, <2>2, <2>3
<1> QED  BY <1>3, <1>4, <1>5, <1>6, <1>7, <1>8 DEF Inv

LEMMA InterruptKeeps ==
  ASSUME Inv, CtrlC \/ Kill
  PROVE  Inv'
<1>0. Running /\ live' = live /\ k' = k /\ before' = before /\ inRun' = inRun + 1
      /\ inRun \in Nat /\ said' = said /\ prior' = prior /\ (pc' = pc \/ pc' = "killed")
  BY DEF Inv, TypeOK, CtrlC, Kill
<1>1. TypeOK'
  BY Bounds DEF Inv, TypeOK, CtrlC, Kill, Ended
<1>2. Names' /\ OneRecordAtRisk'
  BY <1>0, NoneChanges DEF Running, Calls
<1>3. AtCall' /\ Told' /\ OneFailureIsCovered'
  BY <1>0 DEF Inv, AtCall, Told, RestoredIsWhatWasThere, OneFailureIsCovered, Running, Calls, New
<1>4. Counted'
  BY <1>0 DEF Inv, Counted, Missed
<1> QED  BY <1>1, <1>2, <1>3, <1>4 DEF Inv

\* Any step keeps the invariant.
LEMMA StepKeepsInv == Inv /\ [Next]_vars => Inv'
<1> SUFFICES ASSUME Inv, [Next]_vars PROVE Inv'
  OBVIOUS
<1>1. CASE Next
  BY <1>1, StartKeeps, GetKeeps, DeleteKeeps, CreateKeeps, RestoreKeeps, InterruptKeeps DEF Next
<1>2. CASE UNCHANGED vars
  BY <1>2 DEF vars, Inv, TypeOK, Names, Named, OneRecordAtRisk, AtCall, Counted, Missed, Told,
     RestoredIsWhatWasThere, OneFailureIsCovered, New
<1> QED  BY <1>1, <1>2

\* Where the run is tells what the rrset at hand, what was read of it and the faults may be.
THEOREM LeasewebInvariant == Spec => []Inv
<1>1. Init => Inv  BY InitInv
<1>2. Inv /\ [Next]_vars => Inv'  BY StepKeepsInv
<1> QED  BY <1>1, <1>2, PTL DEF Spec

\* The model stays within its types.
THEOREM LeasewebTypeOK == Spec => []TypeOK
<1>1. Inv => TypeOK  BY DEF Inv
<1> QED  BY <1>1, LeasewebInvariant, PTL

\* Whatever fails, at most the record the error names is at risk.
THEOREM LeasewebOneRecordAtRisk == Spec => []OneRecordAtRisk
<1>1. Inv => OneRecordAtRisk  BY DEF Inv
<1> QED  BY <1>1, LeasewebInvariant, PTL

\* A run that reports success has left the whole zone as planned.
THEOREM LeasewebSuccessIsComplete == Spec => []SuccessIsComplete
<1>1. Inv => SuccessIsComplete
  <2> SUFFICES ASSUME Inv, pc = "ok", NEW s \in Sets PROVE live[s] = New(s)
    BY DEF SuccessIsComplete
  <2>1. k = N /\ live[k] = New(k)
    BY DEF Inv, AtCall
  <2>2. s < k \/ s = k
    BY <2>1, Bounds DEF Sets
  <2> QED  BY <2>1, <2>2 DEF Inv, OneRecordAtRisk
<1> QED  BY <1>1, LeasewebInvariant, PTL

\* "The previous record was restored" is true when it is said.
THEOREM LeasewebRestored == Spec => []RestoredIsWhatWasThere
<1>1. Inv => RestoredIsWhatWasThere  BY DEF Inv, Told
<1> QED  BY <1>1, LeasewebInvariant, PTL

\* One failure other than the answer to the DELETE costs no record.
THEOREM LeasewebOneFailure == Spec => []OneFailureIsCovered
<1>1. Inv => OneFailureIsCovered  BY DEF Inv
<1> QED  BY <1>1, LeasewebInvariant, PTL

-----------------------------------------------------------------------------
(* OVH.  The model is read over the names below, and those of Leaseweb that
   it shares; no theorem speaks of both.                                    *)

CONSTANTS Values, Zones, Initial, MaxRuns

VARIABLES staged, plan, ids, todo, unread, runs

O == INSTANCE Ovh

\* An rrset of a zone has what it was asked for, and nothing else when it was read.
Right(zone, s) ==
  /\ plan[s] \subseteq zone[s]
  /\ s \notin unread => zone[s] = plan[s]

\* The rrsets the run is done with are right, and the one in transit holds what is still
\* to delete and what has been posted, beside what a lost listing did not show.  Nothing
\* is said of the others: a run starts from whatever the one before left staged.
Transit ==
  /\ pc \in {"list", "delete", "create"} => \A s \in O!Sets : s < k => Right(staged, s)
  /\ pc = "delete" => todo = plan[k] /\ (k \notin unread => staged[k] = ids)
  /\ pc = "create" =>
       /\ todo \subseteq plan[k] /\ plan[k] \ todo \subseteq staged[k]
       /\ k \notin unread => staged[k] = plan[k] \ todo
  /\ pc = "refresh" => \A s \in O!Sets : Right(staged, s)

\* Nothing is staged that nobody asked for.
Asked(s) == O!P!Asked(s)
Known == \A s \in O!Sets : staged[s] \subseteq Asked(s) /\ plan[s] \subseteq Asked(s)

\* The zone a run that succeeded was asked for is the one resolvers see.
Published == pc = "ok" => \A s \in O!Sets : Right(live, s)

Staging == O!TypeOK /\ Transit /\ Known /\ Published

LEMMA AskedOf ==
  ASSUME NEW zone \in Zones \cup {Initial}, NEW s
  PROVE  zone[s] \subseteq Asked(s)
  BY DEF Asked, O!P!Asked

LEMMA OvhInitInv ==
  ASSUME O!OvhAssumption
  PROVE  O!Init => Staging
<1> SUFFICES ASSUME O!Init PROVE Staging
  OBVIOUS
<1>1. O!TypeOK /\ Transit /\ Published
  BY DEF O!Init, O!TypeOK, Transit, Published, O!Sets, O!Ended, O!OvhAssumption
<1>2. Known
  BY AskedOf DEF O!Init, Known
<1> QED  BY <1>1, <1>2 DEF Staging

LEMMA OvhStartKeeps ==
  ASSUME O!OvhAssumption, Staging, NEW zone \in Zones, O!Start(zone)
  PROVE  Staging'
<1>1. O!TypeOK'
  BY DEF Staging, O!TypeOK, O!Start, O!Sets, O!Ended, O!OvhAssumption
<1>2. Transit'
  BY DEF Staging, O!TypeOK, Transit, O!Start, O!Sets, O!Ended, O!OvhAssumption
<1>3. Known'
  BY AskedOf DEF Staging, Known, O!Start, Asked, O!P!Asked
<1>4. Published'
  BY DEF Published, O!Start
<1> QED  BY <1>1, <1>2, <1>3, <1>4 DEF Staging

LEMMA OvhListKeeps ==
  ASSUME O!OvhAssumption, Staging, O!List
  PROVE  Staging'
<1>1. O!TypeOK'
  <2>1. staged' = staged /\ unread' \subseteq O!Sets /\ pc' \in {"delete", "failed"}
    BY DEF Staging, O!TypeOK, O!List, O!Fault
  <2>2. ids' \subseteq Values /\ todo' \subseteq Values
    BY DEF Staging, O!TypeOK, O!List, O!Fault, O!Zone
  <2>3. faults' \in 0 .. MaxFaults
    BY DEF Staging, O!TypeOK, O!List, O!Fault, O!OvhAssumption
  <2> QED  BY <2>1, <2>2, <2>3 DEF Staging, O!TypeOK, O!List, O!Ended
<1>2. Transit'
  BY DEF Staging, O!TypeOK, Transit, Right, O!List, O!Fault
<1>3. Known' /\ Published'
  BY DEF Staging, Known, Asked, O!P!Asked, Published, O!List, O!Fault
<1> QED  BY <1>1, <1>2, <1>3 DEF Staging

LEMMA OvhDeleteKeeps ==
  ASSUME O!OvhAssumption, Staging, NEW r \in Values, O!Delete(r)
  PROVE  Staging'
<1> DEFINE after == [staged EXCEPT ![k] = @ \ {r}]
<1>0. after \in O!Zone /\ after[k] = staged[k] \ {r} /\ \A s \in O!Sets : s # k => after[s] = staged[s]
  BY DEF Staging, O!TypeOK, O!Zone
<1>1. O!TypeOK'
  BY <1>0 DEF Staging, O!TypeOK, O!Delete, O!Fault, O!Ended, O!OvhAssumption
<1>2. Transit'
  <2>1. CASE pc' = "failed"
    BY <2>1 DEF Transit
  <2>2. CASE pc' = "delete"
    <3>1. staged' = after /\ ids' = ids \ {r} /\ UNCHANGED <<k, plan, todo, unread>>
      BY <2>2 DEF O!Delete, O!Fault
    <3>2. \A s \in O!Sets : s < k => s # k
      BY DEF Staging, O!TypeOK, O!Sets
    <3> HIDE DEF after
    <3> QED  BY <1>0, <2>2, <3>1, <3>2 DEF Staging, Transit, Right, O!Delete
  <2> QED  BY <2>1, <2>2 DEF O!Delete, O!Fault
<1>3. Known'
  <2>1. staged' \in {staged, after} /\ plan' = plan
    BY DEF O!Delete, O!Fault
  <2>2. \A s \in O!Sets : staged'[s] \subseteq staged[s]
    BY <1>0, <2>1
  <2> QED  BY <2>1, <2>2 DEF Staging, Known, Asked, O!P!Asked
<1>4. Published'
  BY DEF Published, O!Delete, O!Fault
<1> QED  BY <1>1, <1>2, <1>3, <1>4 DEF Staging

LEMMA OvhCreateKeeps ==
  ASSUME O!OvhAssumption, Staging, NEW r \in Values, O!Create(r)
  PROVE  Staging'
<1> DEFINE after == [staged EXCEPT ![k] = @ \cup {r}]
<1>0. after \in O!Zone /\ after[k] = staged[k] \cup {r} /\ \A s \in O!Sets : s # k => after[s] = staged[s]
  BY DEF Staging, O!TypeOK, O!Zone
<1>1. O!TypeOK'
  <2>1. staged' \in O!Zone
    BY <1>0 DEF Staging, O!TypeOK, O!Create, O!Fault
  <2>2. todo' \subseteq Values /\ ids' \subseteq Values /\ unread' \subseteq O!Sets
    BY DEF Staging, O!TypeOK, O!Create
  <2>3. faults' \in 0 .. MaxFaults /\ pc' \in {"create", "failed"}
    BY DEF Staging, O!TypeOK, O!Create, O!Fault, O!OvhAssumption
  <2> QED  BY <2>1, <2>2, <2>3 DEF Staging, O!TypeOK, O!Create, O!Ended
<1>2. Transit'
  <2>1. CASE pc' = "failed"
    BY <2>1 DEF Transit
  <2>2. CASE pc' = "create"
    <3>1. staged' = after /\ todo' = todo \ {r} /\ UNCHANGED <<k, plan, unread>>
      BY <2>2 DEF O!Create, O!Fault
    <3>2. \A s \in O!Sets : s < k => s # k
      BY DEF Staging, O!TypeOK, O!Sets
    <3> HIDE DEF after
    <3> QED  BY <1>0, <2>2, <3>1, <3>2 DEF Staging, Transit, Right, O!Create
  <2> QED  BY <2>1, <2>2 DEF O!Create, O!Fault
<1>3. Known'
  <2>1. staged' \in {staged, after} /\ plan' = plan /\ r \in plan[k]
    BY DEF O!Create, O!Fault, Staging, Transit
  <2>2. k \in O!Sets /\ r \in Asked(k)
    BY <2>1 DEF Staging, O!TypeOK, Known
  <2> HIDE DEF after
  <2>3. ASSUME NEW s \in O!Sets PROVE after[s] \subseteq Asked(s)
    <3>1. CASE s = k
      BY <1>0, <2>2, <3>1 DEF Staging, Known
    <3>2. CASE s # k
      BY <1>0, <3>2 DEF Staging, Known
    <3> QED  BY <3>1, <3>2
  <2>4. \A s \in O!Sets : staged'[s] \subseteq Asked(s)
    BY <2>1, <2>3 DEF Staging, Known
  <2> QED  BY <2>1, <2>4 DEF Staging, Known, Asked, O!P!Asked
<1>4. Published'
  BY DEF Published, O!Create, O!Fault
<1> QED  BY <1>1, <1>2, <1>3, <1>4 DEF Staging

LEMMA OvhDeletedKeeps ==
  ASSUME O!OvhAssumption, Staging, O!Deleted
  PROVE  Staging'
<1>1. O!TypeOK'
  BY DEF Staging, O!TypeOK, O!Deleted
<1>2. Transit'
  BY DEF Staging, O!TypeOK, Transit, Right, O!Deleted
<1>3. Known' /\ Published'
  BY DEF Staging, Known, Asked, O!P!Asked, Published, O!Deleted
<1> QED  BY <1>1, <1>2, <1>3 DEF Staging

LEMMA OvhCreatedKeeps ==
  ASSUME O!OvhAssumption, Staging, O!Created
  PROVE  Staging'
<1>0. pc = "create" /\ Right(staged, k) /\ UNCHANGED <<staged, plan, unread>>
  BY DEF Staging, Transit, Right, O!Created
<1>1. O!TypeOK'
  BY DEF Staging, O!TypeOK, O!Created, O!Sets, O!OvhAssumption
<1>2. Transit'
  <2>1. CASE k < N
    <3>1. \A s \in O!Sets : s < k + 1 => Right(staged, s)
      BY <1>0, <2>1 DEF Staging, O!TypeOK, Transit, O!Sets, O!OvhAssumption
    <3> QED  BY <1>0, <2>1, <3>1 DEF Transit, Right, O!Created
  <2>2. CASE ~(k < N)
    <3>1. \A s \in O!Sets : Right(staged, s)
      BY <1>0, <2>2 DEF Staging, O!TypeOK, Transit, O!Sets, O!OvhAssumption
    <3> QED  BY <1>0, <2>2, <3>1 DEF Transit, Right, O!Created
  <2> QED  BY <2>1, <2>2
<1>3. Known' /\ Published'
  BY DEF Staging, Known, Asked, O!P!Asked, Published, O!Created
<1> QED  BY <1>1, <1>2, <1>3 DEF Staging

LEMMA OvhRefreshKeeps ==
  ASSUME O!OvhAssumption, Staging, O!Refresh
  PROVE  Staging'
<1>1. O!TypeOK'
  BY DEF Staging, O!TypeOK, O!Refresh, O!Fault, O!Ended, O!OvhAssumption
<1>2. Transit'
  BY DEF Transit, O!Refresh, O!Fault
<1>3. Known'
  BY DEF Staging, Known, Asked, O!P!Asked, O!Refresh, O!Fault
<1>4. Published'
  BY DEF Staging, Transit, Published, Right, O!Refresh, O!Fault
<1> QED  BY <1>1, <1>2, <1>3, <1>4 DEF Staging

\* Any step keeps the invariant.
LEMMA OvhStepKeepsInv ==
  ASSUME O!OvhAssumption
  PROVE  Staging /\ [O!Next]_O!vars => Staging'
<1> SUFFICES ASSUME Staging, [O!Next]_O!vars PROVE Staging'
  OBVIOUS
<1>1. CASE O!Next
  BY <1>1, OvhStartKeeps, OvhListKeeps, OvhDeleteKeeps, OvhCreateKeeps, OvhDeletedKeeps,
     OvhCreatedKeeps, OvhRefreshKeeps DEF O!Next, O!Call
<1>2. CASE UNCHANGED O!vars
  BY <1>2 DEF O!vars, Staging, O!TypeOK, Transit, Right, Known, Asked, O!P!Asked, Published
<1> QED  BY <1>1, <1>2

\* The staged zone is at every point what the place in the run says.
THEOREM OvhInvariant ==
  ASSUME O!OvhAssumption
  PROVE  O!Spec => []Staging
<1>1. O!Init => Staging  BY OvhInitInv
<1>2. Staging /\ [O!Next]_O!vars => Staging'  BY OvhStepKeepsInv
<1> QED  BY <1>1, <1>2, PTL DEF O!Spec

\* The model stays within its types.
THEOREM OvhTypeOK ==
  ASSUME O!OvhAssumption
  PROVE  O!Spec => []O!TypeOK
<1>1. Staging => O!TypeOK  BY DEF Staging
<1> QED  BY <1>1, OvhInvariant, PTL

\* What a refresh publishes has the plan, whatever earlier runs left staged, and nothing
\* else of the rrsets that were read.
THEOREM OvhStagedIsThePlan ==
  ASSUME O!OvhAssumption
  PROVE  O!Spec => []O!StagedIsThePlan
<1>1. Staging => O!StagedIsThePlan
  BY DEF Staging, Transit, Right, O!StagedIsThePlan, O!AsPlanned
<1> QED  BY <1>1, OvhInvariant, PTL

\* A refresh publishes a whole zone.
LEMMA RefreshPublishes ==
  ASSUME O!OvhAssumption, Staging, O!Refresh
  PROVE  O!P!Publish \/ O!P!Fail
<1>1. CASE live' = live /\ pc' = "failed"
  BY <1>1 DEF O!Refresh, O!Fault, O!P!Fail
<1>2. CASE live' = staged
  <2>1. DOMAIN plan = O!Sets
    BY DEF Staging, O!TypeOK, O!Zone
  <2>2. \A s \in O!Sets : Right(staged, s) /\ staged[s] \subseteq O!P!Asked(s)
    BY DEF Staging, Transit, Known, Asked, O!Refresh
  <2>3. O!P!Whole(live')
    BY <1>2, <2>1, <2>2 DEF O!P!Whole, Right
  <2> QED  BY <2>3 DEF O!Refresh, O!Fault, O!P!Publish
<1> QED  BY <1>1, <1>2 DEF O!Refresh, O!Fault

\* A step of the backend is a step of the abstract zone, or none.
LEMMA OvhStepImplements ==
  ASSUME O!OvhAssumption
  PROVE  Staging /\ [O!Next]_O!vars => [O!P!Next]_O!P!vars
<1> SUFFICES ASSUME Staging, [O!Next]_O!vars PROVE [O!P!Next]_O!P!vars
  OBVIOUS
<1> USE DEF O!P!vars
<1>1. ASSUME NEW zone \in Zones, O!Start(zone) PROVE O!P!Ask
  BY <1>1 DEF O!Start, O!P!Ask
<1>2. ASSUME O!List PROVE O!P!Miss \/ O!P!Fail \/ UNCHANGED O!P!vars
  BY <1>2 DEF O!List, O!Fault, O!P!Miss, O!P!Fail
<1>3. ASSUME NEW r \in Values, O!Delete(r) PROVE O!P!Fail \/ UNCHANGED O!P!vars
  BY <1>3 DEF O!Delete, O!Fault, O!P!Fail
<1>4. ASSUME NEW r \in Values, O!Create(r) PROVE O!P!Fail \/ UNCHANGED O!P!vars
  BY <1>4 DEF O!Create, O!Fault, O!P!Fail
<1>5. ASSUME O!Deleted \/ O!Created PROVE UNCHANGED O!P!vars
  BY <1>5 DEF O!Deleted, O!Created
<1>6. ASSUME O!Refresh PROVE O!P!Publish \/ O!P!Fail
  BY <1>6, RefreshPublishes
<1>7. ASSUME UNCHANGED O!vars PROVE UNCHANGED O!P!vars
  BY <1>7 DEF O!vars
<1> QED  BY <1>1, <1>2, <1>3, <1>4, <1>5, <1>6, <1>7 DEF O!Next, O!Call, O!P!Next

\* The backend implements the abstract zone.
THEOREM OvhPublishesWholeZones ==
  ASSUME O!OvhAssumption
  PROVE  O!Spec => O!PublishesWholeZones
<1>1. O!Init => O!P!Init
  BY DEF O!Init, O!P!Init
<1>2. Staging /\ [O!Next]_O!vars => [O!P!Next]_O!P!vars
  BY OvhStepImplements
<1> QED  BY <1>1, <1>2, OvhInvariant, PTL DEF O!Spec, O!PublishesWholeZones, O!P!Spec
=============================================================================
