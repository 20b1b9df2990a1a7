--------------------------- MODULE ProvisionProofs ---------------------------
(* What holds of every backend, for any plans, number of rrsets, runs and faults. *)
EXTENDS Provision, TLAPS

\* What a backend may hold by now.
Zone == [Sets -> [Values -> 0 .. 1 + unread]]

Before == {"probe", "create", "lookup", "list"}
After == {"sign", "keys", "certs", "ok"}

\* Which backends come by a place.
Place ==
  /\ pc = "probe" => backend = "powerdns"
  /\ pc = "create" => backend \in {"powerdns", "scaleway"}
  /\ pc = "list" => backend = "hetzner"
  /\ pc = "patch" => backend = "clouddns"

\* What is left to write is of the plan, and Hetzner is only asked for a record it has when
\* a listing did not say so: no more often than listings lost their body.
Work ==
  /\ todo \subseteq Planned(ask)
  /\ \A r \in missing : r[2] \in ask.zone[r[1]]
  /\ pc = "write" /\ backend = "hetzner" => \A r \in missing : live[r[1]][r[2]] <= unread
  /\ pc \in Before \cup {"write", "patch", "sign", "keys"} => ask.dns
  /\ pc \in After /\ ask.dns => todo = {} /\ missing = {}

Replacing == backend # "hetzner" => \A k \in Planned(ask) \ todo : live[k] = Once(ask.zone[k])

Adding ==
  backend = "hetzner" =>
    /\ todo = {}
    /\ \A k \in Sets : \A v \in ask.zone[k] : Has(k, v) \/ <<k, v>> \in missing

\* From the first write on, what is not left to write is as planned.
Progress ==
  /\ pc \in Before => todo = Planned(ask)
  /\ pc \in {"write", "patch"} \/ (pc \in After /\ ask.dns) => Replacing /\ Adding

\* The same of the certificates, in every run.
Requested ==
  /\ pc # "idle" => ask.certs \ left \subseteq issued
  /\ pc = "ok" => left = {}

\* DS records are shown from the last reading of the keys.
Told ==
  /\ pc \notin {"idle", "failed", "certs", "ok"} => told = 0
  /\ pc \in {"certs", "ok"} => told \in {0, keys}

Inv == TypeOK /\ Place /\ Work /\ Progress /\ Requested /\ Told

LEMMA OnceTyped ==
  ASSUME NEW S
  PROVE  Once(S) \in [Values -> 0 .. 1]
  BY DEF Once

\* What is held once, and whatever was held, stays allowed when a listing loses its body.
LEMMA OnceAllowed ==
  ASSUME NEW n \in Nat, NEW f \in [Values -> 0 .. 1]
  PROVE  f \in [Values -> 0 .. 1 + n]
  OBVIOUS

LEMMA HeldStays ==
  ASSUME NEW m \in Nat, NEW n \in Nat, m <= n, NEW zone \in [Sets -> [Values -> 0 .. 1 + m]]
  PROVE  zone \in [Sets -> [Values -> 0 .. 1 + n]]
<1>1. ASSUME NEW k \in Sets PROVE zone[k] \in [Values -> 0 .. 1 + n]
  <2>1. zone[k] \in [Values -> 0 .. 1 + m]
    OBVIOUS
  <2>2. \A v \in Values : zone[k][v] \in 0 .. 1 + n
    BY <2>1
  <2> QED  BY <2>1, <2>2
<1>2. zone = [k \in Sets |-> zone[k]]
  OBVIOUS
<1> QED  BY <1>1, <1>2

\* A call that replaces rrsets of the plan leaves a zone, with those as planned.
LEMMA ReplacedIs ==
  ASSUME TypeOK, NEW ks \in SUBSET Sets
  PROVE  /\ Replaced(ks) \in Zone
         /\ \A k \in ks : Replaced(ks)[k] = Once(ask.zone[k])
         /\ \A k \in Sets \ ks : Replaced(ks)[k] = live[k]
  BY OnceTyped, OnceAllowed DEF TypeOK, Zone, Replaced

\* Adding a record that is there no more often than listings lost their body adds it once
\* more, and changes nothing else.
LEMMA AddedIs ==
  ASSUME TypeOK, NEW r \in Sets \X Values, live[r[1]][r[2]] <= unread
  PROVE  LET after == [live EXCEPT ![r[1]][r[2]] = @ + 1] IN
         /\ after \in Zone
         /\ after[r[1]][r[2]] > 0
         /\ \A k \in Sets : \A v \in Values : <<k, v>> # r => after[k][v] = live[k][v]
<1> DEFINE after == [live EXCEPT ![r[1]][r[2]] = @ + 1]
<1> DEFINE n == live[r[1]][r[2]] + 1
<1>1. r[1] \in Sets /\ r[2] \in Values /\ r = <<r[1], r[2]>>
  OBVIOUS
<1>2. live[r[1]] \in [Values -> 0 .. 1 + unread] /\ n \in 0 .. 1 + unread /\ n > 0
  BY <1>1 DEF TypeOK
<1>3. after = [live EXCEPT ![r[1]] = [live[r[1]] EXCEPT ![r[2]] = n]]
  OBVIOUS
<1> HIDE DEF after, n
<1>4. after \in Zone
  BY <1>1, <1>2, <1>3 DEF TypeOK, Zone
<1>5. after[r[1]] = [live[r[1]] EXCEPT ![r[2]] = n] /\ \A k \in Sets : k # r[1] => after[k] = live[k]
  BY <1>1, <1>3 DEF TypeOK
<1>6. \A k \in Sets : \A v \in Values : <<k, v>> # r => after[k][v] = live[k][v]
  BY <1>1, <1>2, <1>5
<1>7. after[r[1]][r[2]] > 0
  BY <1>1, <1>2, <1>5
<1> QED  BY <1>4, <1>6, <1>7 DEF after

LEMMA CountTyped ==
  ASSUME TypeOK, CountFault \/ UNCHANGED faults
  PROVE  faults' \in 0 .. MaxFaults
  BY ProvisionAssumption DEF TypeOK, CountFault

LEMMA InitInv == Init => Inv
<1> SUFFICES ASSUME Init PROVE Inv
  OBVIOUS
<1>1. TypeOK
  BY ProvisionAssumption, OnceTyped DEF Init, TypeOK, Zone, Ended
<1>2. Place /\ Work /\ Progress /\ Requested /\ Told
  BY DEF Init, Place, Work, Progress, Requested, Told, Before, After
<1> QED  BY <1>1, <1>2 DEF Inv

LEMMA FirstCallIs ==
  ASSUME TypeOK, NEW a \in Asks
  PROVE  /\ FirstCall(a) \in {"probe", "create", "write", "lookup", "certs"}
         /\ FirstCall(a) = "certs" <=> ~ a.dns
         /\ FirstCall(a) = "probe" => backend = "powerdns"
         /\ FirstCall(a) = "create" => backend = "scaleway"
         /\ FirstCall(a) = "write" => backend \in {"gandi", "azure"}
<1>1. backend \in {"powerdns", "scaleway", "route53", "gandi", "azure", "clouddns", "hetzner"} /\ a.dns \in BOOLEAN
  BY ProvisionAssumption DEF TypeOK, AskSet
<1>2. CASE ~ a.dns
  BY <1>2 DEF FirstCall
<1>3. CASE a.dns
  BY <1>1, <1>3 DEF FirstCall, Named
<1> QED  BY <1>1, <1>2, <1>3

LEMMA StartKeeps ==
  ASSUME Inv, NEW a \in Asks, Start(a)
  PROVE  Inv'
<1>0. /\ ask' = a /\ pc' = FirstCall(a) /\ todo' = Planned(a) /\ missing' = {}
      /\ left' = a.certs /\ told' = 0
      /\ UNCHANGED <<backend, exists, live, keys, issued, unread, faults>>
  BY DEF Start, world
<1>1. TypeOK'
  <2>1. a.certs \subseteq Certs /\ Planned(a) \subseteq Sets
    BY ProvisionAssumption DEF AskSet, Planned
  <2>2. runs' \in 0 .. MaxRuns
    BY ProvisionAssumption DEF Inv, TypeOK, Start
  <2> QED  BY <1>0, <2>1, <2>2, FirstCallIs DEF Inv, TypeOK
<1>2. Place'
  BY <1>0, FirstCallIs DEF Inv, Place
<1>3. Work'
  BY <1>0, FirstCallIs DEF Inv, Work, Before, After
<1>4. Progress'
  <2>1. \A k \in Planned(a) \ Planned(a) : FALSE
    OBVIOUS
  <2> QED  BY <1>0, <2>1, FirstCallIs DEF Inv, Progress, Replacing, Adding, Before, After, Planned
<1>5. Requested' /\ Told'
  BY <1>0, FirstCallIs DEF Inv, Requested, Told
<1> QED  BY <1>1, <1>2, <1>3, <1>4, <1>5 DEF Inv

\* The steps that leave the records alone, up to the first write.
LEMMA ReadingKeeps ==
  ASSUME Inv, Probe \/ EnsureZone \/ Lookup
  PROVE  Inv'
<1>0. UNCHANGED <<backend, live, keys, issued, ask, todo, missing, left, told, unread, runs>>
  BY DEF Probe, EnsureZone, Lookup, world
<1>1. /\ pc \in {"probe", "create", "lookup"} /\ pc' \in {"create", "write", "list", "failed"}
      /\ pc' \in {"create", "write"} => backend # "hetzner"
      /\ Place'
  BY DEF Inv, Place, Probe, EnsureZone, Lookup, world
<1>2. exists' \in BOOLEAN
  BY DEF Inv, TypeOK, Probe, EnsureZone, Lookup, world
<1>. faults' \in 0 .. MaxFaults
  BY CountTyped DEF Inv, Probe, EnsureZone, Lookup
<1>3. TypeOK'
  BY <1>0, <1>1, <1>2 DEF Inv, TypeOK, Ended
<1>4. Work'
  BY <1>0, <1>1 DEF Inv, Work, Before, After, Planned
<1>5. Progress'
  BY <1>0, <1>1 DEF Inv, Progress, Replacing, Adding, Before, After, Planned
<1>6. Requested' /\ Told'
  BY <1>0, <1>1 DEF Inv, Requested, Told
<1> QED  BY <1>1, <1>3, <1>4, <1>5, <1>6 DEF Inv

\* A step that changes neither zone nor plan keeps what is as planned so.
LEMMA Frame ==
  ASSUME UNCHANGED <<backend, live, ask, todo, missing>>
  PROVE  /\ Replacing => Replacing'
         /\ Adding => Adding'
         /\ Planned(ask)' = Planned(ask)
         /\ \A k \in Sets : \A v \in Values : Has(k, v)' = Has(k, v)
<1>1. Planned(ask)' = Planned(ask)
  BY DEF Planned
<1>2. \A k, v : Has(k, v)' = Has(k, v)
  BY DEF Has, InZone
<1>3. Replacing => Replacing'
  BY <1>1 DEF Replacing
<1>4. Adding => Adding'
  BY <1>2 DEF Adding
<1> QED  BY <1>1, <1>2, <1>3, <1>4

\* The listing, with its body or without.
LEMMA ListKeeps ==
  ASSUME Inv, List
  PROVE  Inv'
<1>0. /\ UNCHANGED <<backend, exists, live, keys, issued, ask, left, told, runs>>
      /\ pc = "list" /\ backend = "hetzner"
  BY DEF Inv, Place, List, world
<1>1. faults' \in 0 .. MaxFaults
  BY CountTyped DEF Inv, List
<1>2. unread' \in Nat /\ unread <= unread'
  BY DEF Inv, TypeOK, List
<1>3. live' \in [Sets -> [Values -> 0 .. 1 + unread']]
  <2>1. unread \in Nat /\ live \in [Sets -> [Values -> 0 .. 1 + unread]]
    BY DEF Inv, TypeOK
  <2> QED  BY <1>0, <1>2, <2>1, HeldStays
<1>4. CASE pc' = "failed"
  <2>1. UNCHANGED <<todo, missing>>
    BY <1>4 DEF List
  <2>2. TypeOK' /\ Place'
    BY <1>0, <1>1, <1>2, <1>3, <1>4, <2>1 DEF Inv, TypeOK, Ended, Place
  <2>3. Work' /\ Progress' /\ Requested' /\ Told'
    BY <1>0, <1>4, <2>1 DEF Inv, Work, Progress, Requested, Told, Before, After, Planned
  <2> QED  BY <2>2, <2>3 DEF Inv
<1>5. CASE pc' = "write"
  <2>1. /\ todo' = {} /\ missing' \subseteq Sets \X Values
        /\ \A r \in missing' : r[2] \in ask.zone[r[1]]
        /\ \A r \in Sets \X Values : r[2] \in ask.zone[r[1]] => Has(r[1], r[2]) \/ r \in missing'
    BY <1>5 DEF List
  <2>2. \A r \in missing' : live[r[1]][r[2]] <= unread'
    <3>1. \A r \in Sets \X Values : live[r[1]][r[2]] \in 0 .. 1 + unread
      BY DEF Inv, TypeOK
    <3>2. CASE missing' = {r \in Sets \X Values : r[2] \in ask.zone[r[1]] /\ ~ Has(r[1], r[2])}
      <4>1. \A r \in missing' : ~ (live[r[1]][r[2]] > 0)
        BY <3>2 DEF Has, InZone
      <4> QED  BY <1>2, <2>1, <3>1, <4>1 DEF Inv, TypeOK
    <3>3. CASE unread' = unread + 1
      BY <2>1, <3>1, <3>3 DEF Inv, TypeOK
    <3> QED  BY <1>5, <3>2, <3>3 DEF List
  <2>3. TypeOK' /\ Place'
    BY <1>0, <1>1, <1>2, <1>3, <1>5, <2>1 DEF Inv, TypeOK, Ended, Place
  <2>4. \A k, v : Has(k, v)' = Has(k, v)
    BY <1>0 DEF Has, InZone
  <2>5. Work'
    <3>1. ask.dns
      BY <1>0 DEF Inv, Work, Before
    <3> QED  BY <1>0, <1>5, <2>1, <2>2, <3>1 DEF Work, After, Planned
  <2>6. \A k \in Sets : \A v \in ask.zone[k] : Has(k, v) \/ <<k, v>> \in missing'
    <3>1. \A k \in Sets : ask.zone[k] \subseteq Values
      BY ProvisionAssumption DEF Inv, TypeOK, AskSet
    <3> QED  BY <2>1, <3>1
  <2>7. Adding'
    BY <1>0, <2>1, <2>4, <2>6 DEF Adding
  <2>8. Progress'
    BY <1>0, <1>5, <2>7 DEF Progress, Replacing, Before, After
  <2>9. Requested' /\ Told'
    BY <1>0, <1>5 DEF Inv, Requested, Told
  <2> QED  BY <2>3, <2>5, <2>8, <2>9 DEF Inv
<1> QED  BY <1>4, <1>5 DEF List

\* A run that fails leaves nothing to show but a zone.
LEMMA FailedKeeps ==
  ASSUME Inv, pc' = "failed", UNCHANGED <<backend, ask, todo, missing, left>>,
         exists' \in BOOLEAN, live' \in Zone, keys' \in Nat, told' \in Nat, UNCHANGED <<unread, runs>>,
         issued \subseteq issued', issued' \subseteq Certs, CountFault \/ UNCHANGED faults,
         pc # "idle"
  PROVE  Inv'
<1>1. TypeOK' /\ Place'
  BY CountTyped DEF Inv, TypeOK, Zone, Place, Ended
<1>2. Work' /\ Progress'
  BY DEF Inv, Work, Progress, Before, After, Planned
<1>3. Requested' /\ Told'
  BY DEF Inv, Requested, Told
<1> QED  BY <1>1, <1>2, <1>3 DEF Inv

LEMMA AddKeeps ==
  ASSUME Inv, NEW r \in Sets \X Values, Add(r)
  PROVE  Inv'
<1> DEFINE after == [live EXCEPT ![r[1]][r[2]] = @ + 1]
<1>0. /\ UNCHANGED <<backend, exists, keys, issued, ask, todo, left, told, unread, runs>>
      /\ pc = "write" /\ backend = "hetzner" /\ r \in missing
  BY DEF Add
<1>1. live[r[1]][r[2]] <= unread
  BY <1>0 DEF Inv, Work
<1>2. /\ after \in Zone /\ after[r[1]][r[2]] > 0
      /\ \A k \in Sets : \A v \in Values : <<k, v>> # r => after[k][v] = live[k][v]
  BY <1>1, AddedIs DEF Inv
<1> HIDE DEF after
<1>3. CASE pc' = "failed"
  <2>1. live' \in Zone /\ UNCHANGED missing /\ (CountFault \/ UNCHANGED faults)
    BY <1>0, <1>2, <1>3 DEF Add, Fault, after, Inv, TypeOK, Zone
  <2> QED  BY <1>0, <1>3, <2>1, FailedKeeps DEF Inv, TypeOK
<1>4. CASE pc' = "write"
  <2>1. live' = after /\ missing' = {s \in missing : ~ Same(r, s)} /\ UNCHANGED faults
    BY <1>4 DEF Add, Fault, after
  <2>2. TypeOK' /\ Place'
    BY <1>0, <1>2, <1>4, <2>1 DEF Inv, TypeOK, Zone, Place, Ended
  <2>3. \A k \in Sets : InZone(k)' = InZone(k) \cup (IF k = r[1] THEN {r[2]} ELSE {})
    <3>1. r[1] \in Sets /\ r[2] \in Values /\ r = <<r[1], r[2]>>
      OBVIOUS
    <3>2. \A k \in Sets, v \in Values : live'[k][v] > 0 <=> live[k][v] > 0 \/ (k = r[1] /\ v = r[2])
      BY <1>2, <2>1, <3>1
    <3> QED  BY <3>1, <3>2 DEF InZone
  <2>4. \A k \in Sets, v \in Values : Has(k, v)' <=> Has(k, v) \/ (k = r[1] /\ Bare[r[2]] = Bare[v])
    BY <2>3 DEF Has
  <2>5. \A s \in missing' : s \in missing /\ live'[s[1]][s[2]] <= unread
    <3>1. \A s \in missing : s \in Sets \X Values /\ live[s[1]][s[2]] <= unread
      BY <1>0 DEF Inv, TypeOK, Work
    <3>2. \A s \in missing' : s \in missing /\ s # r
      BY <2>1 DEF Same
    <3>3. \A s \in missing' : live'[s[1]][s[2]] = live[s[1]][s[2]]
      BY <1>2, <2>1, <3>1, <3>2
    <3> QED  BY <3>1, <3>2, <3>3
  <2>6. Work'
    BY <1>0, <1>4, <2>5 DEF Inv, Work, Before, After, Planned
  <2>7. Adding'
    <3>1. ASSUME NEW k \in Sets, NEW v \in ask.zone[k]
          PROVE  Has(k, v)' \/ <<k, v>> \in missing'
      <4>1. v \in Values
        BY ProvisionAssumption DEF Inv, TypeOK, AskSet
      <4>2. Has(k, v) \/ <<k, v>> \in missing
        BY <1>0 DEF Inv, Progress, Adding
      <4>3. Same(r, <<k, v>>) => Has(k, v)'
        BY <2>4, <4>1 DEF Same
      <4> QED  BY <2>1, <2>4, <4>1, <4>2, <4>3
    <3>2. todo' = {}
      BY <1>0 DEF Inv, Progress, Adding
    <3> QED  BY <1>0, <3>1, <3>2 DEF Adding
  <2>8. Progress'
    BY <1>0, <1>4, <2>7 DEF Progress, Replacing, Before, After
  <2>9. Requested' /\ Told'
    BY <1>0, <1>4 DEF Inv, Requested, Told
  <2> QED  BY <2>2, <2>6, <2>8, <2>9 DEF Inv
<1> QED  BY <1>0, <1>3, <1>4 DEF Add, Fault

\* A write that replaces rrsets of the plan and goes on.
LEMMA ReplacingKeeps ==
  ASSUME Inv, NEW ks \in SUBSET todo, live' = Replaced(ks), todo' = todo \ ks,
         UNCHANGED <<backend, keys, issued, ask, missing, left, told, unread, runs>>,
         exists' \in BOOLEAN, CountFault \/ UNCHANGED faults,
         backend # "hetzner", pc' = "write", pc \in {"create", "write", "patch"}
  PROVE  Inv'
<1>1. /\ Replaced(ks) \in Zone
      /\ \A k \in ks : Replaced(ks)[k] = Once(ask.zone[k])
      /\ \A k \in Sets \ ks : Replaced(ks)[k] = live[k]
  BY ReplacedIs DEF Inv, TypeOK
<1>2. TypeOK' /\ Place'
  BY <1>1, CountTyped DEF Inv, TypeOK, Zone, Place, Ended
<1>3. Work'
  BY DEF Inv, Work, Before, After, Planned
<1>4. Replacing \/ todo = Planned(ask)
  BY DEF Inv, Progress, Before
<1>5. \A k \in Planned(ask) \ todo' : live'[k] = Once(ask.zone[k])
  <2>1. ASSUME NEW k \in Planned(ask) \ todo' PROVE live'[k] = Once(ask.zone[k])
    <3>1. CASE k \in ks
      BY <1>1, <3>1
    <3>2. CASE k \notin ks
      <4>1. k \in Sets \ ks /\ k \in Planned(ask) \ todo
        BY <2>1, <3>2 DEF Planned
      <4> QED  BY <1>1, <1>4, <4>1 DEF Replacing
    <3> QED  BY <3>1, <3>2
  <2> QED  BY <2>1
<1>6. Progress'
  BY <1>5 DEF Progress, Replacing, Adding, Before, After, Planned
<1>7. Requested' /\ Told'
  BY DEF Inv, Requested, Told
<1> QED  BY <1>2, <1>3, <1>6, <1>7 DEF Inv

LEMMA PostZoneKeeps ==
  ASSUME Inv, PostZone
  PROVE  Inv'
<1>0. /\ UNCHANGED <<backend, keys, issued, ask, missing, left, told, unread, runs>>
      /\ pc = "create" /\ backend = "powerdns"
      /\ CountFault \/ UNCHANGED faults
  BY DEF PostZone
<1>1. Replaced(todo) \in Zone
  BY ReplacedIs DEF Inv, TypeOK
<1>2. CASE pc' = "failed" /\ UNCHANGED <<exists, live, todo>>
  BY <1>0, <1>2, FailedKeeps DEF Inv, TypeOK, Zone
<1>3. CASE exists' = TRUE /\ live' = Replaced(todo) /\ todo' = {} /\ pc' = "write"
  <2>1. todo' = todo \ todo
    BY <1>3
  <2> QED  BY <1>0, <1>3, <2>1, ReplacingKeeps
<1>4. CASE exists' = TRUE /\ live' = Replaced(todo) /\ todo' = {} /\ pc' = "failed"
  <2>1. TypeOK' /\ Place'
    BY <1>0, <1>1, <1>4, CountTyped DEF Inv, TypeOK, Zone, Place, Ended
  <2>2. Work' /\ Progress' /\ Requested' /\ Told'
    BY <1>0, <1>4 DEF Inv, Work, Progress, Requested, Told, Before, After
  <2> QED  BY <2>1, <2>2 DEF Inv
<1> QED  BY <1>2, <1>3, <1>4 DEF PostZone

\* ReplaceAll, Put and Patch are one step, of all that is left or of one rrset.
LEMMA WriteKeeps ==
  ASSUME Inv, \/ ReplaceAll
              \/ \E k \in Sets : Put(k) \/ Patch(k)
  PROVE  Inv'
<1>1. PICK ks \in SUBSET todo :
        /\ UNCHANGED <<backend, exists, keys, issued, ask, missing, left, told, unread, runs>>
        /\ pc \in {"write", "patch"} /\ backend # "hetzner"
        /\ \/ live' = Replaced(ks) /\ todo' = todo \ ks /\ pc' = "write" /\ UNCHANGED faults
           \/ Fault(Replaced(ks)) /\ UNCHANGED todo
  <2>1. CASE ReplaceAll
    <3>1. todo \ todo = {}
      OBVIOUS
    <3>2. backend # "hetzner"
      BY <2>1 DEF ReplaceAll, Batch
    <3> WITNESS todo \in SUBSET todo
    <3> QED  BY <2>1, <3>1, <3>2 DEF ReplaceAll
  <2>2. ASSUME NEW k \in Sets, Put(k) \/ Patch(k)
        PROVE  \E ks \in SUBSET todo :
                 /\ UNCHANGED <<backend, exists, keys, issued, ask, missing, left, told, unread, runs>>
                 /\ pc \in {"write", "patch"} /\ backend # "hetzner"
                 /\ \/ live' = Replaced(ks) /\ todo' = todo \ ks /\ pc' = "write" /\ UNCHANGED faults
                    \/ Fault(Replaced(ks)) /\ UNCHANGED todo
    <3>1. k \in todo /\ pc \in {"write", "patch"}
      BY <2>2 DEF Put, Patch, Turn
    <3>2. backend # "hetzner"
      BY <2>2 DEF Inv, Place, Progress, Adding, Put, Patch, Turn
    <3>3. {k} \in SUBSET todo
      BY <3>1
    <3> WITNESS {k} \in SUBSET todo
    <3> QED  BY <2>2, <3>1, <3>2 DEF Put, Patch, Turn
  <2> QED  BY <2>1, <2>2
<1>2. CASE pc' = "write"
  <2>1. live' = Replaced(ks) /\ todo' = todo \ ks /\ UNCHANGED faults
    BY <1>1, <1>2 DEF Fault
  <2>2. exists' \in BOOLEAN /\ pc \in {"create", "write", "patch"}
    BY <1>1 DEF Inv, TypeOK
  <2> QED  BY <1>1, <1>2, <2>1, <2>2, ReplacingKeeps
<1>3. CASE pc' # "write"
  <2>1. Fault(Replaced(ks)) /\ UNCHANGED todo
    BY <1>1, <1>3
  <2>2. Replaced(ks) \in Zone
    BY ReplacedIs DEF Inv, TypeOK
  <2>3. live' \in Zone /\ pc' = "failed" /\ CountFault
    BY <2>1, <2>2 DEF Fault, Inv, TypeOK, Zone
  <2>4. exists' \in BOOLEAN /\ keys' \in Nat /\ told' \in Nat /\ issued' \subseteq Certs
        /\ issued \subseteq issued' /\ pc # "idle"
    BY <1>1 DEF Inv, TypeOK
  <2> QED  BY <1>1, <2>1, <2>3, <2>4, FailedKeeps
<1> QED  BY <1>2, <1>3

LEMMA StoppedKeeps ==
  ASSUME Inv, Kill \/ \E k \in Sets : Refuse(k)
  PROVE  Inv'
<1>1. UNCHANGED <<backend, exists, live, keys, issued, ask, todo, missing, left, told, unread, runs>> /\ pc' = "failed"
  BY DEF Kill, Refuse, world
<1>2. (CountFault \/ UNCHANGED faults) /\ pc # "idle"
  BY DEF Kill, Refuse, Turn, Ended
<1> QED  BY <1>1, <1>2, FailedKeeps DEF Inv, TypeOK, Zone

LEMMA ConflictKeeps ==
  ASSUME Inv, NEW k \in Sets, Conflict(k)
  PROVE  Inv'
<1>1. /\ UNCHANGED <<backend, exists, live, keys, issued, ask, todo, missing, left, told, unread, runs>>
      /\ pc = "write" /\ backend = "clouddns" /\ pc' \in {"patch", "failed"}
      /\ CountFault \/ UNCHANGED faults
  BY DEF Conflict, Turn, world
<1>2. TypeOK' /\ Place'
  BY <1>1, CountTyped DEF Inv, TypeOK, Zone, Place, Ended
<1>3. Work'
  BY <1>1 DEF Inv, Work, Before, After, Planned
<1>4. Progress'
  BY <1>1, Frame DEF Inv, Progress, Before, After
<1>5. Requested' /\ Told'
  BY <1>1 DEF Inv, Requested, Told
<1> QED  BY <1>2, <1>3, <1>4, <1>5 DEF Inv

\* What follows the writes leaves the records alone.
LEMMA AfterKeeps ==
  ASSUME Inv, Written \/ Sign \/ ReadKeys \/ Finish \/ \E c \in Certs : Issue(c)
  PROVE  Inv'
<1>1. UNCHANGED <<backend, exists, live, ask, todo, missing, unread, runs>>
  BY DEF Written, Sign, ReadKeys, Finish, Issue, world
<1>2. CountFault \/ UNCHANGED faults
  BY DEF Written, Sign, ReadKeys, Finish, Issue
<1>3. keys' \in Nat /\ told' \in Nat
  BY DEF Inv, TypeOK, Written, Sign, ReadKeys, Finish, Issue, world
<1>4. issued' \subseteq Certs /\ left' \subseteq Certs
  BY DEF Inv, TypeOK, Written, Sign, ReadKeys, Finish, Issue, world
<1>5. /\ pc \in {"write", "sign", "keys", "certs"}
      /\ pc' \in {"sign", "keys", "certs", "ok", "failed"}
  BY DEF Written, Sign, ReadKeys, Finish, Issue
<1>6. TypeOK' /\ Place'
  BY <1>1, <1>2, <1>3, <1>4, <1>5, CountTyped DEF Inv, TypeOK, Zone, Place, Ended
<1>7. Requested'
  BY <1>5 DEF Inv, Requested, Written, Sign, ReadKeys, Finish, Issue, world
<1>8. Told'
  BY DEF Inv, Told, Written, Sign, ReadKeys, Finish, Issue, world
<1>9. pc' \in After /\ ask.dns => Replacing /\ Adding /\ todo = {} /\ missing = {}
  BY <1>5 DEF Inv, Work, Progress, After, Written, Sign, ReadKeys, Finish, Issue
<1>10. Progress'
  BY <1>1, <1>5, <1>9, Frame DEF Progress, Before, After
<1>11. Work'
  <2>1. pc' \in {"sign", "keys"} => ask.dns
    BY DEF Inv, Work, Before, Written, Sign, ReadKeys, Finish, Issue
  <2> QED  BY <1>1, <1>5, <1>9, <2>1 DEF Inv, Work, Before, After, Planned
<1> QED  BY <1>6, <1>7, <1>8, <1>10, <1>11 DEF Inv

LEMMA CreateByHandKeeps ==
  ASSUME Inv, CreateByHand
  PROVE  Inv'
<1>1. UNCHANGED <<backend, live, keys, issued, pc, ask, todo, missing, left, told, unread, faults, runs>> /\ exists' = TRUE
  BY DEF CreateByHand
<1>2. TypeOK' /\ Place'
  BY <1>1 DEF Inv, TypeOK, Place
<1>3. Work'
  BY <1>1, Frame DEF Inv, Work, Has, InZone
<1>4. Progress'
  BY <1>1, Frame DEF Inv, Progress
<1>5. Requested' /\ Told'
  BY <1>1 DEF Inv, Requested, Told
<1> QED  BY <1>2, <1>3, <1>4, <1>5 DEF Inv

LEMMA StutterKeeps ==
  ASSUME Inv, UNCHANGED vars
  PROVE  Inv'
<1>1. UNCHANGED <<backend, live, keys, issued, exists, pc, ask, todo, missing, left, told, unread, faults, runs>>
  BY DEF vars, world
<1>2. TypeOK' /\ Place'
  BY <1>1 DEF Inv, TypeOK, Place
<1>3. Work'
  BY <1>1, Frame DEF Inv, Work, Has, InZone
<1>4. Progress'
  BY <1>1, Frame DEF Inv, Progress
<1>5. Requested' /\ Told'
  BY <1>1 DEF Inv, Requested, Told
<1> QED  BY <1>2, <1>3, <1>4, <1>5 DEF Inv

LEMMA NextKeeps == Inv /\ [Next]_vars => Inv'
<1> SUFFICES ASSUME Inv, [Next]_vars PROVE Inv'
  OBVIOUS
<1>1. CASE \E a \in Asks : Start(a)
  BY <1>1, StartKeeps
<1>2. CASE Probe \/ EnsureZone \/ Lookup
  BY <1>2, ReadingKeeps
<1>3. CASE PostZone
  BY <1>3, PostZoneKeeps
<1>4. CASE List
  BY <1>4, ListKeeps
<1>5. CASE \E r \in Sets \X Values : Add(r)
  BY <1>5, AddKeeps
<1>6. CASE ReplaceAll \/ \E k \in Sets : Put(k) \/ Patch(k)
  BY <1>6, WriteKeeps
<1>7. CASE \E k \in Sets : Conflict(k)
  BY <1>7, ConflictKeeps
<1>8. CASE Kill \/ \E k \in Sets : Refuse(k)
  BY <1>8, StoppedKeeps
<1>9. CASE Written \/ Sign \/ ReadKeys \/ Finish \/ \E c \in Certs : Issue(c)
  BY <1>9, AfterKeeps
<1>10. CASE CreateByHand
  BY <1>10, CreateByHandKeeps
<1>11. CASE UNCHANGED vars
  BY <1>11, StutterKeeps
<1> QED  BY <1>1, <1>2, <1>3, <1>4, <1>5, <1>6, <1>7, <1>8, <1>9, <1>10, <1>11 DEF Next, Step

\* The inductive invariant of provision.
THEOREM ProvisionInvariant == Spec => []Inv
  BY InitInv, NextKeeps, PTL DEF Spec

\* The model stays within its types; in particular no backend holds a record twice but for
\* the listings that lost their body, once more for each.
THEOREM ProvisionTypeOK == Spec => []TypeOK
<1>1. Inv => TypeOK
  BY DEF Inv
<1> QED  BY <1>1, ProvisionInvariant, PTL

\* A run that reports success has written its plan, whatever runs before it left.
THEOREM ProvisionSuccess == Spec => []SuccessIsThePlan
<1>1. Inv => SuccessIsThePlan
  <2> SUFFICES ASSUME Inv, pc = "ok" PROVE Converged /\ told \in {0, keys}
    BY DEF SuccessIsThePlan
  <2>1. told \in {0, keys} /\ ask.certs \subseteq issued
    BY DEF Inv, Told, Requested
  <2>2. ASSUME ask.dns, NEW k \in Planned(ask) PROVE AsPlanned(k)
    <3>1. Replacing /\ Adding /\ todo = {} /\ missing = {}
      BY <2>2 DEF Inv, Progress, Work, After
    <3>2. k \in Sets
      BY DEF Planned
    <3> QED  BY <3>1, <3>2 DEF AsPlanned, Replacing, Adding
  <2> QED  BY <2>1, <2>2 DEF Converged
<1> QED  BY <1>1, ProvisionInvariant, PTL

Safe ==
  \A k \in Sets :
    /\ InZone(k) # {} => InZone(k)' # {}
    /\ InZone(k) \cap ask.zone[k] \subseteq InZone(k)'
    /\ live'[k] # live[k] => k \in Planned(ask)

\* Replacing rrsets of the plan by what it has opens no window.
LEMMA ReplacingIsSafe ==
  ASSUME Inv, NEW ks \in SUBSET Planned(ask), live' = Replaced(ks)
  PROVE  Safe
<1> SUFFICES ASSUME NEW k \in Sets
             PROVE  /\ InZone(k) # {} => InZone(k)' # {}
                    /\ InZone(k) \cap ask.zone[k] \subseteq InZone(k)'
                    /\ live'[k] # live[k] => k \in Planned(ask)
  BY DEF Safe
<1>1. CASE k \in ks
  <2>1. live'[k] = Once(ask.zone[k]) /\ ask.zone[k] # {} /\ k \in Planned(ask)
    BY <1>1 DEF Replaced, Planned
  <2>2. ask.zone[k] \subseteq Values
    BY ProvisionAssumption DEF Inv, TypeOK, AskSet
  <2>3. InZone(k)' = ask.zone[k]
    BY <2>1, <2>2 DEF InZone, Once
  <2> QED  BY <2>1, <2>3
<1>2. CASE k \notin ks
  <2>1. live'[k] = live[k]
    BY <1>2 DEF Replaced
  <2>2. InZone(k)' = InZone(k)
    BY <2>1 DEF InZone
  <2> QED  BY <2>1, <2>2
<1> QED  BY <1>1, <1>2

LEMMA SameIsSafe ==
  ASSUME live' = live
  PROVE  Safe
  BY DEF Safe, InZone

\* No step of any run leaves an rrset without records that had some, takes away a record
\* of the plan, or touches an rrset it has not.
THEOREM ProvisionNoWindow == Spec => NoWindow
<1>1. Inv /\ Next => Safe
  <2> SUFFICES ASSUME Inv, Next PROVE Safe
    OBVIOUS
  <2>1. todo \subseteq Planned(ask)
    BY DEF Inv, Work
  <2>2. CASE PostZone
    BY <2>1, <2>2, ReplacingIsSafe, SameIsSafe DEF PostZone
  <2>3. CASE ReplaceAll
    BY <2>1, <2>3, ReplacingIsSafe, SameIsSafe DEF ReplaceAll, Fault
  <2>4. ASSUME NEW k \in Sets, Put(k) \/ Patch(k) PROVE Safe
    <3>1. {k} \in SUBSET Planned(ask)
      BY <2>1, <2>4 DEF Put, Patch, Turn
    <3>2. live' = Replaced({k}) \/ live' = live
      BY <2>4 DEF Put, Patch, Fault
    <3> QED  BY <3>1, <3>2, ReplacingIsSafe, SameIsSafe
  <2>5. ASSUME NEW r \in Sets \X Values, Add(r) PROVE Safe
    <3> DEFINE after == [live EXCEPT ![r[1]][r[2]] = @ + 1]
    <3>1. r \in missing /\ live[r[1]][r[2]] <= unread /\ live' \in {live, after} /\ r[2] \in ask.zone[r[1]]
      BY <2>5 DEF Inv, Work, Add, Fault
    <3>2. /\ after[r[1]][r[2]] > 0
          /\ \A k \in Sets : \A v \in Values : <<k, v>> # r => after[k][v] = live[k][v]
      BY <3>1, AddedIs DEF Inv
    <3>3. CASE live' = after
      <4>1. r[1] \in Sets /\ r[2] \in Values /\ r = <<r[1], r[2]>> /\ r[1] \in Planned(ask)
        BY <3>1 DEF Planned
      <4>2. \A k \in Sets : k # r[1] => after[k] = live[k]
        BY <4>1 DEF Inv, TypeOK, Zone
      <4>3. \A k \in Sets : InZone(k) \subseteq InZone(k)'
        <5> SUFFICES ASSUME NEW k \in Sets, NEW v \in Values, live[k][v] > 0
                     PROVE  after[k][v] > 0
          BY <3>3 DEF InZone
        <5> QED  BY <3>2, <4>1
      <4> HIDE DEF after
      <4> QED  BY <3>3, <4>1, <4>2, <4>3 DEF Safe
    <3> QED  BY <3>1, <3>3, SameIsSafe
  <2>6. CASE \/ Probe \/ EnsureZone \/ Lookup \/ List \/ Written \/ Sign \/ ReadKeys \/ Finish
             \/ Kill \/ CreateByHand
             \/ \E k \in Sets : Refuse(k) \/ Conflict(k)
             \/ \E c \in Certs : Issue(c)
             \/ \E a \in Asks : Start(a)
    <3>1. live' = live
      BY <2>6 DEF Probe, EnsureZone, Lookup, List, Written, Sign, ReadKeys, Finish, Kill,
                  CreateByHand, Refuse, Conflict, Issue, Start, world
    <3> QED  BY <3>1, SameIsSafe
  <2> QED  BY <2>2, <2>3, <2>4, <2>5, <2>6 DEF Next, Step
<1>2. Inv /\ [Next]_vars => [Safe]_vars
  BY <1>1
<1>3. [][Safe]_vars => NoWindow
  BY PTL DEF NoWindow, Safe
<1> QED  BY <1>2, <1>3, ProvisionInvariant, PTL DEF Spec
=============================================================================
