--------------------------- MODULE MigrationProofs ---------------------------
(***************************************************************************)
(* For every zone, every lock file, every extraction and every death of    *)
(* prepare: nothing is dropped silently, nothing is emitted undecided, no  *)
(* login disappears and no record precedes its site.                       *)
(*                                                                         *)
(* The invariants say things of the job prepare is on, which is made of    *)
(* the snapshot, which was made of the zone: Faithful carries the relation *)
(* along, and three lemmas about classify and plan do the rest.            *)
(***************************************************************************)
EXTENDS Migration, TLAPS

-----------------------------------------------------------------------------
(* classify and plan, for every snapshot *)

(* The first of some is one of them, and nothing more is used of it. *)
LEMMA FirstIsOne == ASSUME NEW E, E # {} PROVE FirstOf(E) \in E
BY Zenon DEF FirstOf

(* Caddy serves, and the zone file points at the edge, the same proxied hosts. *)
LEMMA SitesAreProxied ==
  ASSUME NEW S \in Snapshots, NEW d
  PROVE  /\ Sites(S, d) \subseteq Proxied(S) /\ Proxied(S) \subseteq Hosts
         /\ EdgeRecords(S, d) = Sites(S, d)
BY VerdictAssumption DEF Snapshots, Sites, Proxied, EdgeRecords, Of

(* Whatever is in a snapshot has configuration, a place in the report, a site to come, or *)
(* is one of the AUTO findings nothing answers to.                                        *)
LEMMA AccountedFor ==
  ASSUME NEW S \in Snapshots, NEW d, NEW e \in S.elements, ~ Manual(e, S), ~ Asks(e)
  PROVE  Emits(e, S, d) \/ OnSite(e, S, Hosts) \/ Unbacked(e, S)
<1>1. e \in Elements /\ Hosts # {} /\ Proxied(S) \subseteq Hosts
  BY VerdictAssumption, SitesAreProxied DEF Snapshots
<1>2. CASE e.what = "cacheLevel"
  BY <1>1, <1>2 DEF OnSite, CachedBy, Of
<1>3. CASE IsAuto(e, S)
  <2>1. CASE e.what \in {"pageTTL", "cacheRule"}
    BY <1>1, <2>1 DEF OnSite, Unbacked
  <2>2. CASE e.what = "originRule"
    BY <1>1, <1>3, <2>2 DEF IsAuto, OnSite, Unbacked, AlwaysAuto
  <2>3. CASE e.what \in {"header", "rewrite", "redirect", "forwarding"}
    BY <1>1, <1>3, <2>3 DEF IsAuto, OnSite, Unbacked, AlwaysAuto
  <2>4. CASE e.what \in {"sslFull", "certificate", "setting"}
    BY <1>1, <2>4 DEF OnSite, SiteSettings
  <2>5. CASE e.what \in {"grey", "pageHTTPS", "pageSSL", "owasp", "managed", "uaBlock", "loadBalancer"}
    BY <2>5 DEF Emits, InWAF, Unbacked
  <2>6. CASE e.what \in {"wafBlock", "rateLimit", "ipBlock", "ipAllow"}
    BY <1>3, <2>6 DEF IsAuto, Emits, InWAF, AlwaysAuto
  <2> QED BY <1>3, <2>1, <2>2, <2>3, <2>4, <2>5, <2>6 DEF IsAuto, AlwaysAuto
<1> QED BY <1>2, <1>3 DEF Manual

(* What plan.Build emits, classify called AUTO, or asked about and was told to go on. *)
LEMMA EmittedWasDecided ==
  ASSUME NEW S \in Snapshots, NEW d, NEW e \in S.elements, Emits(e, S, d)
  PROVE  \/ IsAuto(e, S) \/ e.what \in Assumed
         \/ Asks(e) /\ (d[Key(e)] = "yes" \/ (e.what = "proxied" /\ d[Key(e)] # ""))
<1>1. Sites(S, d) \subseteq Proxied(S) /\ Proxied(S) \subseteq Hosts
  BY SitesAreProxied
<1>2. CASE e.what = "grey"
  BY <1>2 DEF IsAuto, AlwaysAuto
<1>3. CASE e.what = "proxied" /\ e.scope \in Sites(S, d)
  <2>1. Key(e) = <<"proxied", e.scope>>
    BY <1>3 DEF Key
  <2>2. d[<<"proxied", e.scope>>] # ""
    BY <1>3 DEF Sites
  <2> QED BY <1>3, <2>1, <2>2 DEF Asks, AlwaysAsk
<1>4. CASE e.what = "dnssec" /\ d[Key(e)] = "yes"
  BY <1>4 DEF Asks, AlwaysAsk
<1>5. CASE OnSite(e, S, Sites(S, d))
  <2>1. CASE e.what \in SiteSettings
    BY <2>1 DEF SiteSettings, IsAuto, AlwaysAuto, Assumed
  <2>2. CASE e \in CachedBy(S)
    BY <2>2, FirstIsOne DEF CachedBy, Of, IsAuto, AlwaysAuto, Assumed
  <2>3. CASE e.what \in {"header", "rewrite"} /\ e.fits /\ e.scope \in Hosts \cup {"zone", "path"}
    BY <1>1, <1>5, <2>3 DEF OnSite, IsAuto
  <2>4. CASE \/ e.what = "redirect" /\ e.fits
             \/ e.what = "forwarding"
             \/ e.what = "originRule" /\ e.fits /\ e.scope \in Hosts \cup {"path"}
    BY <2>4 DEF IsAuto, AlwaysAuto
  <2> QED BY <1>5, <2>1, <2>2, <2>3, <2>4 DEF OnSite
<1>6. CASE InWAF(e, d)
  BY <1>6 DEF InWAF, IsAuto, AlwaysAuto, Asks, AlwaysAsk
<1> QED BY <1>2, <1>3, <1>4, <1>5, <1>6 DEF Emits

(* One of the questions with a key, whichever it is. *)
LEMMA PendingIsFound ==
  ASSUME NEW k, \E e \in Pending : Key(e) = k
  PROVE  PendingFor(k) \in Pending /\ Key(PendingFor(k)) = k
BY Zenon DEF PendingFor

(* An unanswered question reads as its default wherever plan.Build looks at it. *)
LEMMA DefaultsRead ==
  ASSUME TypeOK, file \in Snapshots
  PROVE  LET filled == Answered({}, "up") IN
         \A e \in file.elements : Asks(e) =>
           filled[Key(e)] = IF decisions[Key(e)] = "" THEN Default(e) ELSE decisions[Key(e)]
<1> DEFINE filled == Answered({}, "up")
<1> SUFFICES ASSUME NEW e \in file.elements, Asks(e)
             PROVE  filled[Key(e)] = IF decisions[Key(e)] = "" THEN Default(e)
                                     ELSE decisions[Key(e)]
  OBVIOUS
<1>1. Key(e) \in Keys
  BY DEF Keys, Snapshots
<1>2. filled[Key(e)] = IF \E f \in Pending : Key(f) = Key(e)
                       THEN Default(PendingFor(Key(e)))
                       ELSE decisions[Key(e)]
  BY <1>1 DEF Answered
<1>3. CASE decisions[Key(e)] = ""
  <2>1. e \in Pending
    BY <1>3 DEF Pending
  <2>2. PICK g \in Pending : g = PendingFor(Key(e)) /\ Key(g) = Key(e)
    BY <2>1, PendingIsFound
  <2>3. g.what = e.what
    BY <2>2 DEF Key
  <2>4. Default(g) = Default(e)
    BY <2>3 DEF Default
  <2> QED BY <1>2, <1>3, <2>1, <2>2, <2>4
<1>4. CASE decisions[Key(e)] # ""
  <2>1. ~ \E f \in Pending : Key(f) = Key(e)
    BY <1>4 DEF Pending
  <2> QED BY <1>2, <1>4, <2>1
<1> QED BY <1>3, <1>4

-----------------------------------------------------------------------------
(* The invariant *)

\* What the zone had is in the snapshot, or the snapshot says that it cannot tell.
Faithful(S, z) ==
  S.stale \/ \A e \in z : e \in S.elements \/ Surface(e) \in S.gaps \cup {"unread"}

IInv ==
  /\ TypeOK
  /\ file # None => Faithful(file, source)
  /\ at # 0 \/ Prepared => Faithful(job.snap, job.from)
  /\ at > 1 => caddyfile = Sites(job.snap, job.d)
  /\ Prepared => exit = ExitOf(job.snap)

(* Every initial state satisfies it: no snapshot, or an old one. *)
LEMMA InitIInv == Init => IInv
<1> SUFFICES ASSUME Init PROVE IInv
  OBVIOUS
<1>1. /\ zone \in Zones /\ source = zone /\ file \in OldFiles \cup {None}
      /\ job = None /\ at = 0 /\ changes = 0 /\ exit = "none"
      /\ caddyfile = {} /\ zonefile = {}
  BY DEF Init
<1>2. file \in Snapshots \cup {None} /\ (file # None => file.stale) /\ zone \in SUBSET Elements
  BY <1>1, MigrationAssumption
<1>3. decisions \in Decisions
  BY DEF Init, Decisions, Answers
<1>4. changes \in 0 .. MaxChanges
  BY <1>1, MigrationAssumption
<1>5. TypeOK
  BY <1>1, <1>2, <1>3, <1>4 DEF TypeOK
<1>6. file # None => Faithful(file, source)
  BY <1>2 DEF Faithful
<1> QED BY <1>1, <1>5, <1>6 DEF IInv, Prepared

(* Every step of the operator, the zone and the commands preserves it. *)
LEMMA StepIInv == IInv /\ [Next]_vars => IInv'
<1> SUFFICES ASSUME IInv, [Next]_vars PROVE IInv'
  OBVIOUS
<1> USE DEF IInv
<1>1. CASE UNCHANGED vars
  BY <1>1 DEF vars, TypeOK, Prepared
<1>2. CASE ZoneChanges
  BY <1>2, MigrationAssumption DEF ZoneChanges, Change, Forget, TypeOK, Prepared
<1>3. ASSUME NEW gaps \in SUBSET Optional, Extracts(gaps) PROVE IInv'
  <2>1. Captured(gaps) \subseteq Elements
    BY MigrationAssumption DEF Captured, TypeOK
  <2>2. file' \in Snapshots
    BY <1>3, <2>1 DEF Extracts, Snapshots
  <2>3. Faithful(file', source')
    BY <1>3 DEF Extracts, Faithful, Captured
  <2> QED BY <1>3, <2>2, <2>3, MigrationAssumption
          DEF Extracts, Change, Forget, TypeOK, Prepared
<1>4. ASSUME file # None, NEW chosen \in SUBSET Pending, NEW a \in {"up", "malformed"},
             Resolve(chosen, a)
      PROVE  IInv'
  <2>1. \A e : Choice(e, a) \in Answers /\ Default(e) \in Answers
    BY DEF Choice, Default, Answers
  <2>2. Answered(chosen, a) \in Decisions
    BY <2>1 DEF Answered, Decisions, TypeOK
  <2> QED BY <1>4, <2>2 DEF Resolve, Forget, TypeOK, Prepared
<1>5. ASSUME file # None, NEW k \in Keys, NEW a \in Typed, Amend(k, a) PROVE IInv'
  <2>1. decisions' \in Decisions
    BY <1>5, MigrationAssumption DEF Amend, Decisions, TypeOK
  <2> QED BY <1>5, <2>1, MigrationAssumption DEF Amend, Change, Forget, TypeOK, Prepared
<1>6. CASE Prepare
  <2>1. file \in Snapshots /\ Faithful(file, source)
    BY <1>6 DEF Prepare, TypeOK
  <2>2. CASE Valid(file, decisions)
    <3>1. /\ job' = [snap |-> file, d |-> decisions, from |-> source]
          /\ at' = 1 /\ exit' = "running"
      BY <1>6, <2>2 DEF Prepare
    <3>2. job' \in Plan /\ Faithful(job'.snap, job'.from)
      BY <2>1, <3>1 DEF Plan, TypeOK
    <3> QED BY <1>6, <3>1, <3>2 DEF Prepare, TypeOK, Prepared
  <2>3. CASE ~ Valid(file, decisions)
    BY <1>6, <2>3 DEF Prepare, TypeOK, Prepared
  <2> QED BY <2>2, <2>3
<1>7. CASE WriteArtifact
  <2>1. job \in Plan /\ at \in 1 .. 4
    BY <1>7 DEF WriteArtifact, TypeOK
  <2>2. Sites(job.snap, job.d) \subseteq Hosts /\ EdgeRecords(job.snap, job.d) \subseteq Hosts
    BY <2>1, SitesAreProxied DEF Plan
  <2>3. ExitOf(job.snap) \in {"ok", "manual", "ask"}
    BY DEF ExitOf
  <2>4. caddyfile' = Sites(job.snap, job.d) /\ zonefile' \subseteq Hosts
    BY <1>7, <2>1, <2>2 DEF WriteArtifact, TypeOK
  <2>5. CASE at < 4
    BY <1>7, <2>1, <2>2, <2>4, <2>5 DEF WriteArtifact, TypeOK, Prepared
  <2>6. CASE at = 4
    BY <1>7, <2>1, <2>2, <2>3, <2>4, <2>6 DEF WriteArtifact, TypeOK, Prepared
  <2> QED BY <2>1, <2>5, <2>6
<1>8. CASE Dies
  BY <1>8 DEF Dies, TypeOK, Prepared
<1> QED BY <1>1, <1>2, <1>3, <1>4, <1>5, <1>6, <1>7, <1>8 DEF Next

(* The inductive invariant holds of every behaviour. *)
THEOREM MigrationInvariant == Spec => []IInv
BY InitIInv, StepIInv, PTL DEF Spec

(* Type correctness, and a plan wherever prepare is at work. *)
THEOREM MigrationTypeOK == Spec => []TypeOK
<1>1. IInv => TypeOK
  BY DEF IInv
<1> QED BY <1>1, MigrationInvariant, PTL

-----------------------------------------------------------------------------
(* The contract *)

(* Everything the zone had is in the generated stack or in the report, but for what is   *)
(* never read and the AUTO findings no generator answers to.                              *)
THEOREM MigrationNothingDropped == Spec => []NothingDroppedSilently
<1>1. ASSUME IInv, Prepared, NEW e \in job.from
      PROVE  \/ e \in job.snap.elements /\ Emits(e, job.snap, job.d)
             \/ Reported(e)
             \/ e \in job.snap.elements /\ WithoutSite(e)
             \/ Surface(e) = "unread" \/ Unbacked(e, job.snap)
  <2>1. /\ job \in Plan /\ job.snap \in Snapshots
        /\ exit = ExitOf(job.snap)
    BY <1>1 DEF IInv, TypeOK, Prepared, Plan
  <2>2. CASE job.snap.stale
    BY <1>1, <2>1, <2>2 DEF ExitOf, Reported
  <2>3. CASE Surface(e) \in job.snap.gaps
    BY <1>1, <2>1, <2>3 DEF ExitOf, Reported
  <2>4. CASE e \in job.snap.elements
    <3>1. CASE Manual(e, job.snap)
      BY <2>1, <2>4, <3>1 DEF ExitOf, Reported
    <3>2. CASE Asks(e)
      BY <2>1, <2>4, <3>2 DEF ExitOf, Reported
    <3>3. CASE ~ Manual(e, job.snap) /\ ~ Asks(e)
      <4>1. Emits(e, job.snap, job.d) \/ OnSite(e, job.snap, Hosts) \/ Unbacked(e, job.snap)
        BY <2>1, <2>4, <3>3, AccountedFor
      <4>2. exit # "ok" \/ Proxied(job.snap) = {}
        BY <2>1 DEF ExitOf, Proxied, Of, Asks, AlwaysAsk
      <4> QED BY <2>4, <4>1, <4>2 DEF Emits, WithoutSite
    <3> QED BY <3>1, <3>2, <3>3
  <2> QED BY <1>1, <2>1, <2>2, <2>3, <2>4 DEF IInv, Faithful
<1>2. IInv => NothingDroppedSilently
  BY <1>1 DEF NothingDroppedSilently
<1> QED BY <1>2, MigrationInvariant, PTL

(* What is emitted was AUTO, or asked about and confirmed, or assumed. *)
THEOREM MigrationEmittedIsDecided == Spec => []EmittedIsDecided
<1>1. IInv => EmittedIsDecided
  BY EmittedWasDecided DEF IInv, TypeOK, EmittedIsDecided, Prepared, Plan
<1> QED BY <1>1, MigrationInvariant, PTL

(* No host loses its login but under a report that says it could not tell. *)
THEOREM MigrationLoginKept == Spec => []LoginKept
<1>1. ASSUME IInv, Prepared,
             NEW h \in Gated([elements |-> {e \in job.from : Surface(e) # "unread"}]),
             h \in Sites(job.snap, job.d)
      PROVE  exit = "manual" /\ ("account" \in job.snap.gaps \/ job.snap.stale)
  <2>1. job \in Plan /\ exit = ExitOf(job.snap)
    BY <1>1 DEF IInv, TypeOK, Prepared
  <2>2. PICK a \in job.from : /\ a.what \in {"access", "accessPath"} /\ Surface(a) # "unread"
                              /\ a.scope = h \/ (a.scope = "wildcard" /\ h # Apex)
    BY <1>1 DEF Gated, Of
  <2>3. a \notin job.snap.elements
    BY <1>1, <2>2 DEF Sites, Gated, Of
  <2>4. Surface(a) = "account"
    BY <2>2 DEF Surface
  <2>5. "account" \in job.snap.gaps \/ job.snap.stale
    BY <1>1, <2>2, <2>3, <2>4 DEF IInv, Faithful
  <2> QED BY <2>1, <2>5 DEF ExitOf
<1>2. IInv => LoginKept
  BY <1>1 DEF LoginKept
<1> QED BY <1>2, MigrationInvariant, PTL

(* A record that comes to point at the edge finds its site in the Caddyfile beside it. *)
THEOREM MigrationNoRecordBeforeItsSite == Spec => NoRecordBeforeItsSite
<1>1. ASSUME IInv, [Next]_vars, NEW h \in zonefile' \ zonefile
      PROVE  h \in caddyfile'
  <2>1. WriteArtifact /\ at = 3
    BY <1>1 DEF Next, vars, ZoneChanges, Extracts, Resolve, Amend, Prepare, WriteArtifact, Dies
  <2>2. job \in Plan
    BY <1>1, <2>1 DEF IInv, TypeOK
  <2> QED BY <1>1, <2>1, <2>2, SitesAreProxied DEF WriteArtifact, IInv, Plan
<1>2. IInv /\ [Next]_vars => [\A h \in zonefile' \ zonefile : h \in caddyfile']_vars
  BY <1>1
<1> QED BY <1>2, MigrationInvariant, PTL DEF Spec, NoRecordBeforeItsSite

(* resolve --defaults changes nothing that is generated. *)
THEOREM MigrationDefaultsChangeNothing == Spec => []DefaultsChangeNothing
<1> DEFINE filled == Answered({}, "up")
<1>1. ASSUME TypeOK, file # None
      PROVE  /\ Scheme(file, filled) = Scheme(file, decisions)
             /\ EdgeRecords(file, filled) = EdgeRecords(file, decisions)
             /\ \A e \in file.elements : Emits(e, file, filled) <=> Emits(e, file, decisions)
  <2>1. file \in Snapshots
    BY <1>1 DEF TypeOK
  <2>2. \A e \in file.elements : Asks(e) =>
          filled[Key(e)] = IF decisions[Key(e)] = "" THEN Default(e) ELSE decisions[Key(e)]
    BY <1>1, <2>1, DefaultsRead
  <2>3. \A k \in Keys : (\A e \in Pending : Key(e) # k) => filled[k] = decisions[k]
    BY DEF Answered
  <2> HIDE DEF filled
  <2>4. \A h \in Proxied(file) : filled[<<"proxied", h>>] = decisions[<<"proxied", h>>]
    BY <2>2 DEF Proxied, Of, Asks, AlwaysAsk, Key, Default
  <2>5. Sites(file, filled) = Sites(file, decisions)
    BY <2>4 DEF Sites
  <2>6. EdgeRecords(file, filled) = EdgeRecords(file, decisions)
    BY <2>4 DEF EdgeRecords
  <2>7. \A e \in file.elements : InWAF(e, filled) <=> InWAF(e, decisions)
    BY <2>2 DEF InWAF, Asks, AlwaysAsk, Default
  <2>8. \A e \in file.elements : e.what = "dnssec" => (filled[Key(e)] = "yes" <=> decisions[Key(e)] = "yes")
    BY <2>2 DEF Asks, AlwaysAsk, Default
  <2>9. Scheme(file, filled) = Scheme(file, decisions)
    <3>1. \A e \in file.elements : e.what \in Single =>
            filled[<<e.what, "zone">>] = IF decisions[<<e.what, "zone">>] = "" THEN Default(e)
                                         ELSE decisions[<<e.what, "zone">>]
      BY <2>2 DEF Asks, AlwaysAsk, Key, Single
    <3>2. CASE Of(file, "sslStrict") # {}
      BY <3>1, <3>2 DEF Scheme, Of, Single, Default
    <3>3. CASE Of(file, "sslStrict") = {} /\ Of(file, "sslFull") # {}
      BY <3>3 DEF Scheme
    <3>4. CASE /\ Of(file, "sslStrict") = {} /\ Of(file, "sslFull") = {}
               /\ Of(file, "sslFlexible") # {}
      BY <3>1, <3>4 DEF Scheme, Of, Single, Default
    <3>5. CASE /\ Of(file, "sslStrict") = {} /\ Of(file, "sslFull") = {}
               /\ Of(file, "sslFlexible") = {}
      <4>1. CASE Of(file, "sslOff") # {}
        BY <3>1, <3>5, <4>1 DEF Scheme, Of, Single, Default
      <4>2. CASE Of(file, "sslOff") = {}
        <5>1. <<"sslOff", "zone">> = Key(OffMode) /\ Asks(OffMode) /\ OffMode \in Elements
          BY MigrationAssumption DEF Key, Single, Asks, AlwaysAsk
        <5>2. <<"sslOff", "zone">> \in Keys
          BY <5>1 DEF Keys
        <5>3. \A e \in Pending : Key(e) # <<"sslOff", "zone">>
          BY <4>2 DEF Of, Pending, Key
        <5>4. filled[<<"sslOff", "zone">>] = decisions[<<"sslOff", "zone">>]
          BY <2>3, <5>2, <5>3
        <5> QED BY <3>5, <5>4 DEF Scheme
      <4> QED BY <4>1, <4>2
    <3> QED BY <3>2, <3>3, <3>4, <3>5
  <2> QED BY <2>5, <2>6, <2>7, <2>8, <2>9 DEF Emits
<1>2. IInv => DefaultsChangeNothing
  BY <1>1 DEF IInv, DefaultsChangeNothing
<1> QED BY <1>2, MigrationInvariant, PTL
=============================================================================
