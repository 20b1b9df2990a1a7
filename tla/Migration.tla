------------------------------ MODULE Migration ------------------------------
(***************************************************************************)
(* From the live zone to the generated stack: extract writes a snapshot,   *)
(* resolve fills decisions.lock, prepare builds the plan and writes the    *)
(* artifacts one after the other.  The zone changes meanwhile, surfaces    *)
(* fail to be read, a snapshot may date from before gaps were recorded,    *)
(* answers are edited by hand and outlive the snapshot they were given     *)
(* for, and prepare can die between two artifacts.                         *)
(*                                                                         *)
(* The extraction is one step here; Extract has it call by call.           *)
(***************************************************************************)
EXTENDS Verdict, Naturals

CONSTANTS
  Zones,       \* the zones considered, each a set of elements
  OldFiles,    \* snapshots of an earlier schema that may be lying around
  None,        \* no snapshot, no plan
  OffMode,     \* the element an uncaptured SSL mode reads as
  Typed,       \* what the operator puts into the lock file by hand
  MaxGaps,     \* bound: surfaces one extraction fails to read
  MaxChanges   \* bound: changes of the zone, by the operator to the lock file, extractions

\* Which read an element comes from; "unread" is never asked for, or read and not kept.
Surface(e) ==
  CASE e.what \in {"grey", "proxied"} -> "dns"
    [] e.what \in {"dnssec", "sslStrict", "sslFull", "sslFlexible", "sslOff", "sslOther",
                   "setting", "cacheLevel"} -> "settings"
    [] e.what \in {"forwarding", "pageHTTPS", "pageSSL", "pageTTL"} -> "pagerules"
    [] e.what \in {"wafBlock", "wafChallenge", "rateLimit", "redirect", "header", "rewrite",
                   "originRule", "cacheRule", "owasp", "managed"} -> "rulesets"
    [] e.what = "certificate" -> "certificates"
    [] e.what \in {"ipBlock", "ipAllow", "ipChallenge"} -> "ipaccess"
    [] e.what \in {"uaBlock", "uaChallenge"} -> "ua"
    [] e.what \in {"r2", "access"} -> "account"
    [] e.what = "byHand" -> "features"
    [] e.what \in {"loadBalancer", "accessPath"} -> "unread"

\* Failing to read the DNS records is fatal and leaves no snapshot.
Optional == {"settings", "pagerules", "rulesets", "certificates", "ipaccess", "ua",
             "account", "features"}

Snapshots == [elements : SUBSET Elements, gaps : SUBSET Optional, stale : BOOLEAN]

ASSUME MigrationAssumption ==
  /\ MaxGaps \in Nat /\ MaxChanges \in Nat
  /\ Zones \subseteq SUBSET Elements /\ Typed \subseteq Answers
  /\ OffMode \in Elements /\ OffMode.what = "sslOff"
  /\ \A f \in OldFiles : f \in Snapshots /\ f.stale

\* "from" is history: the zone the snapshot was taken from.
Plan == [snap : Snapshots, d : Decisions, from : SUBSET Elements]

VARIABLES
  zone,       \* the live zone
  file,       \* the snapshot on disk
  source,     \* history: the zone it was taken from
  decisions,  \* decisions.lock; a key that is not there reads ""
  job,        \* the plan prepare is writing
  at,         \* the next artifact: Caddyfile 1, WAF 2, zone file 3, run book 4; else 0
  caddyfile,  \* the hosts the one on disk serves
  zonefile,   \* the hosts the one on disk points at the edge
  exit,       \* of a prepare just ended: ok 0, failed 1, manual 10, ask 11
  changes

vars == <<zone, file, source, decisions, job, at, caddyfile, zonefile, exit, changes>>

-----------------------------------------------------------------------------

Init ==
  /\ zone \in Zones /\ source = zone
  /\ file \in OldFiles \cup {None}
  /\ file # None => file.elements \subseteq zone
  /\ decisions = [k \in Keys |-> ""]
  /\ job = None /\ at = 0
  /\ caddyfile = {} /\ zonefile = {}
  /\ exit = "none" /\ changes = 0

Change == changes < MaxChanges /\ changes' = changes + 1

\* The last prepare is history once something else happens.
Forget == job' = None /\ exit' = "none"

\* prepare reads nothing of the zone, so a change under it is one before or after it.
ZoneChanges ==
  /\ at = 0 /\ Change
  /\ zone' \in Zones /\ (zone \subseteq zone' \/ zone' \subseteq zone)
  /\ Forget /\ UNCHANGED <<file, source, decisions, at, caddyfile, zonefile>>

\* What one extraction gets of a zone that holds still, missing these surfaces.
Captured(gaps) ==
  {e \in zone : Surface(e) \notin gaps \cup {"unread"}}
    \cup (IF "settings" \in gaps THEN {OffMode} ELSE {})

ExtractsUnrecorded(gaps) ==
  /\ at = 0 /\ Change
  /\ file' = [elements |-> Captured(gaps), gaps |-> {}, stale |-> FALSE]
  /\ source' = zone
  /\ Forget /\ UNCHANGED <<zone, decisions, at, caddyfile, zonefile>>

Extracts(gaps) ==
  /\ at = 0 /\ Change
  /\ file' = [elements |-> Captured(gaps), gaps |-> gaps, stale |-> FALSE]
  /\ source' = zone
  /\ Forget /\ UNCHANGED <<zone, decisions, at, caddyfile, zonefile>>

\* The questions resolve puts: asked for in the snapshot and not answered yet.
Pending == {e \in file.elements : Asks(e) /\ decisions[Key(e)] = ""}

\* The question an answer goes by.
PendingFor(k) == CHOOSE e \in Pending : Key(e) = k

\* These questions get the other answer, the rest their default.
Answered(chosen, address) ==
  LET answer(e) == IF e \in chosen THEN Choice(e, address) ELSE Default(e) IN
  [k \in Keys |-> IF \E e \in Pending : Key(e) = k
                 THEN answer(PendingFor(k)) ELSE decisions[k]]

Resolve(chosen, address) ==
  /\ at = 0
  /\ decisions' = Answered(chosen, address)
  /\ Forget /\ UNCHANGED <<zone, file, source, at, caddyfile, zonefile, changes>>

\* The operator edits the answer to a question of the report.
Amend(k, a) ==
  /\ at = 0 /\ Change
  /\ \E e \in file.elements : Asks(e) /\ Key(e) = k
  /\ decisions' = [decisions EXCEPT ![k] = a]
  /\ Forget /\ UNCHANGED <<zone, file, source, at, caddyfile, zonefile>>

\* Classify, Build and Validate; nothing is written for a plan that is refused.
Prepare ==
  /\ at = 0 /\ file # None
  /\ IF Valid(file, decisions)
     THEN job' = [snap |-> file, d |-> decisions, from |-> source] /\ at' = 1 /\ exit' = "running"
     ELSE exit' = "failed" /\ UNCHANGED <<job, at>>
  /\ UNCHANGED <<zone, file, source, decisions, caddyfile, zonefile, changes>>

WriteZoneFirst ==
  /\ at \in 1 .. 4
  /\ zonefile' = IF at = 1 THEN EdgeRecords(job.snap, job.d) ELSE zonefile
  /\ caddyfile' = IF at = 3 THEN Sites(job.snap, job.d) ELSE caddyfile
  /\ IF at < 4 THEN at' = at + 1 /\ UNCHANGED exit ELSE at' = 0 /\ exit' = ExitOf(job.snap)
  /\ UNCHANGED <<zone, file, source, decisions, job, changes>>

WriteArtifact ==
  /\ at \in 1 .. 4
  /\ caddyfile' = IF at = 1 THEN Sites(job.snap, job.d) ELSE caddyfile
  /\ zonefile' = IF at = 3 THEN EdgeRecords(job.snap, job.d) ELSE zonefile
  /\ IF at < 4 THEN at' = at + 1 /\ UNCHANGED exit ELSE at' = 0 /\ exit' = ExitOf(job.snap)
  /\ UNCHANGED <<zone, file, source, decisions, job, changes>>

\* A write fails, or prepare is killed.
Dies ==
  /\ at \in 1 .. 4
  /\ at' = 0 /\ exit' = "failed"
  /\ UNCHANGED <<zone, file, source, decisions, job, caddyfile, zonefile, changes>>

Next ==
  \/ ZoneChanges \/ Prepare \/ WriteArtifact \/ Dies
  \/ \E gaps \in SUBSET Optional : Cardinality(gaps) <= MaxGaps /\ Extracts(gaps)
  \/ file # None /\ \E chosen \in SUBSET Pending, a \in {"up", "malformed"} : Resolve(chosen, a)
  \/ file # None /\ \E k \in Keys, a \in Typed : Amend(k, a)

Spec == Init /\ [][Next]_vars

-----------------------------------------------------------------------------

TypeOK ==
  /\ zone \in SUBSET Elements /\ source \in SUBSET Elements
  /\ file \in Snapshots \cup {None} /\ decisions \in Decisions
  /\ job \in Plan \cup {None} /\ at \in 0 .. 4 /\ (at # 0 => job \in Plan)
  /\ caddyfile \subseteq Hosts /\ zonefile \subseteq Hosts
  /\ exit \in {"none", "running", "failed", "ok", "manual", "ask"}
  /\ exit \notin {"none", "failed"} => job \in Plan
  /\ changes \in 0 .. MaxChanges

\* prepare has ended with a stack and a report.
Prepared == exit \in {"ok", "manual", "ask"}

\* The report, and with it the exit code, points at this element.
Reported(e) ==
  \/ exit = "manual" /\ (job.snap.stale \/ Surface(e) \in job.snap.gaps)
  \/ exit = "manual" /\ e \in job.snap.elements /\ Manual(e, job.snap)
  \/ exit \in {"manual", "ask"} /\ e \in job.snap.elements /\ Asks(e)

\* Its host has no site yet, which the exit code says, or there is no host to serve at all.
WithoutSite(e) ==
  /\ OnSite(e, job.snap, Hosts)
  /\ ~ OnSite(e, job.snap, Sites(job.snap, job.d))
  /\ exit # "ok" \/ Proxied(job.snap) = {}

\* The contract of the tool, from the zone to the exit code: whatever the zone had when
\* the snapshot was taken is in the generated stack or in the report, but for what
\* extraction never asks for and the AUTO findings with no generator.
NothingDroppedSilently ==
  Prepared => \A e \in job.from :
    \/ e \in job.snap.elements /\ Emits(e, job.snap, job.d)
    \/ Reported(e)
    \/ e \in job.snap.elements /\ WithoutSite(e)
    \/ Surface(e) = "unread" \/ Unbacked(e, job.snap)

\* The other direction (package plan: "exactly the AUTO plus answered-ASK surface, never
\* more"): what is emitted was AUTO or confirmed, the SSL modes and the cache level aside.
EmittedIsDecided ==
  Prepared => \A e \in job.snap.elements :
    Emits(e, job.snap, job.d) =>
      \/ IsAuto(e, job.snap) \/ e.what \in Assumed
      \/ Asks(e) /\ (job.d[Key(e)] = "yes" \/ (e.what = "proxied" /\ job.d[Key(e)] # ""))

\* A host that asks for a login is served to anyone only by a stack whose report says that
\* the Access applications were not read; or its application is on a path, which extractAccess drops.
LoginKept ==
  Prepared => \A h \in Gated([elements |-> {e \in job.from : Surface(e) # "unread"}])
                     \cap Sites(job.snap, job.d) :
    exit = "manual" /\ ("account" \in job.snap.gaps \/ job.snap.stale)

\* Whatever earlier runs left half written, the zone file that comes to point a host at
\* the edge finds the host in the Caddyfile beside it.
NoRecordBeforeItsSite ==
  [][\A h \in zonefile' \ zonefile : h \in caddyfile']_vars

\* An unanswered question and its recorded default mean the same to plan.Build, whichever
\* of its builders reads the answer: resolve --defaults does not change the stack.
DefaultsChangeNothing ==
  (at = 0 /\ file # None) =>
    LET filled == Answered({}, "up") IN
    /\ Scheme(file, filled) = Scheme(file, decisions)
    /\ EdgeRecords(file, filled) = EdgeRecords(file, decisions)
    /\ \A e \in file.elements : Emits(e, file, filled) <=> Emits(e, file, decisions)

=============================================================================
