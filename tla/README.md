# flareover: specifications, model checking and proofs

flareover moves a site from Cloudflare to infrastructure its owner runs. It reads a zone
(`extract`), classifies every setting (`assess`: AUTO, ASK or MANUAL), asks the operator
about the rest (`resolve`), generates the target's configuration (`prepare`), writes DNS
(`provision`), compares the old edge with the new one and lets the operator flip DNS
(`execute`, `present`), and afterwards watches the new edge and runs a rollback when it fails
(`guard`). The program never flips DNS itself. What it may not do is tell the operator that a
step succeeded when it did not: the operator acts on that.

This directory holds TLA+ modules for the parts of the program where that can go wrong in an
order nobody tests, or between two parts that nobody tests together, TLC configurations that check
them, and TLAPS proofs.

## Components

Each entry gives the state a component keeps, its operations, how it interacts, what is hard
about it and what makes it correct. `PROJECT.json` lists the same components with their files.

| Component | State and operations | Interaction | Hard, and what correct means |
|---|---|---|---|
| failguard (`internal/guard`, `cmdGuard`, the systemd unit) | a count of consecutive failed checks; tick, trigger, wait | one goroutine, the root context cancelled by SIGINT/SIGTERM, a ticker, a shell hook, systemd's restart | signal, tick, check and hook in any order. Fires on an outage and only on one; the exit code is true; a stopped guard ends |
| parity gate (`internal/parity`) | results per probe; ProbesFromPlan, Compare, diff, Gate | two goroutines per probe, one to the live edge and one dialled at `--after-addr` | edges that change or go down while they are compared, cancellation. 0 means no probe diverged hard |
| execute, present (`cmd/flareover`) | none of their own; assess, build, compare, authorise | plan and report, the gate, the operator's flip | which exit code is reached on which path; `present` after the flip compares the new edge with itself |
| mesh keys (`internal/target/mesh`) | WireGuard configs under `<out>/mesh`; load, generate, write | files written one by one through `internal/safeio`, with no lock; the operator deploys them | a run that stops between two files, two runs at once, a mesh that grows, a lost key. Both ends of a tunnel hold each other's keys |
| Leaseweb provisioner | the zone at Leaseweb; get, delete, create, restore per rrset | HTTP, the root context, a second context for the restore | no upsert: a window in which the rrset is gone, a lost answer, Ctrl-C, a kill |
| OVH provisioner | staged and live zone at OVH; list, delete, create, refresh | HTTP | resolvers never see half a zone; a rerun completes |
| classify and plan (`internal/classify`, `internal/plan`) | pure functions of the snapshot and the decisions | classify tells the operator what plan.Build will emit; the two share only the predicates of `cfexpr` | two traversals of one snapshot, questions nobody answered, answers that outlive their snapshot. Nothing is dropped silently, nothing emitted unasked |
| extraction (`internal/cloudflare`, `cmdExtract`) | the snapshot and its gaps; one read per surface, paging, retries | Cloudflare's API, the root context, a file replaced atomically | a zone that changes while it is read, a read that fails, Ctrl-C. What was there is in the snapshot or behind a gap |
| other DNS provisioners (powerdns, hetzner, scaleway, gandi, route53, azure, clouddns) | the zone at the provider; lookup or creation, then one call for all rrsets, one or two per rrset, or one per record | HTTP, the table in `internal/dnstarget` | partial failure, lost answers and reruns; hetzner only adds, azure refuses what it has no mapping for. "Re-running is safe", as the error message says |
| resolve, prepare (`cmdResolve`, `cmdPrepare`) | `decisions.lock`; the artifacts on disk | files between commands | an answer kept for a question that has changed; a prepare that dies between two artifacts; an exit code that stands for the report |
| object storage (`internal/objstore`, `cmdStorage`, the generated `provision.sh`) | an inventory of buckets and its gaps, the artifacts in `--out`, the destination's buckets; extract, load, classify, generate, run the script | R2 one bucket after the other, S3 by a bounded fan-out; files replaced one by one; bash runs the script whenever the operator does; rclone copies the objects | reads that fail, Ctrl-C, an account that changes, a script that stops halfway or runs while its documents are replaced. A facet that cannot be read is a gap; what is AUTO is in force once the script has finished; nothing is public unasked |
| provision (`cmdProvision`), CertMate client | signing keys, certificates at CertMate | the DNS backend, then DNSSEC, then one request per certificate | an error that is dropped, a step reported done; a certificate asked for twice |
| Caddy and WAF generators, `cfexpr` | none; text from the plan, which Caddy then executes request by request | the plan's rules meet in another order than Cloudflare's: WAF, redirects, rewrite, proxy | a predicate that accepts a shape and an emitted directive that means another. Who was refused is refused, who arrived arrives at the same place, and the gate sees when not |
| zone files, egress, doctor, report, cost, runbook, render, provider, validate | none | pure, or read only | their output's text; left to the repository's golden tests |

## Modules

| Module | Models | Correspondence with the code |
|---|---|---|
| `Guard` | `guard.Watch`, `cmdGuard`, the signal context, the unit | `pc` is where Watch is: about to check (`tick`), in `client.Do` (`checking`), in `OnUnhealthy` (`trigger`), in the `select`, or returned (`done`). `fails` is its counter. `Count` is the rest of `tick` after the answer; `Fired` what follows a trigger that returned nil. `Stop` cancels the context, `Restart` is `Restart=always`. `evidence` is history: how many of the counted failures the site itself caused |
| `Parity` | `ProbesFromPlan`, the hard part of `diff`, `Gate` | operators only. A response is status, normalised Location and one value for all soft signals |
| `Cutover` (extends `Parity`) | `execute`, `present`, `Compare` with its two fetches, the flip | one action per step of a run: `Assess`, `Build`, `SendProbe`, `FetchEnds`/`FetchCancelled` per side, `Record` (`wg.Wait`), `Decide`. The edges are functions from probe to answer, one for each way of asking (`Ways`: https, http, https without verifying the certificate), and change at any time. `asked` is what a run's `--before-scheme`, `--after-scheme` and `--insecure-after` make of its two endpoints. `Live` is why the comparison depends on DNS: execute and present reach the old edge by name |
| `Mesh` | `prepare --mesh-edge`: `LoadKeys`, `normalized`, `GenerateWireGuard`, `safeio.WriteFile` | `disk` is `<out>/mesh`; `queue` the configs a run has still to write; `Stage` and `Publish` are the temp file and the rename; `Interrupt` a failed write or a kill between any two steps; `Damage` a key redacted or mangled on disk; `Deploy` the operator copying a file to its host. A key is a number standing for its pair. `Runners` are processes on one directory; `clash` (history) says that a run overlapped one it may disagree with, or one to which that had happened |
| `Leaseweb` | `provision --dns leaseweb` | one action per HTTP call. `Fault` is a call that fails; a call that changes the zone may have been applied all the same. `ctx` is the root context; `Restore` does not depend on it (`context.WithoutCancel`) |
| `Publication` | abstract: a backend that stages changes | resolvers see whole zones only; success means the zone asked for is seen. Of the rrsets a run could not read (`missed`) they may see records of earlier plans as well |
| `Ovh` | `provision --dns ovh` | one action per HTTP call; `ids` the listed records still to delete, `todo` the planned ones still to post. `List` may also lose its body, which reads as no record; `unread` is history. Implements `Publication` |
| `Verdict` | `classify.Classify`, `plan.Build`, `Plan.Validate` | operators only, each named after its function. An element of a zone is what it is (a WAF rule, a proxied record, ...), where it applies, whether the `cfexpr` predicate of its kind accepts it (`fits`), and the name its question is keyed by. `Asks`, `IsAuto` and `Manual` are classify's verdict, `Sites`, `EdgeRecords`, `OnSite`, `InWAF`, `Emits` what plan builds. `CachedBy` is the one element the zone's cache policy comes from. `Unbacked` and `Assumed` name where the two part |
| `Migration` (extends `Verdict`) | `extract`, `resolve`, `prepare` over one directory | `file` is the snapshot, `decisions` the lock file, `caddyfile` and `zonefile` what is on disk of those two artifacts, `at` the artifact prepare writes next. `Extracts` is an extraction in one step (`Extract` has it call by call), `Amend` an edit of the lock file, `Dies` a write that fails or a kill. `source` is history: the zone the snapshot was taken from |
| `Extract` | `Client.Extract`, `fetch`, `getPaged`, `warn`, `cmdExtract` | one action per request: `Answer`, `Refused` (not retried), `Busy` (429, 5xx) and `Resume` after the backoff. `Reads` and `AccountReads` are the calls of `Client.Extract` in their order, the latter skipped without `CLOUDFLARE_ACCOUNT_ID`; `run.todo` is what is left to read, `run.pages` the pages of the listing at hand. `Stop` cancels the context: a request in flight may still be answered, nothing after it. `steady`, `quiet`, `shifted` are history |
| `Provision` | `provision` on the seven other backends, DNSSEC, certificates | one action per HTTP call that writes or decides, named after it; the backend is chosen in `Init`, and the guards say which of them makes the call. `live` counts how often each record is in the zone. `todo`, `missing`, `left` are what a run has still to replace, to add and to request. `Bare` is what `recKey` makes of a value before it compares. `Fault` is a call that fails, applied or not; `Kill` falls between two calls. `List` may lose its body, and then adds the whole plan; `unread` (history) counts how often |
| `Storage` | `storage`: `ExtractR2`, `ExtractS3`, `loadBuckets`, `ClassifyFor`, `Generate`, `writeArtifacts`, and `provision.sh` | a bucket is a set of settings, each on one facet. `run` is the command: `list`, `read` (who is described, up to which facet), `write` (the files still to write). `Spawn` takes a slot of the semaphore, `Answered` and `Unread` are one read of `describeBucket`, `PolicyLost` one whose body does not come and is not missed. `script` and `docs` are the files in `--out`; `exec` is a script that is running: bash has its text, and reads each document when it gets to it. `steady`, `ever`, `confirmed`, `bodiless`, `plan`, `applied` are history |
| `Edge` | `buildWAF`, `redirectsForHost`, `buildRewrites`, the origin rules, the Caddy and caddy-waf generators, the predicates of `cfexpr`; what the old edge does, and the gate on one site | the operators up to `Proxies` are plan.Build, those from `Fires` to `NewOrigin` what the generated directives do; their counterparts with `Old` are Cloudflare, modelled as the code takes it to behave. `HopOld` and `HopNew` send one request and follow its answer; a rate limit counts in `hits`. An expression is the field it compares and how; a path is a sequence of segments; a client has an agent, a country, and a referer, which stands for what `HEADERS` may find a host in. A rate limit at the old edge has an action (`OldOver`) and may go on refusing after its period (`OldOutlasts`, the second case of `Window`). A zone is a set of rules, each of which is `RuleOK`; where Cloudflare's order of two rules decides, the old edge has several answers or the properties an exception |
| `MCCutover`, `MCMesh`, `MCOvh`, `MCMigration`, `MCExtract`, `MCProvision`, `MCStorage`, `MCEdge` | values of the constants | |
| `ServiceProofs` (Guard and Edge), `CutoverProofs`, `BackendProofs` (Leaseweb and OVH), `MigrationProofs`, `ProvisionProofs`, `StorageProofs`, `MeshProofs`, `ExtractProofs` | theorems | |

In every module a definition whose comment says what a failure of the code would be and which no
action uses (`StopKillsHook`, `RestoreUnderCtx`, ...) is a mutant: the form a definition would have
with a plausible bug. `PROJECT.json` says which property each one breaks.

## Runs

| Run | Question | Bounds, and why they are enough |
|---|---|---|
| `guard` | When does the trigger fire, what does the exit code say, is an outage acted on, does a stopped guard end? | every combination of flags; thresholds 1 to 3, so that the count passes through "none", "some" and "one short"; one kill, after which a second one meets no new state. The site changes without bound |
| `cutover` | What does an authorised cutover mean? | four plans: two probes because of a redirect, two because of the WAF, no site, an invalid one, with and without MANUAL items; four staged edges (alike, another status, down, and one whose certificate nobody trusts, with a soft difference behind it), each of which sends http elsewhere; three pairs of endpoints (asked alike, `--insecure-after`, two schemes); two runs, so that one follows a flip or a failure; one change of an edge, which can fall between any two steps, the two fetches of one probe included |
| `mesh` | Are keys kept, and do tunnels survive reruns? | two processes, named edges, two hosts: the mesh grows and shrinks; three runs, so that one can stop halfway, one complete, one change the list, and two overlap in any order of their steps; one lost key. What it takes a fourth run to reach, one that joins two after a completed one, is covered by `MeshProofs` |
| `leaseweb` | Which record is at risk, when is it put back, do reruns converge? | three rrsets: one before, at, and after the point of failure; three faults, which may all fall in one run or one in each of three; a rerun after success |
| `ovh` | Do resolvers see whole zones only? | two rrsets, two plans, three runs, three faults, each of which may be a listing without a body |
| `migration` | What becomes of every element of the zone? | seven zones that between them hold every kind of element, each kind where its verdict changes (accepted and not, on a proxied host, on one that is not, on the zone): DNS and TLS; the other TLS modes; WAF; redirects and transforms; caching; what is gated behind a login; what is left. Two changes: of the zone, the lock file, or the snapshot, so that an answer can outlive its question; one surface that is not read, because gaps do not interact |
| `extract` | What does a snapshot say about what was in the zone? | six reads: the zone, two listings of two pages with one item each (one fatal, one not), one read whole, rulesets whose rules come with reads of their own, an account surface; one more item that may appear; two attempts standing for the code's four, so that a request can be the first, the last, and retried; two changes of the zone, which can shift a page, remove a ruleset just listed, or undo each other; one extraction, because one shares nothing with the next but the file |
| `provision` | What does success mean, is a rerun safe at every step, and which reruns converge? | seven backends; three rrsets: one that stays, one that changes, one that only the second plan has and Azure refuses; values that `recKey` takes for the same; a zone that exists and one that does not; a plan, another one, signed, and certificates alone; three faults, bodies lost among them, and three runs besides reruns of what failed |
| `storage` | What does the report say about the account, and what does the destination end up with? | two buckets, so that results and gaps can be mixed up; one setting for each verdict of each facet, and one of the two buckets is public; two workers for the eight of the code, hence both orders; one change of the account, one failed read, or one policy without its body, besides those Ctrl-C causes; two runs, the first an extraction or a file and the second a file, and two executions of the script, so that one can stop and one can meet the files of another generation |
| `storage_expiry` | Does the destination delete only what the source did, as the package says? No | one extraction, one script, nothing fails |
| `edge` | Who is refused, where do visitors arrive, and does the gate see it? | every rule of every kind, field, shape and action by itself, and the pairs that meet: two Page Rules, a rewrite with an origin rule or with a firewall rule, an access with an agent rule, two patterns that lead to one another or to themselves, by HTTP too, any two of a rule that blocks, skips, limits, redirects, rewrites or routes and a pattern; rules that block what a visitor is redirected to, once, twice or three times, and what a path is rewritten to; rate limits that log, challenge, or outlast their window; six redirects, so that a visitor can take two at the old edge and, where each has HTTP in between, five at the new one, and loops end; four paths (the root, the one rules are about, one below it, one that contains it), three agents that differ by case and by a suffix, two countries, one client that comes from a page of the site and one that comes from elsewhere; three visits, the least that passes a limit of one in a window and comes after it |
| `edge_capture` | Does `$1` stay out of what visitors are sent, as the generator's test asks? No | one visit; the Page Rules with a capture |

States TLC finds: `edge` 3.2 million, `mesh` 1.6 million, `storage` 1.1 million, `cutover` 693 thousand;
each takes about two minutes or less with two workers.

CHECK_DEADLOCK is off where a behaviour ends with its bounds. In `guard` it is on: the site always
changes.

### Properties worth a second look

* `Guard!FiresOnlyOnOutage`: as long as nobody stops the guard, a trigger rests on exactly
  `--fails` consecutive failures *of the site*. The premise is needed: see the divergences.
* `Guard!SupervisedNeverGivesUp`: a hook that fails ends the process with exit 1, even under
  `--keep-watching` (guard.go:42-49 returns the error before it looks at the flag). It is the unit's
  `Restart=always` that makes the rollback be tried again. Without the unit a single failed rollback
  ends the watch.
* `Cutover!VerdictMatchesEdges`: between edges that held still, 0 and 12 are exactly the truth about
  them. `Cutover!NothingToFindAfterFlip` is what that verdict is worth afterwards: once DNS names the
  new edge, `present` compares it with itself. It then fails only where that edge answers the two
  endpoints differently, and so with `--insecure-after` on a certificate that does not verify.
* `Cutover!AuthorisedOnlyWithoutHardDivergence`: "alike on both, *or an error on both*"; the second
  half is a divergence, below.
* `Mesh!CompletedMeshAuthenticates`: however earlier runs were interrupted, a completed run leaves a
  consistent set of files. `Mesh!RunsKeepKeys` is about every step, interrupted or not, and
  `Mesh!RerunsAreIdentical` about reruns that overlap. All three leave out `clash`: two runs that both
  mint a key, or write different lists, leave files of both.
* `Storage!NothingSilentlyDropped` is the contract of an S3 extraction, with Ctrl-C, failed reads and
  two goroutines. It does not hold of R2, whose extractor has no gaps, nor of a policy whose answer lost
  its body (`Readable`, a divergence). `steady` makes it a statement
  about an account that changes: what was there all the time.
* `Storage!ProvisionedMatchesReport` joins classify, generate, the files and the script: whichever
  scripts stopped halfway before, the one that finishes leaves what the report called AUTO. Its premise
  is that the files are of one complete generation; `OnlyWhatTheSourceHad` needs no such premise.
* `Edge!BlockedStaysBlocked` and `Edge!ArrivesAlike` compare two edges that order their stages
  differently. The premises of the second (`NoKnownDifference`) name every way in which the two edges
  *of this module* differ: the proof shows that there is no other, whatever rules a zone combines, and
  TLC finds a counterexample when one is left out, except for `Contested`, which stands for an order of
  two rules, and for a counter of each rate limit, that the module does not have, and `TooFar` (three
  redirects in a row, of which the run only has those that lead to a block). What the module leaves
  out is below. Each difference that is of the generators' making is a divergence.
* `Edge!BlockedStaysBlocked` has three cases. `BlockedAsAsked`: a block rule about the visitor, or
  about the URL asked for, is a refusal at the new edge under no premise but that its field can be
  looked at (`Untargeted`): the WAF comes first there. `BlockedOnTheWay`: a visitor refused at a URL
  it was redirected to meets the rule on the way, provided that every redirect survives
  (`RedirectNotCarried`, `PathAppended`, `Overlapping`, `TooFar`) and every block rule is one the
  generator takes. `LimitedInScope`: a rate limit whose scope is kept. What is left out is false of
  the code: a block rule about what a path is *rewritten* to (rewrite to /old, block /old, and ask for
  /) never meets the visitor at the new edge, whose WAF sees the path asked for (`RewrittenFirst`); a
  redirect that is lost never leads to its rule.
* `Publication` as implemented by `Ovh`, and `Ovh!RerunsPublish`, except one thing: of an rrset whose
  listing lost its body the old records stay beside the new ones, and are published with success.
* `Edge!GateSeesRedirects` says what the parity gate is worth for routing: if it passes, every path
  arrives alike, although each redirect is probed at one. The patterns must not overlap, since a probe
  of one is then answered by another.
* `Leaseweb!OneFailureIsCovered` says which single failures leave the record in place;
  `Leaseweb!RerunsConverge` what is true of the rest. One message is pessimistic: a restore that was
  applied but whose answer was lost, or that met the record a lost create had left, is reported as
  "now absent" (`said = "absent"`) although a record is there. `RestoredIsWhatWasThere` is the
  direction that matters.
* `Migration!NothingDroppedSilently` is the tool's contract from one end to the other. Its exceptions
  are divergences: what extraction never asks for (`Surface(e) = "unread"`) and the AUTO findings
  without a generator (`Unbacked`). An element may also wait for a site (`WithoutSite`), and then the
  exit code is not 0.
* `Migration!DefaultsChangeNothing`: plan reads an answer that is missing in three places, each with
  its own default; the property says they agree with the default classify records.
* `Migration!LoginKept` and `Extract!NothingSilentlyMissing` are two halves of one promise: an
  unreadable Access surface becomes a gap, and a gap becomes a MANUAL item that stops a script.
* `Extract!NothingSilentlyMissing` excepts one case, found by TLC: when an item leaves a listing
  between two of its pages, the next page starts one item late, and an item that was there all along
  is neither in the snapshot nor behind a gap.
* `Provision!NoWindow` is what the message of a failed run promises ("re-running is safe"), step by
  step and with answers lost: every backend but Leaseweb keeps it. `SuccessIsThePlan` asks less of
  Hetzner, which leaves what an earlier plan put there. `Provision!TypeOK` is where live-proof.md's
  "no duplicate records" ends: one more for each listing of Hetzner's that came without its body. An
  rrset that a new plan no longer has stays on every backend; the property speaks of the plan's
  rrsets.
* `Provision!RerunsConverge` excepts Azure with a record it has no mapping for (`Stuck`): the rrsets
  before it are written, the ones after it never.
* `Extract!ExactWhenQuiet` is the converse for a zone that holds still: nothing is half read, and
  nothing appears that a gap covers.

## Fairness

* Guard: a check ends because the HTTP client has a ten-second timeout; the ticker ticks; Go's
  `select` picks at random among ready cases, hence strong fairness of both cases and not of their
  disjunction; `Restart=always`. That the hook ends is an assumption: the code gives it no deadline,
  and a hook that hangs stops the watch. Nothing is assumed of the site or of signals.
* Cutover: every step of a run is taken; a fetch has a client and a dial timeout. Nothing is assumed
  of the edges, SIGINT or the operator, who need not flip.
* Extract: a request ends because the HTTP client has a thirty-second timeout and a stopped context
  ends it at once; a backoff is a timer. That the retries end is what is checked, not assumed.
* Migration, Mesh and Storage have no liveness: every run is the operator's to start, and a script or
  a prepare that stops is nobody's to resume. Edge has none: a visit ends at a bound, a loop's too.
* Leaseweb, OVH, Provision: a call ends by an answer or the client's timeout. The operator runs `provision`
  again until it has succeeded: an assumption about people, needed for convergence only, and the
  faults are bounded for the same reason. In `Provision` the operator also creates a zone that is
  missing, as the error asks.

`HookFinishes` is about what the process does. systemd's default `KillMode` kills the whole control
group at stop, the hook's own process group included; that is outside `Guard`, where `Kill` turns a
running hook into a lost one.

## Proofs

TLC checks the instances above; these hold for every value of the constants under the assumptions
stated in the modules (`ThresholdsAssumption`, `CutoverAssumption`, ...).

* `ServiceProofs`, the failguard: `TypeOK`, `HookFinishes`, `FiresOnlyOnOutage` and `ExitTellsOutcome`. None is
  inductive. The strengthening relates the count to the place: strictly below the threshold at `tick`,
  `checking` and `select`, equal to it at `trigger`; `evidence = fails` as long as the guard has not
  been stopped; a hook is running only at `trigger`. The action property follows because `Count` moves
  to `trigger` only when the count, and with it the evidence, reaches the threshold.
* `ServiceProofs`, the two edges: `BlockedStaysBlocked`, `ArrivesAlike`, `GateSeesRedirects` and type
  correctness, for every set of rules, all paths, clients, limits and redirects to follow. Five
  invariants. `RefusedInv`: whom the new edge's WAF has a rule for is on the way to it, by HTTPS, or
  refused. `PlainInv`: where no rule redirects, a visit is one request at the old edge and at most two
  at the new one. On these zones the rate limits count side by side: never fewer at the new edge if
  its scope is at least the rule's (`MoreInv`), never more if it is at most the rule's (`FewerInv`),
  and the limits are the same where the rule blocks (`OverAlike`); while the new edge owes an answer
  the old one has given, the request they differ by counts as due. `TrailInv` is about where visitors
  arrive: there is a trail, the URLs the old edge went through, with the old edge at its end; and if
  the edges agree on each of them, the new edge is at one of them, by its scheme or by HTTPS, or where
  the old edge ended. It also says, for a visitor who is refused at the end of a trail whose redirects
  all survive (`Doomed`), that the new edge is still on the trail or has stopped the visitor on it
  (`Stopped`). The number of redirects it has followed is at most twice the place on the trail plus
  one, which is why half of `MaxHops` is enough for the old edge (`TooFar`). That the edges agree on
  every URL of a trail (`Agree`) is shown once from `NoKnownDifference` and once from a gate that
  passes: the pattern that matches a path is the only one (`OnePattern`) and the redirect both edges
  give (`PatternRedirects`), or neither redirects (`NothingRedirects`); a gate that passes shows that
  there is no catch-all (`NoCatchAllPasses`) and no pattern for HTTP alone (`PatternsPassByHTTPS`).
  `EdgeAssumption` says what a rule is made of (`RuleOK`: `fieldMatch` accepts no empty value, a
  target is a URL), that a name occurs in itself and what occurs also occurs when case is ignored, and
  that the gate's probe segment is none of a visitor's. One client follows at least one redirect
  (`MaxHops`).
* `CutoverProofs`: `TypeOK`, `AuthorisedOnlyWithoutHardDivergence`, that MANUAL findings stop
  `execute` (`ManualStopsExecute`), `VerdictMatchesEdges` and `NothingToFindAfterFlip`, for any plans,
  sites and replies. The strengthening for the first is that the recorded probes, the one in flight and
  those still to send are together all the plan's probes, and disjoint; so at `Decide` the results
  cover the plan. For the verdict it is `Truthful`: as long as neither an edge nor the operator
  interferes, what is recorded and what the fetch in flight has come back with is what the edges answer
  now. Each side is asked in its own way (`asked`), fixed for the run.
  The flip would break that for the side that is reached by name, which is why an authorised run
  keeps only the staged half of it, and why after the flip both halves are of one edge.
* `BackendProofs`, the two backends that cannot replace an rrset in one call. Leaseweb: `TypeOK`,
  `OneRecordAtRisk`, `SuccessIsComplete`, `RestoredIsWhatWasThere` and `OneFailureIsCovered`. The
  strengthening says, place by place, what `live[k]`, `prior`, the context and the number of faults
  may be: at `restore`, for instance, either the create was applied, or the record is absent and
  `prior` is what was there unless reading it was itself a fault. OVH: `TypeOK`, the lemma
  `StagedIsThePlan`, and that `Ovh` implements `Publication`: initial states map to initial states; a
  step that starts a run is `Ask`, the refresh is `Publish`, a fault before it `Fail`, a listing
  without a body `Miss`, the others stutter. The strengthening is that the rrsets before `k` are
  staged as planned, those in `unread` perhaps with records somebody once asked for beside them, and
  that the one at `k` is made of its listed or its planned records, as the place says. The module
  extends `Leaseweb` and instantiates `Ovh`, so the assumption on the latter's constants, which
  `MCOvh` meets, is the hypothesis of its theorems.

* `MigrationProofs`: all six properties of `migration`, for every set of zones, old snapshots,
  answers, hosts and bounds. Three lemmas are about classify and plan alone, for every snapshot:
  `AccountedFor` (an element is emitted, reported, waits for a site or is unbacked), `EmittedWasDecided`
  and `DefaultsRead`. The invariant connects them to the pipeline: `Faithful` relates a snapshot to the
  zone it was taken from (an element is there, or its surface is a gap, or the file is of the old
  schema, or it is never asked for); the plan being written was built from such a pair; once its first
  artifact is written the Caddyfile is exactly its sites; the exit code of a prepare that ended is
  `ExitOf` of its snapshot. `NoRecordBeforeItsSite` follows since `EdgeRecords` is contained in `Sites`.

* `ProvisionProofs`: `TypeOK` (a record is there once, and once more at most per listing without a
  body), `SuccessIsThePlan` and `NoWindow`, for every backend at once and any plans, also of different
  rrsets. The invariant: what is left to write is of the plan; from the first write on, an rrset that
  is not left is as planned, and on Hetzner a record of the plan is there or still to be added, and
  never both unless the listing came without its body (`unread`).

* `StorageProofs`: `OnlyWhatTheSourceHad`, `NothingSilentlyDropped` and `ProvisionedMatchesReport`,
  for every number of buckets, settings, workers, runs and failures. Three invariants. `IInv` follows
  a setting from the account to the destination: what a run has read was at the source at some moment
  (`ever`), what is generated was read, and a script, its documents, a script that is running and the
  destination hold nothing else; a command that makes a bucket public exists only for a confirmed one.
  `DroppedInv` follows it from the account to the report: a facet that a worker is past is read or
  behind a gap, for every setting that has been steady so far and is `Readable`; when the last worker
  is done every facet is; so the findings cover `steady`, and the exit code is `ExitCode` of findings
  that say MANUAL at each gap. `MatchInv` follows a promise, the AUTO findings of one report: the
  commands on disk are those that put it in force (`Planned`), the documents say what it says, and as
  long as no file is replaced, a script that runs has put in force whatever it is done with, and
  nothing else on a bucket it created. A file that is replaced ends the promise of the disk and of the
  script that runs (`Replaced`), which is why a script that meets two generations owes the property
  nothing. Two assumptions carry weight: a bucket has one versioning and one public setting, and what
  a lifecycle rule covers here the destination can reproduce; `None`, the mark of a missing bucket, is
  no set of settings.

* `MeshProofs`: `CompletedMeshAuthenticates`, `DeployedTunnelsSurvive`, `RunsKeepKeys` and
  `RerunsAreIdentical`, for any lists that meet `EdgeListsAssumption` (an edge has a name and an
  endpoint of its own), and any number of processes, runs and lost keys. A run settles on its keys
  when it starts, and so on a plan, a sequence of distinct files; the invariant says that what it has
  queued is the end of its plan and what it has written is on disk, that a run which keeps keys has
  the plan of the keys on disk, and that a run which did not clash has company only of the same list
  and the same keys, all of them on disk. Two such runs have the same plan (`KeysAgree`), so that each
  writes what the other would (`Landing`). The proof rests on how `clash` is recorded: a run that
  joins two which clashed already clashes itself, although it agrees with each.
  `DeployedTunnelsSurvive` needs a second invariant, because a deployed file may be of a run long
  gone: in the era of the keys on disk, what is deployed from a run that did not clash is the
  configuration of some list and keys that are `Secured`, that is, still on disk and of which every
  process that writes writes none but them. The theorem has a hypothesis on the edge lists,
  `KeepsPlaces`: a host has the same name and the same place in all of them. The lists of `mesh` meet
  it: their edges have names, and a list grows at its end. Without it the property is false: an
  unnamed edge is renamed (see the divergences), and a tunnel's address goes by the edge's place.

* `ExtractProofs`: `TypeOK`, `NothingSilentlyMissing` and `ExactWhenQuiet`, for any zone, reads, page
  size, number of attempts, runs and changes of the zone. `CoverInv` says of everything that has been
  there since the run began that its listing is still to be read, or it is itself (the rules of a
  ruleset), or it was read, or it is behind a gap, or its listing lost an item between two pages.
  While the pages of a listing come in, `PageInv` adds where: an item is among the pages read, or at an
  offset beyond them. An item that is inserted moves others further back only; one that is removed
  moves them forward, and then the listing is `shifted`. For `ExactWhenQuiet` the three sets, read, to
  read and behind a gap, must also be disjoint while the zone holds still (`Apart`): no read is made
  twice, a ruleset is asked for only once its list has been read, and a read that fails leaves its
  listing. `ExtractAssumption` asks no more than that the names of reads differ from each other and
  from the items, that an item is on one listing, once, and that the zone, DNS and rulesets need no
  account.

Where the code takes the first of several (a cache rule, an origin rule, the next probe), the model
says `CHOOSE`, always behind an operator of its own (`FirstOf`, `PendingFor`). The proofs use only that
it is an element of its set; no step that is left to the SMT solver expands it.

Only model-checked:

* All liveness: `OutageActedOn`, `SupervisedNeverGivesUp`, `StopEnds`, `RunEnds`, `RerunsConverge` (of
  `Leaseweb` and of `Provision`), `RerunsPublish`, `ExtractEnds`. Liveness under fairness is out of the
  prover's reach.
* The two properties that TLC refutes (`storage_expiry`, `edge_capture`).

Every invariant and action property of the other runs is a theorem.

## Findings

Each is a run whose one property states what a comment or a document says, and which TLC refutes.

1. `storage_expiry`: of a lifecycle rule the extractors keep the prefix and the days. A rule that is
   disabled (s3.go reads no Status; r2.go:96 decodes `enabled` and drops it), or that filters by tag,
   size or `And` (s3.go:157-170), is called AUTO and generated with `Status: Enabled` and a prefix only
   (objstore.go:491-495). The destination deletes what the source keeps. objstore.go:7-8: "it maps
   bucket *configuration* faithfully (versioning, CORS, lifecycle)".
2. `edge_capture`: `renderRedirect` asks for a catch-all before it asks for captures (caddy.go:344), so
   a Page Rule `host/*` to `https://other/$1` is rendered with the `$1` left in and the URI appended.
   caddy_test.go:47-48: the capture "must never survive into a Caddyfile (it would silently break the
   redirect)".

Divergences that the models show or that the reading met, with no run of their own:

* stopping the guard can fire the rollback: `tick` counts any error of the check, the cancellation of
  its own context included, and when that reaches `--fails` the hook runs after the operator asked the
  guard to stop (guard.go:53-55 says the context ends the watch; `FiresOnlyOnOutage` needs its premise);
* the gate passes on probes that errored on both sides, among them all that are left when SIGINT cancels
  the context: exit 0, "cutover authorised" (parity.go:9-11 says every probe matches; hence the second
  half of `AuthorisedOnlyWithoutHardDivergence`);
* an only edge is called `edge`, the first of two `edge-1`: a mesh of unnamed edges that grows from one
  to two mints another key for the first, and its deployed tunnel breaks (cli-reference.md:77-80; the
  lists of `mesh` name their edges);
* two first prepares on one directory, or two that rotate or have other edges, each mint keys and leave
  configs of both (`clash`);
* a body that does not come is no error: `io.ReadAll`'s is discarded. OVH's listing then reads as no
  record, the old ones stay beside the plan's, and the run says success (ovhdns/provision.go:135-142,
  `unread`); Hetzner's reads as an empty zone, and every record is posted again
  (hetznerdns/provision.go:62-69, 120; live-proof.md: "no duplicate records"); a bucket's policy reads
  as none, without a gap (s3.go:190-195, 230; `PolicyLost`). Elsewhere the same is an error or comes
  to what a failed call comes to: versioning, CORS, lifecycle and the list of buckets do not parse,
  the zone lookups of Hetzner, Route 53 and Cloud DNS find no zone and end the run, Leaseweb's read
  and PowerDNS's list of keys are as after a failed call;
* `--insecure-after` spares one of the two endpoints the verification of its certificate: after the flip
  `present` finds a hard divergence on an edge that has not changed (main.go:709, 825; parity.go:161-163);
* managed rule sets other than OWASP, page rules for Always Use HTTPS and for SSL, and load balancers
  are called AUTO, and no builder of `plan` reads them (docs/architecture.md:41-42: a rule is only
  AUTO when the generator actually produces config for it); likewise redirects of a host that is not
  proxied, every page rule with a TTL and every cache rule but the first (build.go:604-624), all but
  the first origin rule of a host, and a static redirect rule whose expression is not a host
  (`Unbacked`, `NotCarried`);
* storage: the R2 extractor takes a facet it could not read for one that is not there, so that Ctrl-C
  right after the list of buckets gives exit 0 and a report without them (objstore.go:31-34 says that a
  gap is recorded); public access is read by neither extractor, and asked only of a bucket from a file;
  CORS ExposeHeaders are dropped; the list of buckets is read as one page; a snapshot that was extracted
  is neither validated nor kept;
* storage: a rule or a confirmation that is gone when the script is generated again stays in force at
  the destination, and its document beside the script; `provision.sh` is replaced before its documents;
* edge: a catch-all appends the request's path to its target, whatever that is (`PathAppended`); the
  scheme of a Page Rule's pattern is dropped, and a rule from http to https redirects for ever
  (`SchemeDropped`, `AskedByHTTP`); what matches everything comes last, a catch-all of higher priority
  and any redirect rule (`OrderLost`); patterns, and rewrites, are sorted by what they match, so that
  the zone's order of two for one request is lost (build.go:593, 516; `Overlapping`, `Contested`); a
  redirect, rewrite or origin rule with a computed target or an expression of another shape is left
  out (`NotCarried`);
* edge: `eq` and `contains` both become an unanchored regular expression that ignores case
  (`Loosely`); a country rule that only logs refuses (`LoggedCountry`); a field other than path, URI,
  User-Agent and Referer is looked for in `HEADERS` (`Untargeted`, build.go:884): a rule on the host
  misses the visitors it is about and refuses those whose Referer or Origin names it (`Misled`); the
  WAF sees the path before it is rewritten, so that a rule about what it is rewritten to is lost
  (`RewrittenFirst`); it sees, and the rate limit counts, what Cloudflare redirects without asking it
  (`RedirectedFirst`), and a request that is refused is not counted at Cloudflare (`RefusedFirst`);
  nothing is made of a skip rule, nor of an allow for a country (`Exempted`); a challenge answered yes
  refuses visitors who would have passed it (`AskedFor`);
* edge: Caddy redirects what comes by HTTP to HTTPS before anything else, so that a chain may take twice
  the redirects (`TooFar`);
* edge: a rate limit on a compound expression limits the whole site, and one on another field looks for
  its value in the path (`ScopeLost`); a rate limit that logs or challenges becomes one that refuses
  (build.go:670-681, classify.go:386-396; `LimitHardened`), and `mitigation_timeout` is extracted
  (extract.go:711) and not used, so that a refusal ends with its window (`lasts`);
* the gate probes a redirect rule at `/` only;

* a failing hook ends a guard that was told to keep watching (above);
* `guard --once` with the default `--fails` of 3 reports a site that is down as healthy: one check
  cannot reach the threshold, and Watch returns (false, nil), exit 0; cli-reference.md:149 calls it the
  CI health gate;
* a Leaseweb DELETE that is applied and whose answer is lost ends the run with the record gone and no
  restore; provision.go:104-105 says every failure the process survives is covered (the model:
  `OneFailureIsCovered` has to leave `failedOn = "delete"` out);
* `extract` to standard output returns 0 whatever it could not read; only `--out` reaches `extractExit`
  (main.go:505-517; cli-reference.md:29);
* each `provision` of a signed zone on PowerDNS adds another active key, and with it another DS record
  to publish (powerdns/provision.go:124), on a backend whose comment says that re-running converges;
  and `cmdProvision` drops the error of enabling DNSSEC (main.go:1028);
* PowerDNS and Scaleway create a zone that is missing; dns-targets.md:94 and troubleshooting.md:47 say
  that provision never does;
* on Hetzner a value that an answer has since changed stays beside the new one, and two TXT values that
  differ in a final dot or in quotes are one record to `recKey`;
* an existence check that fails for any reason makes PowerDNS's run try to create the zone; the
  conflict ends it, and nothing is lost;
* `prepare` exits 11 as long as the snapshot has questions, even when each is answered;
* the answers to the rate-limit key, redirect template and R2 questions change nothing in the plan,
  although each is asked as if it did;
* two rules with one description share one question, and one answer;
* `extractAccess` keeps applications whose domain ends in the zone's name, which drops those on a path,
  although `accessGatedHosts` is written for paths too;
* load balancers, custom ciphers and rulesets of other phases are never read, without a gap; a policy
  count or a single setting that cannot be read leaves no gap either;
* troubleshooting.md:86-87 lists header and body differences as hard; `diff` records them soft.

## Not modelled

* Text: rule sets, zone files, reports, run books, cost tables. Their correctness is their wording, and
  the repository's golden tests cover it. Of a Caddyfile, what its directives do is in `Edge`.
* In `Edge`: the order of two rewrites, origin rules or rate limits for one request (`Contested`: a zone
  is a set), IP allow and deny lists, ASNs (which go the way of countries), header operations, caching,
  query strings, the case of paths, OWASP, external blocklists, rules on the referer or the method. The claims
  about how the edges differ are about what is in the module.
* In `Provision`, a second POST of a record Hetzner has is accepted; an API that refused it would end
  the run instead.
* In `Storage`: the copy of the objects, the signing of requests, the destinations' endpoints.
* The regular expressions of `cfexpr`: a pure function over strings.
* Doctor, provider catalogue, validation: read-only checks with no state.
* Terraform, the website and the container files, except the guard's systemd unit.
* The parts listed as `not_modelled` in `PROJECT.json` that the plan below takes up.

## Plan

What is left:

* The steps between `prepare` and `execute`: decisions that no finding asks for
  (`reportUnknownDecisions`), `assess` on a snapshot of another schema.
