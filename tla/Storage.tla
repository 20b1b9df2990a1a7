-------------------------------- MODULE Storage --------------------------------
(***************************************************************************)
(* flareover storage: the buckets of an R2 or S3 account are read facet by *)
(* facet while the account changes, or loaded from a file; classified; and *)
(* generated into provision.sh and its JSON documents, which are written   *)
(* one by one.  The operator runs the script, command by command, perhaps  *)
(* while the files are replaced, and runs it again when it stops halfway.  *)
(*                                                                         *)
(* A bucket's configuration is a set of settings, each on one facet.       *)
(***************************************************************************)
EXTENDS Naturals, Sequences, FiniteSets

CONSTANTS
  Buckets, Rank,      \* the buckets, and the order they are listed in
  Settings, Facet,    \* what a bucket can have, and the facet it is read from
  Tiering, Expiring,  \* lifecycle rules with a transition, with a positive expiry
  Covers,             \* Covers[s]: the objects lifecycle rule s deletes
  Reproduced,         \* Reproduced[s]: those it deletes as it is read and written back
  Initial,            \* the settings of each bucket at first
  Width,              \* s3Concurrency
  Answers,            \* the buckets a decisions file says yes for
  None,
  MaxRuns, MaxExtractions, \* bounds: the first runs may extract, the others load a file
  MaxScripts, MaxChanges,
  MaxFailures,        \* bound: unread facets of a run that was not stopped
  Changing            \* bound: the settings that come and go

Facets == {"versioning", "cors", "lifecycle", "policy", "public"}

ASSUME StorageAssumption ==
  /\ Answers \subseteq SUBSET Buckets /\ Changing \subseteq Settings
  /\ Rank \in [Buckets -> Nat] /\ \A b, c \in Buckets : Rank[b] = Rank[c] => b = c
  /\ Facet \in [Settings -> Facets] /\ Initial \in [Buckets -> SUBSET Settings]
  /\ Tiering \cup Expiring \subseteq {s \in Settings : Facet[s] = "lifecycle"}
  /\ \A s \in Settings : Facet[s] = "lifecycle" => Covers[s] \subseteq Reproduced[s]
  /\ \A s, t \in Settings :
       Facet[s] = Facet[t] /\ Facet[s] \in {"versioning", "public"} => s = t
  /\ \A has \in SUBSET Settings : has # None
  /\ Width \in Nat \ {0}
  /\ {MaxRuns, MaxExtractions, MaxScripts, MaxChanges, MaxFailures} \subseteq Nat

VARIABLES
  source,    \* the account: the settings of each bucket, None without it
  garage,    \* the destination is Garage
  run,       \* the storage command at work, or None
  report,    \* what it printed last, and how the snapshot was come by
  exit,      \* its exit code
  script,    \* provision.sh in --out: its commands, which come in the order of Before
  docs,      \* the documents beside it
  exec,      \* the provision.sh that is running, or None
  dest,      \* the settings of each bucket of the destination, None without it
  granted,   \* the buckets GARAGE_KEY is granted
  steady,    \* history: what each bucket had all through the run
  ever,      \* history: what it ever had
  confirmed, \* history: buckets confirmed public in some run
  bodiless,  \* history: buckets whose policy came without its body in this run
  plan,      \* history: the promise whose artifacts are all on disk, or None
  applied,   \* history: of the script that finished last, its promise and the buckets it created
  runs, scripts, changes

history == <<steady, ever, confirmed, bodiless>>
work == <<run, report, exit>>
files == <<script, docs, plan>>
bucketsOfDest == <<exec, dest, granted, applied, scripts>>
vars == <<source, garage, work, files, bucketsOfDest, history, runs, changes>>

OfFacet(S, f) == {s \in S : Facet[s] = f}
Replace(S, f, new) == {s \in S : Facet[s] # f} \cup OfFacet(new, f)
NoSettings == [b \in Buckets |-> {}]

Init ==
  /\ source = Initial /\ garage \in BOOLEAN
  /\ run = None /\ report = None /\ exit = "none"
  /\ script = {} /\ docs = NoSettings /\ plan = None
  /\ exec = None /\ dest = [b \in Buckets |-> None] /\ granted = {} /\ applied = None
  /\ steady = NoSettings /\ ever = Initial /\ confirmed = {} /\ bodiless = {}
  /\ runs = 0 /\ scripts = 0 /\ changes = 0

-----------------------------------------------------------------------------
(* Verdicts and artifacts of a snapshot: its buckets, their settings, gaps,  *)
(* and whether its schema predates gaps.                                     *)

Finding(b, f, s, verdict) == [bucket |-> b, facet |-> f, setting |-> s, verdict |-> verdict]

\* Public access is never read by an extractor.
Verdict(s) ==
  CASE Facet[s] = "versioning" -> IF garage THEN "MANUAL" ELSE "AUTO"
    [] Facet[s] = "cors" -> "AUTO"
    [] Facet[s] = "lifecycle" -> IF s \in Expiring \ Tiering THEN "AUTO" ELSE "MANUAL"
    [] Facet[s] = "public" -> "ASK"
    [] Facet[s] = "policy" -> "MANUAL"

ClassifyFor(snap) ==
  (IF snap.old /\ snap.names # {} THEN {Finding(None, "all", None, "MANUAL")} ELSE {})
  \cup {Finding(g[1], g[2], None, "MANUAL") : g \in snap.gaps}
  \cup {Finding(b, "bucket", None, "AUTO") : b \in snap.names}
  \cup UNION {{Finding(b, Facet[s], s, Verdict(s)) : s \in snap.has[b]} : b \in snap.names}

ExitCode(findings) ==
  IF \E f \in findings : f.verdict = "MANUAL" THEN "manual"
  ELSE IF \E f \in findings : f.verdict = "ASK" THEN "ask" ELSE "ok"

ExpiryRulesKeepTiering(S) == S \cap Expiring

\* The lifecycle rules generated again: a positive expiry, no tiering.  Whether a rule
\* is enabled, and a filter that is more than a prefix, were not read.
ExpiryRules(S) == (S \cap Expiring) \ Tiering

\* What the documents of a bucket say.
Document(S, f) == IF f = "lifecycle" THEN ExpiryRules(S) ELSE OfFacet(S, f)

NeedsUnasked(op, S, yes) ==
  CASE op = "create" -> TRUE
    [] op = "allow" -> garage
    [] op = "versioning" -> ~ garage /\ OfFacet(S, op) # {}
    [] OTHER -> Document(S, op) # {}

\* Whether a bucket of these settings gets this command.
Needs(op, S, yes) ==
  CASE op = "create" -> TRUE
    [] op = "allow" -> garage
    [] op = "versioning" -> ~ garage /\ OfFacet(S, op) # {}
    [] op = "public" -> OfFacet(S, op) # {} /\ yes
    [] OTHER -> Document(S, op) # {}

Ops == {"create", "allow", "versioning", "lifecycle", "cors", "public"}
OpRank ==
  [op \in Ops |-> CASE op = "create" -> 1 [] op = "allow" -> 2 [] op = "versioning" -> 3
                    [] op = "lifecycle" -> 4 [] op = "cors" -> 5 [] op = "public" -> 6]

\* The script goes bucket by bucket.
Before(c, d) ==
  \/ Rank[c.bucket] < Rank[d.bucket]
  \/ c.bucket = d.bucket /\ OpRank[c.op] < OpRank[d.op]
IsNext(c, S) == c \in S /\ \A d \in S : ~ Before(d, c)

Commands(snap, yes) ==
  {c \in [op : Ops, bucket : snap.names] : Needs(c.op, snap.has[c.bucket], c.bucket \in yes)}

HasDocument(c) == c.op \in {"lifecycle", "cors"} \cup IF garage THEN {} ELSE {"public"}

Documents(snap, yes) ==
  {[op |-> c.op, bucket |-> c.bucket, content |-> Document(snap.has[c.bucket], c.op)] :
     c \in {d \in Commands(snap, yes) : HasDocument(d)}}

-----------------------------------------------------------------------------
(* storage: extraction *)

Begin(via) ==
  /\ run = None /\ runs < MaxExtractions /\ runs' = runs + 1
  /\ run' = [phase |-> "list", via |-> via, stopped |-> FALSE]
  /\ report' = None /\ exit' = "running"
  /\ steady' = [b \in Buckets |-> IF source[b] = None THEN {} ELSE source[b]]
  /\ bodiless' = {}
  /\ UNCHANGED <<source, garage, files, bucketsOfDest, ever, confirmed, changes>>

Elsewhere == UNCHANGED <<source, garage, files, bucketsOfDest, history, runs, changes>>

ReadsOf(via) ==
  IF via = "s3" THEN <<"versioning", "cors", "lifecycle", "policy">> ELSE <<"cors", "lifecycle">>
WidthOf(via) == IF via = "s3" THEN Width ELSE 1

Listed == {b \in Buckets : source[b] # None}

Listing ==
  /\ run # None /\ run.phase = "list" /\ ~ run.stopped
  /\ run' = [phase |-> "read", via |-> run.via, stopped |-> FALSE, failed |-> 0,
             names |-> Listed, spawned |-> {}, at |-> [b \in Buckets |-> 1],
             got |-> NoSettings, gaps |-> NoSettings]
  /\ UNCHANGED <<report, exit>> /\ Elsewhere

\* A list of buckets that cannot be read ends the command.
ListingFails ==
  /\ run # None /\ run.phase = "list"
  /\ run' = None /\ exit' = "failed"
  /\ UNCHANGED report /\ Elsewhere

Extracting == run # None /\ run.phase = "read"
AtWork == {b \in run.spawned : run.at[b] <= Len(ReadsOf(run.via))}
facet(b) == ReadsOf(run.via)[run.at[b]]

\* A slot of the semaphore is taken before the goroutine is started, in listing order.
Spawn(b) ==
  /\ Extracting /\ b \in run.names \ run.spawned
  /\ \A c \in run.names \ run.spawned : Rank[b] <= Rank[c]
  /\ Cardinality(AtWork) < WidthOf(run.via)
  /\ run' = [run EXCEPT !.spawned = @ \cup {b}]
  /\ UNCHANGED <<report, exit>> /\ Elsewhere

\* describeBucket's next read: a facet without configuration answers 404, and so does
\* every facet of a bucket that is gone.
Answered(b) ==
  /\ Extracting /\ b \in AtWork /\ ~ run.stopped
  /\ run' = [run EXCEPT !.at[b] = @ + 1,
               !.got[b] = @ \cup IF source[b] = None THEN {} ELSE OfFacet(source[b], facet(b))]
  /\ UNCHANGED <<report, exit>> /\ Elsewhere

Fails(b, gaps) ==
  /\ Extracting /\ b \in AtWork /\ (run.stopped \/ run.failed < MaxFailures)
  /\ run' = [run EXCEPT !.at[b] = @ + 1, !.failed = IF run.stopped THEN @ ELSE @ + 1,
                        !.gaps[b] = @ \cup gaps]
  /\ UNCHANGED <<report, exit>> /\ Elsewhere

UnreadAbsent(b) == Fails(b, {})

\* Any other failure: a gap of the S3 extractor, nothing to the R2 one.
Unread(b) == Fails(b, IF run.via = "s3" THEN {facet(b)} ELSE {})

\* get drops the error of reading a body.  An empty one is no XML and no JSON, and so
\* Unread; but an empty policy is no policy.  A Ctrl-C between the head and the body
\* of the answer comes to this and then Stop.
PolicyLost(b) ==
  /\ Extracting /\ b \in AtWork /\ ~ run.stopped /\ run.failed < MaxFailures
  /\ run.via = "s3" /\ facet(b) = "policy"
  /\ run' = [run EXCEPT !.at[b] = @ + 1, !.failed = @ + 1]
  /\ bodiless' = bodiless \cup {b}
  /\ UNCHANGED <<report, exit, source, garage, files, bucketsOfDest, steady, ever, confirmed,
                 runs, changes>>

-----------------------------------------------------------------------------
(* storage: report and artifacts *)

\* History: the buckets, settings and public buckets the artifacts are to put in force.
Promise(snap, findings, yes) ==
  [buckets |-> snap.names,
   auto    |-> [b \in Buckets |-> {s \in Settings : Finding(b, Facet[s], s, "AUTO") \in findings}],
   public  |-> {b \in snap.names \cap yes : OfFacet(snap.has[b], "public") # {}}]

\* The report is printed.  With --out the decisions are read and the generation starts,
\* unless they cannot be read or the region is refused.
Present(snap, via) ==
  LET findings == ClassifyFor(snap) IN
  /\ report' = [via |-> via, findings |-> findings]
  /\ \/ run' = None /\ exit' \in {ExitCode(findings), "failed"} /\ UNCHANGED confirmed
     \/ \E yes \in Answers :
          /\ run' = [phase |-> "write", script |-> Commands(snap, yes), written |-> FALSE,
                     docs |-> Documents(snap, yes), code |-> ExitCode(findings),
                     plan |-> Promise(snap, findings, yes)]
          /\ exit' = "running"
          /\ confirmed' = confirmed \cup Promise(snap, findings, yes).public

Deliver ==
  /\ Extracting /\ run.spawned = run.names /\ AtWork = {}
  /\ Present([names |-> run.names, has |-> run.got, old |-> FALSE,
              gaps |-> {g \in run.names \X Facets : g[2] \in run.gaps[g[1]]}], run.via)
  /\ UNCHANGED <<source, garage, files, bucketsOfDest, steady, ever, bodiless, runs,
                 changes>>

\* A file, which the operator made describe the source.  A schema from before gaps is
\* reported, and one this build does not know, like an invalid name, is refused.
Load ==
  /\ run = None /\ runs < MaxRuns /\ runs' = runs + 1
  /\ steady' = NoSettings /\ bodiless' = {}
  /\ \/ \E old \in BOOLEAN :
          Present([names |-> Listed, old |-> old, gaps |-> {},
                   has |-> [b \in Buckets |-> IF source[b] = None THEN {} ELSE source[b]]], "file")
     \/ report' = None /\ run' = None /\ exit' = "failed" /\ UNCHANGED confirmed
  /\ UNCHANGED <<source, garage, files, bucketsOfDest, ever, changes>>

Writing == run # None /\ run.phase = "write"

\* A file is renamed into place, under a script that may be running.
Replaced ==
  /\ plan' = None
  /\ exec' = IF exec = None THEN None ELSE [exec EXCEPT !.plan = None]
  /\ UNCHANGED <<source, garage, report, exit, dest, granted, applied, scripts, history,
                 runs, changes>>

\* provision.sh is the first artifact, and rclone/migrate.sh the last one.
WriteScript ==
  /\ Writing /\ ~ run.written
  /\ script' = run.script /\ run' = [run EXCEPT !.written = TRUE]
  /\ UNCHANGED docs /\ Replaced

WriteDocument(d) ==
  /\ Writing /\ run.written /\ IsNext(d, run.docs)
  /\ docs' = [docs EXCEPT ![d.bucket] = Replace(@, d.op, d.content)]
  /\ run' = [run EXCEPT !.docs = @ \ {d}]
  /\ UNCHANGED script /\ Replaced

Complete ==
  /\ Writing /\ run.written /\ run.docs = {}
  /\ run' = None /\ exit' = run.code /\ plan' = run.plan
  /\ UNCHANGED <<source, garage, report, script, docs, bucketsOfDest, history, runs, changes>>

\* A write fails, or the command is killed.
Abort ==
  /\ run # None
  /\ run' = None /\ exit' = "failed"
  /\ UNCHANGED report /\ Elsewhere

\* Ctrl-C cancels the requests and nothing else.
Stop ==
  /\ run # None /\ ~ Writing /\ ~ run.stopped
  /\ run' = [run EXCEPT !.stopped = TRUE]
  /\ UNCHANGED <<report, exit>> /\ Elsewhere

-----------------------------------------------------------------------------
(* provision.sh: bash reads the script as it was when it started, and each  *)
(* document when it gets there                                              *)

\* An extraction and a script touch nothing in common: one order of theirs is explored.
Apart == run = None \/ Writing

\* The report and what it was about are behind.
StartScript ==
  /\ Apart /\ exec = None /\ script # {} /\ scripts < MaxScripts /\ scripts' = scripts + 1
  /\ exec' = [todo |-> script, plan |-> plan, created |-> {}]
  /\ applied' = None /\ report' = None /\ steady' = NoSettings /\ bodiless' = {}
  /\ exit' = IF run = None THEN "none" ELSE exit
  /\ UNCHANGED <<source, garage, run, files, dest, granted, ever, confirmed, runs, changes>>

\* What a command leaves of a bucket that has S.  A put replaces the whole facet.
Put(op, S, documented) ==
  CASE op \in {"lifecycle", "cors"} -> Replace(S, op, documented)
    [] op \in {"versioning", "public"} -> S \cup OfFacet(Settings, op)
    [] OTHER -> S

\* head-bucket or bucket info first: a bucket that is there is left alone.
Execute(c) ==
  /\ Apart /\ exec # None /\ IsNext(c, exec.todo)
  /\ HasDocument(c) => OfFacet(docs[c.bucket], c.op) # {}
  /\ dest' = [dest EXCEPT ![c.bucket] = Put(c.op, IF @ = None THEN {} ELSE @, docs[c.bucket])]
  /\ granted' = IF c.op = "allow" THEN granted \cup {c.bucket} ELSE granted
  /\ exec' = [exec EXCEPT !.todo = @ \ {c},
                !.created = IF dest[c.bucket] = None THEN @ \cup {c.bucket} ELSE @]
  /\ UNCHANGED <<source, garage, work, files, applied, scripts, history, runs, changes>>

\* set -e: the script stops at a command that fails, and a kill stops it anywhere.
ScriptStops ==
  /\ Apart /\ exec # None
  /\ exec' = None
  /\ UNCHANGED <<source, garage, work, files, dest, granted, applied, scripts, history, runs,
                 changes>>

ScriptEnds ==
  /\ Apart /\ exec # None /\ exec.todo = {}
  /\ exec' = None
  /\ applied' = IF exec.plan = None THEN None ELSE [plan |-> exec.plan, created |-> exec.created]
  /\ UNCHANGED <<source, garage, work, files, dest, granted, scripts, history, runs, changes>>

-----------------------------------------------------------------------------

\* The account changes between two runs or while one reads it.
SourceChanges(b) ==
  /\ ~ Writing /\ exec = None /\ changes < MaxChanges /\ changes' = changes + 1
  /\ \/ source' = [source EXCEPT ![b] = None]
     \/ source[b] = None /\ source' = [source EXCEPT ![b] = {}]
     \/ source[b] # None /\ \E s \in Changing :
          source' = [source EXCEPT ![b] = IF s \in @ THEN @ \ {s} ELSE @ \cup {s}]
  /\ LET now == IF source'[b] = None THEN {} ELSE source'[b] IN
     /\ steady' = [steady EXCEPT ![b] = @ \cap now]
     /\ ever' = [ever EXCEPT ![b] = @ \cup now]
  /\ UNCHANGED <<garage, work, files, bucketsOfDest, confirmed, bodiless, runs>>

Next ==
  \/ Load \/ \E via \in {"s3", "r2"} : Begin(via)
  \/ Listing \/ ListingFails \/ Deliver \/ Abort \/ Stop
  \/ \E b \in Buckets : Spawn(b) \/ Answered(b) \/ Unread(b) \/ PolicyLost(b)
  \/ WriteScript \/ Complete \/ \E d \in IF Writing THEN run.docs ELSE {} : WriteDocument(d)
  \/ StartScript \/ ScriptStops \/ ScriptEnds
  \/ \E c \in IF exec = None THEN {} ELSE exec.todo : Execute(c)
  \/ \E b \in Buckets : SourceChanges(b)

Spec == Init /\ [][Next]_vars

-----------------------------------------------------------------------------
(* Properties.                                                             *)

\* What an S3 extraction cannot take for absent.
Readable(b) ==
  {s \in Settings : Facet[s] # "public" /\ (Facet[s] = "policy" => b \notin bodiless)}

\* What a bucket had all through an S3 extraction is in the report, by itself or as a
\* facet that could not be read, and the exit code is 0 only if every such setting is
\* AUTO ("a facet that could not be read is not a facet that is absent", objstore.go);
\* however the reads of several buckets, a Ctrl-C and the account's changes fell.
\* Excepted: public access, which no extractor reads, and the one facet that is not
\* parsed, a policy whose answer lost its body.
NothingSilentlyDropped ==
  (report # None /\ report.via = "s3") =>
    \A b \in Buckets : \A s \in steady[b] \cap Readable(b) :
      /\ \E f \in report.findings :
           f.bucket = b /\ f.facet = Facet[s] /\ (f.setting = s \/ f.setting = None)
      /\ exit = "ok" => Finding(b, Facet[s], s, "AUTO") \in report.findings

\* The destination's buckets have only settings the same bucket had at the source, and
\* serve the public only if some run was answered yes: whichever scripts stopped halfway,
\* and whichever generation the documents beside a running script are from.
OnlyWhatTheSourceHad ==
  \A b \in Buckets : dest[b] # None =>
    /\ dest[b] \subseteq ever[b]
    /\ OfFacet(dest[b], "public") # {} => b \in confirmed

\* The script of a complete generation, once it has finished, has put every AUTO
\* setting of the report in force (ClassifyFor: "a setting is AUTO only if Generate
\* emits it"), whatever earlier scripts and generations did or left undone; and a
\* bucket it created has nothing more than that and confirmed public access.
ProvisionedMatchesReport ==
  applied # None =>
    /\ \A b \in applied.plan.buckets :
         dest[b] # None /\ applied.plan.auto[b] \subseteq dest[b] /\ (garage => b \in granted)
    /\ \A b \in applied.plan.public : OfFacet(dest[b], "public") # {}
    /\ \A b \in applied.created :
         dest[b] \subseteq applied.plan.auto[b]
           \cup IF b \in applied.plan.public THEN OfFacet(Settings, "public") ELSE {}

\* The destination deletes no object the source did not ("it maps bucket configuration
\* faithfully (versioning, CORS, lifecycle)", objstore.go).
ExpiresNothingMore ==
  \A b \in Buckets : dest[b] # None =>
    UNION {Reproduced[s] : s \in OfFacet(dest[b], "lifecycle")}
      \subseteq UNION {Covers[s] : s \in OfFacet(ever[b], "lifecycle")}
=============================================================================
