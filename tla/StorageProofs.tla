----------------------------- MODULE StorageProofs -----------------------------
(***************************************************************************)
(* For any account, width, faults and number of runs:                      *)
(*                                                                         *)
(* OnlyWhatTheSourceHad.  A setting travels from the account through a     *)
(* snapshot, a command or a document, and a running script to the          *)
(* destination; each of these may be of another generation than the next.  *)
(* The invariant says of every one of them that what it carries was at the *)
(* source, and that a command which opens a bucket was confirmed; both     *)
(* only ever become truer.                                                 *)
(*                                                                         *)
(* NothingSilentlyDropped.  The reads of a bucket cover, facet by facet,   *)
(* what it had all along, with a setting or with a gap.                    *)
(*                                                                         *)
(* ProvisionedMatchesReport.  The script and the documents of a complete   *)
(* generation are of one promise, and a script that runs beside them has   *)
(* put in force what it is done with.                                      *)
(***************************************************************************)
EXTENDS Storage, TLAPS

Cmd == [op : Ops, bucket : Buckets]
Doc == [op : Ops, bucket : Buckets, content : SUBSET Settings]
Promises == [buckets : SUBSET Buckets, auto : [Buckets -> SUBSET Settings],
             public : SUBSET Buckets] \cup {None}
Having == [Buckets -> SUBSET Settings]

ListRun == [phase : {"list"}, via : {"s3", "r2"}, stopped : BOOLEAN]
ReadRun == [phase : {"read"}, via : {"s3", "r2"}, stopped : BOOLEAN, failed : Nat,
            names : SUBSET Buckets, spawned : SUBSET Buckets, at : [Buckets -> Nat \ {0}],
            got : Having, gaps : [Buckets -> SUBSET Facets]]
WriteRun == [phase : {"write"}, script : SUBSET Cmd, written : BOOLEAN, docs : SUBSET Doc,
             code : {"manual", "ask", "ok"}, plan : Promises]
Exec == [todo : SUBSET Cmd, plan : Promises, created : SUBSET Buckets]

\* What a command puts in force without a document was at the source.
Founded(c) ==
  /\ c \in Cmd
  /\ c.op \in {"versioning", "public"} => OfFacet(ever[c.bucket], c.op) # {}
  /\ c.op = "public" => c.bucket \in confirmed

SourceInv ==
  /\ source \in [Buckets -> (SUBSET Settings) \cup {None}]
  /\ ever \in Having /\ confirmed \subseteq Buckets
  /\ \A b \in Buckets : source[b] # None => source[b] \subseteq ever[b]

Reading == run \in ReadRun /\ \A b \in Buckets : run.got[b] \subseteq ever[b]
Generating ==
  /\ run \in WriteRun
  /\ \A c \in run.script : Founded(c)
  /\ \A d \in run.docs : d.content \subseteq ever[d.bucket]
RunInv == run = None \/ run \in ListRun \/ Reading \/ Generating

FilesInv ==
  /\ docs \in Having /\ \A b \in Buckets : docs[b] \subseteq ever[b]
  /\ \A c \in script : Founded(c)
  /\ plan \in Promises

ExecInv == exec = None \/ (exec \in Exec /\ \A c \in exec.todo : Founded(c))

DestInv == dest \in [Buckets -> (SUBSET Settings) \cup {None}] /\ OnlyWhatTheSourceHad

IInv == SourceInv /\ RunInv /\ FilesInv /\ ExecInv /\ DestInv

-----------------------------------------------------------------------------

\* What was at the source stays so, and what was confirmed.
Grows ==
  /\ ever' \in Having /\ confirmed' \subseteq Buckets
  /\ confirmed \subseteq confirmed'
  /\ \A b \in Buckets : ever[b] \subseteq ever'[b]

\* A command that was founded stays founded.
LEMMA FoundedStays ==
  ASSUME SourceInv, Grows, NEW c, Founded(c)
  PROVE  Founded(c)'
BY DEF SourceInv, Grows, Founded, Cmd, Having, OfFacet

\* A step that leaves a part alone keeps its invariant, whatever the source does.
LEMMA RunStays ==
  ASSUME SourceInv, Grows, RunInv, run' = run
  PROVE  RunInv'
<1>1. CASE run = None \/ run \in ListRun
  BY <1>1 DEF RunInv
<1>2. CASE Reading
  BY <1>2 DEF Reading, RunInv, Grows, ReadRun, Having
<1>3. CASE Generating
  <2>1. \A c \in run.script : Founded(c)'
    BY <1>3, FoundedStays DEF Generating
  <2>2. \A d \in run.docs : d.content \subseteq ever'[d.bucket]
    BY <1>3 DEF Generating, Grows, WriteRun, Doc
  <2> QED
    BY <1>3, <2>1, <2>2 DEF Generating, RunInv
<1> QED
  BY <1>1, <1>2, <1>3 DEF RunInv

\* So do the files on disk.
LEMMA FilesStay ==
  ASSUME SourceInv, Grows, FilesInv, UNCHANGED files
  PROVE  FilesInv'
<1>1. \A c \in script : Founded(c)'
  BY FoundedStays DEF FilesInv
<1>2. \A b \in Buckets : docs[b] \subseteq ever'[b]
  BY DEF FilesInv, Grows
<1> QED
  BY <1>1, <1>2 DEF FilesInv, files

\* So does what is left of a running script.
LEMMA ExecStays ==
  ASSUME SourceInv, Grows, ExecInv, exec' = exec
  PROVE  ExecInv'
<1>1. exec # None => \A c \in exec.todo : Founded(c)'
  BY FoundedStays DEF ExecInv
<1> QED
  BY <1>1 DEF ExecInv

\* So does the destination.
LEMMA DestStays ==
  ASSUME SourceInv, Grows, DestInv, dest' = dest
  PROVE  DestInv'
BY DEF DestInv, OnlyWhatTheSourceHad, Grows

\* The same of a step that leaves the source alone, from the whole invariant.
LEMMA NothingNew ==
  ASSUME IInv, UNCHANGED <<source, ever, confirmed>>
  PROVE  SourceInv' /\ Grows
BY DEF IInv, SourceInv, Grows

-----------------------------------------------------------------------------

\* What the script's commands and documents put in force was in the snapshot.
LEMMA Generated ==
  ASSUME SourceInv, NEW snap, NEW yes,
         snap.names \subseteq Buckets, snap.has \in Having,
         \A b \in snap.names : snap.has[b] \subseteq ever[b]
  PROVE  /\ Commands(snap, yes) \subseteq Cmd
         /\ \A c \in Commands(snap, yes) :
              /\ c.op \in {"versioning", "public"} => OfFacet(ever[c.bucket], c.op) # {}
              /\ c.op = "public" => c.bucket \in Promise(snap, ClassifyFor(snap), yes).public
         /\ Documents(snap, yes) \subseteq Doc
         /\ \A d \in Documents(snap, yes) : d.content \subseteq ever[d.bucket]
<1>1. Commands(snap, yes) \subseteq Cmd
  BY DEF Commands, Cmd
<1>2. ASSUME NEW c \in Commands(snap, yes)
      PROVE  /\ c.op \in {"versioning", "public"} => OfFacet(ever[c.bucket], c.op) # {}
             /\ c.op = "public" => c.bucket \in Promise(snap, ClassifyFor(snap), yes).public
  <2>1. /\ c.bucket \in snap.names /\ c.op \in Ops
        /\ Needs(c.op, snap.has[c.bucket], c.bucket \in yes)
    BY DEF Commands
  <2>2. CASE c.op = "versioning"
    <3>1. OfFacet(snap.has[c.bucket], "versioning") # {}
      BY <2>1, <2>2 DEF Needs
    <3> QED
      BY <2>1, <2>2, <3>1 DEF OfFacet
  <2>3. CASE c.op = "public"
    <3>1. OfFacet(snap.has[c.bucket], "public") # {} /\ c.bucket \in yes
      BY <2>1, <2>3 DEF Needs
    <3>2. OfFacet(ever[c.bucket], "public") # {}
      BY <2>1, <3>1 DEF OfFacet
    <3> QED
      BY <2>1, <2>3, <3>1, <3>2 DEF Promise
  <2> QED
    BY <2>2, <2>3
<1>3. ASSUME NEW d \in Documents(snap, yes)
      PROVE  d \in Doc /\ d.content \subseteq ever[d.bucket]
  <2>1. PICK c \in Commands(snap, yes) :
          d = [op |-> c.op, bucket |-> c.bucket, content |-> Document(snap.has[c.bucket], c.op)]
    BY DEF Documents
  <2>2. c \in Cmd /\ c.bucket \in snap.names
    BY <1>1 DEF Commands
  <2>3. Document(snap.has[c.bucket], c.op) \subseteq snap.has[c.bucket]
    BY DEF Document, ExpiryRules, OfFacet
  <2>4. snap.has[c.bucket] \subseteq Settings
    BY <2>2 DEF Having
  <2> QED
    BY <2>1, <2>2, <2>3, <2>4 DEF Doc, Cmd
<1> QED
  BY <1>1, <1>2, <1>3

\* A report, and the generation it may start.
LEMMA Presenting ==
  ASSUME IInv, NEW snap, NEW via,
         snap.names \subseteq Buckets, snap.has \in Having,
         \A b \in snap.names : snap.has[b] \subseteq ever[b],
         Present(snap, via), UNCHANGED <<source, ever>>
  PROVE  SourceInv' /\ Grows /\ RunInv'
<1>1. CASE run' = None /\ UNCHANGED confirmed
  BY <1>1, NothingNew DEF RunInv
<1>2. CASE \E yes \in Answers :
        /\ run' = [phase |-> "write", script |-> Commands(snap, yes), written |-> FALSE,
                   docs |-> Documents(snap, yes), code |-> ExitCode(ClassifyFor(snap)),
                   plan |-> Promise(snap, ClassifyFor(snap), yes)]
        /\ confirmed' = confirmed \cup Promise(snap, ClassifyFor(snap), yes).public
  <2>1. PICK yes \in Answers :
          /\ run' = [phase |-> "write", script |-> Commands(snap, yes), written |-> FALSE,
                     docs |-> Documents(snap, yes), code |-> ExitCode(ClassifyFor(snap)),
                     plan |-> Promise(snap, ClassifyFor(snap), yes)]
          /\ confirmed' = confirmed \cup Promise(snap, ClassifyFor(snap), yes).public
    BY <1>2
  <2>2. Promise(snap, ClassifyFor(snap), yes) \in Promises
    BY DEF Promise, Promises
  <2>3. Promise(snap, ClassifyFor(snap), yes).public \subseteq Buckets
    BY DEF Promise
  <2>4. SourceInv' /\ Grows
    BY <2>1, <2>3 DEF IInv, SourceInv, Grows
  <2>5. ExitCode(ClassifyFor(snap)) \in {"manual", "ask", "ok"}
    BY DEF ExitCode
  <2>6. SourceInv
    BY DEF IInv
  <2>7. run' \in WriteRun
    BY <2>1, <2>2, <2>5, <2>6, Generated DEF WriteRun
  <2>8. \A c \in Commands(snap, yes) : Founded(c)'
    BY <2>1, <2>6, Generated DEF Founded
  <2>9. \A d \in Documents(snap, yes) : d.content \subseteq ever'[d.bucket]
    BY <2>6, Generated
  <2> QED
    BY <2>1, <2>4, <2>7, <2>8, <2>9 DEF RunInv, Generating
<1> QED
  BY <1>1, <1>2 DEF Present

-----------------------------------------------------------------------------
(* The steps. *)

\* Nothing has travelled yet.
LEMMA InitHolds == Init => IInv
<1> SUFFICES ASSUME Init PROVE IInv
  OBVIOUS
<1>1. SourceInv
  BY StorageAssumption DEF Init, SourceInv, Having
<1>2. RunInv /\ ExecInv
  BY DEF Init, RunInv, ExecInv
<1>3. FilesInv
  BY <1>1 DEF Init, FilesInv, SourceInv, Having, NoSettings, Promises
<1>4. DestInv
  BY DEF Init, DestInv, OnlyWhatTheSourceHad
<1> QED
  BY <1>1, <1>2, <1>3, <1>4 DEF IInv

\* The steps of the storage command that leave the files and the destination alone.
LEMMA RunSteps ==
  ASSUME IInv, UNCHANGED <<source, files, exec, dest, ever, confirmed>>, RunInv'
  PROVE  IInv'
<1>1. SourceInv' /\ Grows
  BY NothingNew
<1> QED
  BY <1>1, FilesStay, ExecStays, DestStays DEF IInv

\* The listing starts from nothing.
LEMMA ListingHolds == ASSUME IInv, Listing PROVE IInv'
<1>1. run \in ListRun
  BY DEF Listing, IInv, RunInv, Reading, Generating, ReadRun, WriteRun
<1>2. run' \in ReadRun
  BY <1>1 DEF Listing, ReadRun, ListRun, Listed, Having, NoSettings
<1>3. \A b \in Buckets : run'.got[b] = {}
  BY DEF Listing, NoSettings
<1>4. RunInv'
  BY <1>2, <1>3 DEF RunInv, Reading
<1> QED
  BY <1>4, RunSteps DEF Listing, Elsewhere, files, bucketsOfDest, history

\* The reads: what is got of a bucket is of what it has then.
LEMMA ReadsHold ==
  ASSUME IInv, Extracting, NEW b \in Buckets,
         Spawn(b) \/ Answered(b) \/ Unread(b) \/ PolicyLost(b)
  PROVE  IInv'
<1>1. Reading
  BY DEF Extracting, IInv, RunInv, Generating, ListRun, WriteRun
<1>2. CASE Spawn(b)
  <2>1. run' \in ReadRun /\ run'.got = run.got
    BY <1>1, <1>2 DEF Spawn, Reading, ReadRun
  <2>2. RunInv'
    BY <1>1, <1>2, <2>1 DEF Spawn, Elsewhere, history, RunInv, Reading
  <2> QED
    BY <1>2, <2>2, RunSteps DEF Spawn, Elsewhere, files, bucketsOfDest, history
<1>3. CASE Answered(b)
  <2> DEFINE seen == IF source[b] = None THEN {} ELSE OfFacet(source[b], facet(b))
  <2>1. seen \subseteq ever[b] /\ seen \subseteq Settings
    BY DEF IInv, SourceInv, OfFacet, Having
  <2> HIDE DEF seen
  <2>2. run' = [run EXCEPT !.at[b] = @ + 1, !.got[b] = @ \cup seen]
    BY <1>3 DEF Answered, seen
  <2>3. run' \in ReadRun
    <3>1. [run.at EXCEPT ![b] = @ + 1] \in [Buckets -> Nat \ {0}]
      BY <1>1 DEF Reading, ReadRun
    <3>2. [run.got EXCEPT ![b] = @ \cup seen] \in Having
      BY <1>1, <2>1 DEF Reading, ReadRun, Having
    <3> QED
      BY <1>1, <2>2, <3>1, <3>2 DEF Reading, ReadRun
  <2>4. \A c \in Buckets : run'.got[c] = IF c = b THEN run.got[c] \cup seen ELSE run.got[c]
    BY <1>1, <2>2 DEF Reading, ReadRun, Having
  <2>5. ever' = ever
    BY <1>3 DEF Answered, Elsewhere, history
  <2>6. RunInv'
    BY <1>1, <2>1, <2>3, <2>4, <2>5 DEF RunInv, Reading
  <2> QED
    BY <1>3, <2>6, RunSteps DEF Answered, Elsewhere, files, bucketsOfDest, history
<1>4. CASE Unread(b)
  <2>1. PICK gaps \in SUBSET Facets : Fails(b, gaps)
    <3>1. CASE run.via = "s3"
      <4>1. facet(b) \in Facets
        <5>1. Len(ReadsOf("s3")) = 4
          BY DEF ReadsOf
        <5>2. run.at[b] <= 4 /\ run.at[b] \in Nat \ {0}
          BY <1>1, <1>4, <3>1, <5>1 DEF Unread, Fails, AtWork, Reading, ReadRun
        <5>3. run.at[b] \in 1 .. 4
          BY <5>2
        <5> QED
          BY <3>1, <5>3 DEF facet, ReadsOf, Facets
      <4>2. Fails(b, {facet(b)})
        BY <1>4, <3>1 DEF Unread
      <4>3. {facet(b)} \in SUBSET Facets
        BY <4>1
      <4> QED
        BY <4>2, <4>3
    <3>2. CASE run.via # "s3"
      BY <1>4, <3>2 DEF Unread
    <3> QED
      BY <3>1, <3>2
  <2>2. run' \in ReadRun /\ run'.got = run.got
    <3> DEFINE n == IF run.stopped THEN run.failed ELSE run.failed + 1
    <3>1. run' = [run EXCEPT !.at[b] = @ + 1, !.failed = n, !.gaps[b] = @ \cup gaps]
      BY <2>1 DEF Fails
    <3>2. n \in Nat
      BY <1>1 DEF Reading, ReadRun
    <3>3. [run.at EXCEPT ![b] = @ + 1] \in [Buckets -> Nat \ {0}]
      BY <1>1 DEF Reading, ReadRun
    <3>4. [run.gaps EXCEPT ![b] = @ \cup gaps] \in [Buckets -> SUBSET Facets]
      BY <1>1 DEF Reading, ReadRun
    <3> HIDE DEF n
    <3> QED
      BY <1>1, <3>1, <3>2, <3>3, <3>4 DEF Reading, ReadRun
  <2>3. RunInv'
    BY <1>1, <2>1, <2>2 DEF Fails, Elsewhere, history, RunInv, Reading
  <2> QED
    BY <2>1, <2>3, RunSteps DEF Fails, Elsewhere, files, bucketsOfDest, history
<1>5. CASE PolicyLost(b)
  <2>1. run' \in ReadRun /\ run'.got = run.got
    <3>1. [run.at EXCEPT ![b] = @ + 1] \in [Buckets -> Nat \ {0}] /\ run.failed + 1 \in Nat
      BY <1>1 DEF Reading, ReadRun
    <3> QED
      BY <1>1, <1>5, <3>1 DEF PolicyLost, Reading, ReadRun
  <2>2. RunInv'
    BY <1>1, <1>5, <2>1 DEF PolicyLost, RunInv, Reading
  <2> QED
    BY <1>5, <2>2, RunSteps DEF PolicyLost, files, bucketsOfDest
<1> QED
  BY <1>2, <1>3, <1>4, <1>5

\* The snapshot of an extraction holds what was got.
LEMMA DeliverHolds == ASSUME IInv, Deliver PROVE IInv'
<1>1. Reading
  BY DEF Deliver, Extracting, IInv, RunInv, Generating, ListRun, WriteRun
<1> DEFINE snap == [names |-> run.names, has |-> run.got, old |-> FALSE,
                    gaps |-> {g \in run.names \X Facets : g[2] \in run.gaps[g[1]]}]
<1>2. Present(snap, run.via)
  BY DEF Deliver
<1>3. /\ snap.names \subseteq Buckets /\ snap.has \in Having
      /\ \A b \in snap.names : snap.has[b] \subseteq ever[b]
  BY <1>1 DEF Reading, ReadRun
<1> HIDE DEF snap
<1>4. SourceInv' /\ Grows /\ RunInv'
  BY <1>2, <1>3, Presenting DEF Deliver
<1> QED
  BY <1>4, FilesStay, ExecStays, DestStays DEF IInv, Deliver, bucketsOfDest

\* The snapshot of a file holds what the source has.
LEMMA LoadHolds == ASSUME IInv, Load PROVE IInv'
<1> DEFINE snap(old) == [names |-> Listed, old |-> old, gaps |-> {},
             has |-> [b \in Buckets |-> IF source[b] = None THEN {} ELSE source[b]]]
<1>1. SourceInv' /\ Grows /\ RunInv'
  <2>1. CASE \E old \in BOOLEAN : Present(snap(old), "file")
    <3>1. PICK old \in BOOLEAN : Present(snap(old), "file")
      BY <2>1
    <3>2. /\ snap(old).names \subseteq Buckets /\ snap(old).has \in Having
          /\ \A b \in snap(old).names : snap(old).has[b] \subseteq ever[b]
      BY DEF Listed, IInv, SourceInv, Having
    <3> HIDE DEF snap
    <3> QED
      BY <3>1, <3>2, Presenting DEF Load
  <2>2. CASE run' = None /\ UNCHANGED confirmed
    BY <2>2, NothingNew DEF Load, RunInv
  <2> QED
    BY <2>1, <2>2 DEF Load
<1> QED
  BY <1>1, FilesStay, ExecStays, DestStays DEF IInv, Load, bucketsOfDest

\* The steps that write a file, under a script that may be running.
LEMMA ReplacedKeeps ==
  ASSUME IInv, Replaced
  PROVE  SourceInv' /\ Grows /\ ExecInv' /\ DestInv' /\ plan' \in Promises
<1>1. SourceInv' /\ Grows
  BY NothingNew DEF Replaced, history
<1>2. ExecInv'
  <2>1. CASE exec = None
    BY <2>1 DEF Replaced, ExecInv
  <2>2. CASE exec # None
    <3>1. exec \in Exec /\ \A c \in exec.todo : Founded(c)'
      BY <1>1, <2>2, FoundedStays DEF IInv, ExecInv
    <3>2. exec' = [exec EXCEPT !.plan = None]
      BY <2>2 DEF Replaced
    <3>3. exec' \in Exec /\ exec'.todo = exec.todo
      BY <3>1, <3>2 DEF Exec, Promises
    <3> QED
      BY <3>1, <3>3 DEF ExecInv
  <2> QED
    BY <2>1, <2>2
<1>3. DestInv'
  BY <1>1, DestStays DEF IInv, Replaced
<1> QED
  BY <1>1, <1>2, <1>3 DEF Replaced, Promises

\* The artifacts, one by one, and the end of the run.
LEMMA WritesHold ==
  ASSUME IInv, Writing, WriteScript \/ (\E d \in run.docs : WriteDocument(d)) \/ Complete
  PROVE  IInv'
<1>1. Generating
  BY DEF Writing, IInv, RunInv, Reading, ListRun, ReadRun
<1>2. CASE WriteScript
  <2>1. SourceInv' /\ Grows /\ ExecInv' /\ DestInv' /\ plan' \in Promises
    BY <1>2, ReplacedKeeps DEF WriteScript
  <2>2. ever' = ever /\ confirmed' = confirmed /\ docs' = docs
    BY <1>2 DEF WriteScript, Replaced, history
  <2>3. run' \in WriteRun /\ run'.script = run.script /\ run'.docs = run.docs
    BY <1>1, <1>2 DEF WriteScript, Generating, WriteRun
  <2>4. \A c \in run.script : Founded(c)'
    BY <1>1, <2>1, FoundedStays DEF Generating, IInv
  <2>5. RunInv'
    BY <1>1, <2>2, <2>3, <2>4 DEF RunInv, Generating
  <2>6. FilesInv'
    BY <1>2, <2>1, <2>2, <2>4 DEF WriteScript, FilesInv, IInv
  <2> QED
    BY <2>1, <2>5, <2>6 DEF IInv
<1>3. ASSUME NEW d \in run.docs, WriteDocument(d)
      PROVE  IInv'
  <2>1. SourceInv' /\ Grows /\ ExecInv' /\ DestInv' /\ plan' \in Promises
    BY <1>3, ReplacedKeeps DEF WriteDocument
  <2>2. ever' = ever /\ confirmed' = confirmed /\ script' = script
    BY <1>3 DEF WriteDocument, Replaced, history
  <2>3. run' \in WriteRun /\ run'.script = run.script /\ run'.docs \subseteq run.docs
    BY <1>1, <1>3 DEF WriteDocument, Generating, WriteRun
  <2>4. \A c \in run.script \cup script : Founded(c)'
    BY <1>1, <2>1, FoundedStays DEF Generating, IInv, FilesInv
  <2>5. RunInv'
    BY <1>1, <2>2, <2>3, <2>4 DEF RunInv, Generating
  <2>6. d \in Doc /\ d.content \subseteq ever[d.bucket]
    BY <1>1 DEF Generating, WriteRun
  <2>7. docs' \in Having /\ \A b \in Buckets : docs'[b] \subseteq ever[b]
    <3>1. docs' = [docs EXCEPT ![d.bucket] = Replace(@, d.op, d.content)]
      BY <1>3 DEF WriteDocument
    <3>2. Replace(docs[d.bucket], d.op, d.content) \subseteq ever[d.bucket]
      BY <2>6 DEF Replace, OfFacet, IInv, FilesInv, Doc
    <3>3. ever[d.bucket] \subseteq Settings
      BY <2>6 DEF IInv, SourceInv, Having, Doc
    <3> QED
      BY <3>1, <3>2, <3>3 DEF IInv, FilesInv, Having
  <2>8. FilesInv'
    BY <2>1, <2>2, <2>4, <2>7 DEF FilesInv
  <2> QED
    BY <2>1, <2>5, <2>8 DEF IInv
<1>4. CASE Complete
  <2>1. SourceInv' /\ Grows
    BY <1>4, NothingNew DEF Complete, history
  <2>2. RunInv'
    BY <1>4 DEF Complete, RunInv
  <2>3. FilesInv'
    <3>1. plan' \in Promises
      BY <1>1, <1>4 DEF Complete, Generating, WriteRun
    <3>2. \A c \in script : Founded(c)'
      BY <2>1, FoundedStays DEF IInv, FilesInv
    <3> QED
      BY <1>4, <3>1, <3>2 DEF Complete, history, IInv, FilesInv
  <2> QED
    BY <1>4, <2>1, <2>2, <2>3, ExecStays, DestStays DEF IInv, Complete, bucketsOfDest
<1> QED
  BY <1>2, <1>3, <1>4

\* What one command leaves of a bucket was at the source, whichever generation's
\* document it reads.
LEMMA PutIsFounded ==
  ASSUME SourceInv, NEW c, Founded(c), NEW S \in SUBSET Settings, NEW doc \in SUBSET Settings,
         S \subseteq ever[c.bucket], doc \subseteq ever[c.bucket],
         OfFacet(S, "public") # {} => c.bucket \in confirmed
  PROVE  /\ Put(c.op, S, doc) \in SUBSET Settings
         /\ Put(c.op, S, doc) \subseteq ever[c.bucket]
         /\ OfFacet(Put(c.op, S, doc), "public") # {} => c.bucket \in confirmed
<1>1. ever[c.bucket] \subseteq Settings
  BY DEF SourceInv, Having, Founded, Cmd
<1>2. CASE c.op \in {"lifecycle", "cors"}
  <2>1. Put(c.op, S, doc) = Replace(S, c.op, doc)
    BY <1>2 DEF Put
  <2>2. OfFacet(Replace(S, c.op, doc), "public") \subseteq OfFacet(S, "public")
    BY <1>2 DEF Replace, OfFacet
  <2> QED
    BY <1>1, <2>1, <2>2 DEF Replace, OfFacet
<1>3. CASE c.op \in {"versioning", "public"}
  <2>1. Put(c.op, S, doc) = S \cup OfFacet(Settings, c.op)
    BY <1>3 DEF Put
  <2>2. PICK s \in OfFacet(ever[c.bucket], c.op) : TRUE
    BY <1>3 DEF Founded
  <2>3. \A t \in OfFacet(Settings, c.op) : t = s
    BY <1>1, <1>3, <2>2, StorageAssumption DEF OfFacet
  <2>4. OfFacet(Settings, c.op) \subseteq ever[c.bucket]
    BY <2>2, <2>3 DEF OfFacet
  <2>5. ASSUME OfFacet(Put(c.op, S, doc), "public") # {}
        PROVE  c.bucket \in confirmed
    <3>1. CASE c.op = "public"
      BY <3>1 DEF Founded
    <3>2. CASE c.op = "versioning"
      <4>1. OfFacet(S \cup OfFacet(Settings, "versioning"), "public") \subseteq OfFacet(S, "public")
        BY DEF OfFacet
      <4> QED
        BY <2>1, <2>5, <3>2, <4>1
    <3> QED
      BY <1>3, <3>1, <3>2
  <2> QED
    BY <1>1, <2>1, <2>4, <2>5
<1>4. CASE c.op \in {"create", "allow"}
  <2>1. Put(c.op, S, doc) = S
    BY <1>4 DEF Put
  <2> QED
    BY <2>1
<1> QED
  BY <1>2, <1>3, <1>4 DEF Founded, Cmd, Ops

\* One command of the script.
LEMMA ExecuteHolds == ASSUME IInv, exec # None, NEW c \in exec.todo, Execute(c) PROVE IInv'
<1>1. exec \in Exec /\ Founded(c)
  BY DEF IInv, ExecInv
<1>2. SourceInv' /\ Grows
  BY NothingNew DEF Execute, history
<1>3. RunInv' /\ FilesInv'
  BY <1>2, RunStays, FilesStay DEF Execute, IInv, work
<1>4. ExecInv'
  <2>1. exec' \in Exec /\ exec'.todo \subseteq exec.todo
    BY <1>1 DEF Execute, Exec, Founded, Cmd
  <2>2. \A d \in exec.todo : Founded(d)'
    BY <1>2, FoundedStays DEF IInv, ExecInv
  <2> QED
    BY <2>1, <2>2 DEF ExecInv
<1>5. DestInv'
  <2> DEFINE had == IF dest[c.bucket] = None THEN {} ELSE dest[c.bucket]
             has == Put(c.op, had, docs[c.bucket])
  <2>1. c.bucket \in Buckets
    BY <1>1 DEF Founded, Cmd
  <2>2. /\ had \in SUBSET Settings /\ had \subseteq ever[c.bucket]
        /\ OfFacet(had, "public") # {} => c.bucket \in confirmed
    BY <2>1 DEF IInv, DestInv, OnlyWhatTheSourceHad, OfFacet
  <2>3. docs[c.bucket] \in SUBSET Settings /\ docs[c.bucket] \subseteq ever[c.bucket]
    BY <2>1 DEF IInv, FilesInv, Having
  <2>4. dest' = [dest EXCEPT ![c.bucket] = has]
    BY DEF Execute
  <2> HIDE DEF had
  <2>5. /\ has \in SUBSET Settings /\ has \subseteq ever[c.bucket]
        /\ OfFacet(has, "public") # {} => c.bucket \in confirmed
    BY <1>1, <2>2, <2>3, PutIsFounded DEF IInv
  <2> HIDE DEF has
  <2>6. dest' \in [Buckets -> (SUBSET Settings) \cup {None}]
    BY <2>4, <2>5 DEF IInv, DestInv
  <2>7. \A b \in Buckets : dest'[b] = IF b = c.bucket THEN has ELSE dest[b]
    BY <2>4 DEF IInv, DestInv
  <2>8. ever' = ever /\ confirmed' = confirmed
    BY DEF Execute, history
  <2> QED
    BY <2>5, <2>6, <2>7, <2>8 DEF IInv, DestInv, OnlyWhatTheSourceHad
<1> QED
  BY <1>2, <1>3, <1>4, <1>5 DEF IInv

\* The start and the ends of a script.
LEMMA ScriptHolds ==
  ASSUME IInv, StartScript \/ ScriptStops \/ ScriptEnds
  PROVE  IInv'
<1>1. SourceInv' /\ Grows
  BY NothingNew DEF StartScript, ScriptStops, ScriptEnds, history
<1>2. RunInv' /\ FilesInv' /\ DestInv'
  BY <1>1, RunStays, FilesStay, DestStays DEF StartScript, ScriptStops, ScriptEnds, IInv, work
<1>3. ExecInv'
  <2>1. CASE StartScript
    <3>1. exec' \in Exec
      BY <2>1 DEF StartScript, Exec, IInv, FilesInv, Founded
    <3>2. \A c \in script : Founded(c)'
      BY <1>1, FoundedStays DEF IInv, FilesInv
    <3> QED
      BY <2>1, <3>1, <3>2 DEF StartScript, ExecInv
  <2>2. CASE ScriptStops \/ ScriptEnds
    BY <2>2 DEF ScriptStops, ScriptEnds, ExecInv
  <2> QED
    BY <2>1, <2>2
<1> QED
  BY <1>1, <1>2, <1>3 DEF IInv

\* The account changes; what it ever had only grows.
LEMMA SourceChangesHolds ==
  ASSUME IInv, NEW b \in Buckets, SourceChanges(b)
  PROVE  IInv'
<1>1. source' \in [Buckets -> (SUBSET Settings) \cup {None}]
  BY StorageAssumption DEF SourceChanges, IInv, SourceInv
<1> DEFINE now == IF source'[b] = None THEN {} ELSE source'[b]
<1>2. now \in SUBSET Settings
  BY <1>1
<1>3. ever' = [ever EXCEPT ![b] = @ \cup now] /\ confirmed' = confirmed
  BY DEF SourceChanges
<1>4. \A c \in Buckets : c # b => source'[c] = source[c]
  BY DEF SourceChanges, IInv, SourceInv
<1>5. SourceInv' /\ Grows
  <2>1. ever' \in Having
    BY <1>2, <1>3 DEF IInv, SourceInv, Having
  <2>2. \A c \in Buckets : ever'[c] = IF c = b THEN ever[c] \cup now ELSE ever[c]
    BY <1>3 DEF IInv, SourceInv, Having
  <2>3. source'[b] # None => source'[b] \subseteq ever'[b]
    BY <2>2
  <2> HIDE DEF now
  <2> QED
    BY <1>1, <1>3, <1>4, <2>1, <2>2, <2>3 DEF IInv, SourceInv, Grows
<1> QED
  BY <1>5, RunStays, FilesStay, ExecStays, DestStays
     DEF SourceChanges, IInv, work, bucketsOfDest

-----------------------------------------------------------------------------

\* Every step.
LEMMA StepHolds == IInv /\ [Next]_vars => IInv'
<1> SUFFICES ASSUME IInv, [Next]_vars PROVE IInv'
  OBVIOUS
<1>1. CASE UNCHANGED vars
  <2>1. RunInv'
    BY <1>1 DEF vars, work, history, IInv, RunInv, Reading, Generating, Founded
  <2> QED
    BY <1>1, <2>1, RunSteps DEF vars, work, history, bucketsOfDest
<1>2. CASE Load
  BY <1>2, LoadHolds
<1>3. CASE \E via \in {"s3", "r2"} : Begin(via)
  <2>1. run' \in ListRun
    BY <1>3 DEF Begin, ListRun
  <2> QED
    BY <1>3, <2>1, RunSteps DEF Begin, RunInv, bucketsOfDest
<1>4. CASE Listing
  BY <1>4, ListingHolds
<1>5. CASE ListingFails \/ Abort
  <2>1. run' = None
    BY <1>5 DEF ListingFails, Abort
  <2> QED
    BY <1>5, <2>1, RunSteps DEF ListingFails, Abort, Elsewhere, RunInv, bucketsOfDest, history
<1>6. CASE Deliver
  BY <1>6, DeliverHolds
<1>7. CASE Stop
  <2>1. SourceInv' /\ Grows
    BY <1>7, NothingNew DEF Stop, Elsewhere, history
  <2>2. RunInv'
    <3>1. CASE run \in ListRun
      <4>1. run' \in ListRun
        BY <1>7, <3>1 DEF Stop, ListRun
      <4> QED
        BY <4>1 DEF RunInv
    <3>2. CASE Reading
      <4>1. run' \in ReadRun /\ run'.got = run.got
        BY <1>7, <3>2 DEF Stop, Reading, ReadRun
      <4> QED
        BY <1>7, <3>2, <4>1 DEF RunInv, Reading, Stop, Elsewhere, history
    <3>3. ~ Generating
      BY <1>7 DEF Stop, Writing, Generating, WriteRun
    <3> QED
      BY <1>7, <3>1, <3>2, <3>3 DEF IInv, RunInv, Stop
  <2> QED
    BY <1>7, <2>2, RunSteps DEF Stop, Elsewhere, bucketsOfDest, history
<1>8. CASE \E b \in Buckets : Spawn(b) \/ Answered(b) \/ Unread(b) \/ PolicyLost(b)
  BY <1>8, ReadsHold DEF Spawn, Answered, Unread, Fails, PolicyLost
<1>9. CASE WriteScript \/ Complete \/ \E d \in IF Writing THEN run.docs ELSE {} : WriteDocument(d)
  BY <1>9, WritesHold DEF WriteScript, Complete, WriteDocument
<1>10. CASE StartScript \/ ScriptStops \/ ScriptEnds
  BY <1>10, ScriptHolds
<1>11. CASE \E c \in IF exec = None THEN {} ELSE exec.todo : Execute(c)
  BY <1>11, ExecuteHolds
<1>12. CASE \E b \in Buckets : SourceChanges(b)
  BY <1>12, SourceChangesHolds
<1> QED
  BY <1>1, <1>2, <1>3, <1>4, <1>5, <1>6, <1>7, <1>8, <1>9, <1>10, <1>11, <1>12 DEF Next

\* The invariant, for any account that changes, any failures and any interleaving of the
\* generations on disk with the scripts that run (objstore.go Generate, main.go cmdStorage).
THEOREM StorageInvariant == Spec => []IInv
BY InitHolds, StepHolds, PTL DEF Spec

\* The destination never has a setting the source never had, and serves a bucket to the
\* public only after an answer of yes (objstore.go ClassifyFor, "never make a bucket
\* public without an explicit yes").
THEOREM StorageOnlyWhatTheSourceHad == Spec => []OnlyWhatTheSourceHad
<1>1. IInv => OnlyWhatTheSourceHad
  BY DEF IInv, DestInv
<1> QED
  BY <1>1, StorageInvariant, PTL

-----------------------------------------------------------------------------
(* Nothing is dropped silently.  What the run owes of a bucket, its steady   *)
(* settings less those that can be taken for absent, is in what was got of   *)
(* it, or its facet is a gap, as far as the reads have come; the report says *)
(* both, and an exit code of 0 that neither is MANUAL.                       *)

Due(b) == steady[b] \cap Readable(b)

ReadBefore(n) == {ReadsOf("s3")[i] : i \in {j \in 1 .. 4 : j < n}}

SteadyInv ==
  /\ steady \in Having
  /\ \A b \in Buckets : IF source[b] = None THEN steady[b] = {} ELSE steady[b] \subseteq source[b]

CoveringInv ==
  (Extracting /\ run.via = "s3") =>
    \A b \in Buckets : \A s \in Due(b) :
      /\ b \in run.names
      /\ Facet[s] \in ReadBefore(run.at[b]) => s \in run.got[b] \/ Facet[s] \in run.gaps[b]

Covered(findings) ==
  \A b \in Buckets : \A s \in Due(b) :
    \/ Finding(b, Facet[s], s, Verdict(s)) \in findings
    \/ Finding(b, Facet[s], None, "MANUAL") \in findings
Clean(findings) == \A f \in findings : f.verdict \notin {"MANUAL", "ASK"}

ReportInv ==
  (report # None /\ report.via = "s3") =>
    /\ Covered(report.findings)
    /\ exit = "ok" => Clean(report.findings)
    /\ (Writing /\ run.code = "ok") => Clean(report.findings)

DroppedInv == IInv /\ SteadyInv /\ CoveringInv /\ ReportInv

\* What is steady is at the source.
LEMMA SteadyHolds == IInv /\ SteadyInv /\ [Next]_vars => SteadyInv'
<1> SUFFICES ASSUME IInv, SteadyInv, [Next]_vars PROVE SteadyInv'
  OBVIOUS
<1>1. CASE UNCHANGED <<source, steady>>
  BY <1>1 DEF SteadyInv
<1>2. CASE UNCHANGED source /\ steady' = NoSettings
  BY <1>2 DEF SteadyInv, NoSettings, Having, SourceInv, IInv
<1>3. CASE UNCHANGED source /\ steady' = [b \in Buckets |-> IF source[b] = None THEN {} ELSE source[b]]
  BY <1>3 DEF SteadyInv, Having, SourceInv, IInv
<1>4. ASSUME NEW b \in Buckets, SourceChanges(b)
      PROVE  SteadyInv'
  <2> DEFINE now == IF source'[b] = None THEN {} ELSE source'[b]
  <2>1. steady' = [steady EXCEPT ![b] = @ \cap now]
    BY <1>4 DEF SourceChanges
  <2>2. \A c \in Buckets : c # b => source'[c] = source[c]
    BY <1>4 DEF SourceChanges, IInv, SourceInv
  <2>3. steady' \in Having /\ \A c \in Buckets :
          steady'[c] = IF c = b THEN steady[b] \cap now ELSE steady[c]
    BY <2>1 DEF SteadyInv, Having
  <2> QED
    BY <2>2, <2>3 DEF SteadyInv
<1> QED
  <2>1. CASE Load \/ StartScript
    BY <1>2, <2>1 DEF Load, StartScript
  <2>2. CASE \E via \in {"s3", "r2"} : Begin(via)
    BY <1>3, <2>2 DEF Begin
  <2>3. CASE \E b \in Buckets : SourceChanges(b)
    BY <1>4, <2>3
  <2>4. CASE \/ Listing \/ ListingFails \/ Deliver \/ Abort \/ Stop
             \/ \E b \in Buckets : Spawn(b) \/ Answered(b) \/ Unread(b) \/ PolicyLost(b)
    BY <1>1, <2>4 DEF Listing, ListingFails, Deliver, Abort, Stop, Spawn, Answered, Unread, Fails,
       PolicyLost, Elsewhere, history
  <2>5. CASE \/ WriteScript \/ Complete \/ ScriptStops \/ ScriptEnds
             \/ \E d \in IF Writing THEN run.docs ELSE {} : WriteDocument(d)
             \/ \E c \in IF exec = None THEN {} ELSE exec.todo : Execute(c)
    BY <1>1, <2>5 DEF WriteScript, Complete, WriteDocument, Replaced, ScriptStops, ScriptEnds,
       Execute, history
  <2>6. CASE UNCHANGED vars
    BY <1>1, <2>6 DEF vars, history
  <2> QED
    BY <2>1, <2>2, <2>3, <2>4, <2>5, <2>6 DEF Next

\* One read: the facets before it are read, and then it is.
LEMMA ReadOneMore ==
  ASSUME NEW n \in 1 .. 4
  PROVE  ReadBefore(n + 1) = ReadBefore(n) \cup {ReadsOf("s3")[n]}
BY DEF ReadBefore

\* Nothing is read of a bucket before its first read, and everything but public access
\* after its last.
LEMMA ReadAll ==
  /\ ReadBefore(1) = {}
  /\ \A n \in Nat : n > 4 => Facets \ {"public"} \subseteq ReadBefore(n)
<1>1. ReadBefore(1) = {}
  BY DEF ReadBefore
<1>2. ASSUME NEW n \in Nat, n > 4 PROVE Facets \ {"public"} \subseteq ReadBefore(n)
  <2>1. 1 < n /\ 2 < n /\ 3 < n /\ 4 < n
    BY <1>2
  <2>2. /\ ReadsOf("s3")[1] \in ReadBefore(n) /\ ReadsOf("s3")[2] \in ReadBefore(n)
        /\ ReadsOf("s3")[3] \in ReadBefore(n) /\ ReadsOf("s3")[4] \in ReadBefore(n)
    BY <2>1 DEF ReadBefore
  <2>3. /\ ReadsOf("s3")[1] = "versioning" /\ ReadsOf("s3")[2] = "cors"
        /\ ReadsOf("s3")[3] = "lifecycle" /\ ReadsOf("s3")[4] = "policy"
    BY DEF ReadsOf
  <2> QED
    BY <2>2, <2>3 DEF Facets
<1> QED
  BY <1>1, <1>2

\* A step that moves no read keeps what the reads cover.
LEMMA CoveringStays ==
  ASSUME IInv, SteadyInv, CoveringInv,
         Extracting' => Extracting /\ run'.via = run.via /\ run'.names = run.names
                        /\ run'.at = run.at /\ run'.got = run.got /\ run'.gaps = run.gaps,
         \A b \in Buckets : Due(b)' \subseteq Due(b)
  PROVE  CoveringInv'
BY DEF CoveringInv

\* What was got, and the gaps, cover the facets read so far.
LEMMA CoveringHolds == IInv /\ SteadyInv /\ CoveringInv /\ [Next]_vars => CoveringInv'
<1> SUFFICES ASSUME IInv, SteadyInv, CoveringInv, [Next]_vars PROVE CoveringInv'
  OBVIOUS
<1>1. CASE run' = None \/ run'.phase # "read"
  BY <1>1 DEF CoveringInv, Extracting
<1>2. CASE Listing
  <2>1. /\ run'.via = run.via /\ run'.names = Listed /\ run'.at = [b \in Buckets |-> 1]
    BY <1>2 DEF Listing
  <2>2. steady' = steady
    BY <1>2 DEF Listing, Elsewhere, history
  <2>3. \A b \in Buckets : steady[b] # {} => b \in Listed
    BY DEF SteadyInv, Listed
  <2>4. \A b \in Buckets : ReadBefore(run'.at[b]) = {}
    BY <2>1, ReadAll
  <2> QED
    BY <2>1, <2>2, <2>3, <2>4 DEF CoveringInv, Due
<1>3. ASSUME NEW b \in Buckets, Extracting,
             Answered(b) \/ Unread(b) \/ PolicyLost(b), run.via = "s3"
      PROVE  CoveringInv'
  <2>1. Reading
    BY <1>3 DEF Extracting, IInv, RunInv, Generating, ListRun, WriteRun
  <2>2. steady' = steady /\ source' = source /\ bodiless \subseteq bodiless'
    BY <1>3 DEF Answered, Unread, Fails, PolicyLost, Elsewhere, history
  <2>3. run.at[b] \in 1 .. 4
    <3>1. Len(ReadsOf("s3")) = 4
      BY DEF ReadsOf
    <3>2. run.at[b] <= 4 /\ run.at[b] \in Nat \ {0}
      BY <1>3, <2>1, <3>1 DEF Answered, Unread, Fails, PolicyLost, AtWork, Reading, ReadRun
    <3> QED
      BY <3>2
  <2>4. facet(b) = ReadsOf("s3")[run.at[b]]
    BY <1>3 DEF facet
  <2>5. /\ run'.via = run.via /\ run'.names = run.names
        /\ run'.at = [run.at EXCEPT ![b] = @ + 1]
    BY <1>3, <2>1 DEF Answered, Unread, Fails, PolicyLost, Reading, ReadRun
  <2>6. /\ \A c \in Buckets \ {b} : run'.got[c] = run.got[c] /\ run'.gaps[c] = run.gaps[c]
        /\ run.got[b] \subseteq run'.got[b] /\ run.gaps[b] \subseteq run'.gaps[b]
        /\ \/ facet(b) \in run'.gaps[b]
           \/ source[b] # None /\ OfFacet(source[b], facet(b)) \subseteq run'.got[b]
           \/ source[b] = None
           \/ facet(b) = "policy" /\ b \in bodiless'
    <3>1. CASE Answered(b)
      <4> DEFINE seen == IF source[b] = None THEN {} ELSE OfFacet(source[b], facet(b))
      <4>1. run' = [run EXCEPT !.at[b] = @ + 1, !.got[b] = @ \cup seen]
        BY <3>1 DEF Answered
      <4> HIDE DEF seen
      <4>2. run'.got = [run.got EXCEPT ![b] = @ \cup seen] /\ run'.gaps = run.gaps
        BY <2>1, <4>1 DEF Reading, ReadRun
      <4> USE DEF seen
      <4> QED
        BY <2>1, <4>2 DEF Reading, ReadRun, Having
    <3>2. CASE Unread(b)
      <4>1. Fails(b, {facet(b)})
        BY <1>3, <3>2 DEF Unread
      <4>2. run'.gaps = [run.gaps EXCEPT ![b] = @ \cup {facet(b)}] /\ run'.got = run.got
        BY <2>1, <4>1 DEF Fails, Reading, ReadRun
      <4> QED
        BY <2>1, <4>2 DEF Reading, ReadRun, Having
    <3>3. CASE PolicyLost(b)
      BY <2>1, <3>3 DEF PolicyLost, Reading, ReadRun
    <3> QED
      BY <1>3, <3>1, <3>2, <3>3
  <2>7. ReadBefore(run'.at[b]) = ReadBefore(run.at[b]) \cup {facet(b)}
    BY <2>1, <2>3, <2>4, <2>5, ReadOneMore DEF Reading, ReadRun
  <2>8. \A c \in Buckets \ {b} : run'.at[c] = run.at[c]
    BY <2>1, <2>5 DEF Reading, ReadRun
  <2>9. \A s \in Due(b)' : Facet[s] = facet(b) => s \in run'.got[b] \/ facet(b) \in run'.gaps[b]
    BY <2>2, <2>6 DEF Due, Readable, SteadyInv, OfFacet
  <2>10. \A c \in Buckets : Due(c)' \subseteq Due(c)
    BY <2>2 DEF Due, Readable
  <2> QED
    BY <1>3, <2>5, <2>6, <2>7, <2>8, <2>9, <2>10 DEF CoveringInv
<1>4. CASE /\ Extracting' => Extracting /\ run'.via = run.via /\ run'.names = run.names
                             /\ run'.at = run.at /\ run'.got = run.got /\ run'.gaps = run.gaps
           /\ \A b \in Buckets : Due(b)' \subseteq Due(b)
  BY <1>4, CoveringStays
<1> QED
  <2>1. CASE Load \/ Deliver \/ ListingFails \/ Abort \/ Complete \/ \E via \in {"s3", "r2"} : Begin(via)
    <3>1. CASE Load \/ Deliver
      <4>1. run' = None \/ run'.phase # "read"
        <5>1. ASSUME NEW snap, NEW via, Present(snap, via)
              PROVE  run' = None \/ run'.phase # "read"
          BY <5>1 DEF Present
        <5> QED
          BY <3>1, <5>1 DEF Load, Deliver
      <4> QED
        BY <1>1, <4>1
    <3>2. CASE ListingFails \/ Abort \/ Complete \/ \E via \in {"s3", "r2"} : Begin(via)
      BY <1>1, <3>2 DEF ListingFails, Abort, Complete, Begin
    <3> QED
      BY <2>1, <3>1, <3>2
  <2>2. CASE WriteScript \/ \E d \in IF Writing THEN run.docs ELSE {} : WriteDocument(d)
    <3>1. Generating
      BY <2>2 DEF WriteScript, WriteDocument, Writing, IInv, RunInv, Reading, ListRun, ReadRun
    <3>2. run'.phase = "write"
      BY <2>2, <3>1 DEF WriteScript, WriteDocument, Generating, WriteRun
    <3> QED
      BY <1>1, <3>2
  <2>3. CASE \E b \in Buckets : Answered(b) \/ Unread(b) \/ PolicyLost(b)
    <3>1. PICK b \in Buckets : Answered(b) \/ Unread(b) \/ PolicyLost(b)
      BY <2>3
    <3>2. Extracting
      BY <3>1 DEF Answered, Unread, Fails, PolicyLost
    <3>3. CASE run.via = "s3"
      BY <1>3, <3>1, <3>2, <3>3
    <3>4. CASE run.via # "s3"
      <4>1. run'.via = run.via
        <5>1. Reading
          BY <3>2 DEF Extracting, IInv, RunInv, Generating, ListRun, WriteRun
        <5> QED
          BY <3>1, <5>1 DEF Answered, Unread, Fails, PolicyLost, Reading, ReadRun
      <4> QED
        BY <3>4, <4>1 DEF CoveringInv
    <3> QED
      BY <3>3, <3>4
  <2>4. CASE Stop \/ \E b \in Buckets : Spawn(b)
    <3>1. \A b \in Buckets : Due(b)' \subseteq Due(b)
      BY <2>4 DEF Stop, Spawn, Elsewhere, history, Due, Readable
    <3>2. CASE run \in ListRun
      <4>1. run'.phase = "list"
        BY <2>4, <3>2 DEF Stop, Spawn, Extracting, ListRun
      <4> QED
        BY <1>1, <4>1
    <3>3. CASE Reading
      <4>1. /\ run'.via = run.via /\ run'.names = run.names
            /\ run'.at = run.at /\ run'.got = run.got /\ run'.gaps = run.gaps
            /\ run'.phase = run.phase /\ run # None
        BY <2>4, <3>3 DEF Stop, Spawn, Extracting, Reading, ReadRun
      <4> QED
        BY <1>4, <3>1, <4>1 DEF Extracting
    <3>4. run \in ListRun \/ Reading
      BY <2>4 DEF Stop, Spawn, Extracting, Writing, IInv, RunInv, Generating, WriteRun
    <3> QED
      BY <3>2, <3>3, <3>4
  <2>5. CASE StartScript \/ ScriptStops \/ ScriptEnds
    BY <1>4, <2>5 DEF StartScript, ScriptStops, ScriptEnds, work, history, Extracting, NoSettings,
       Due, Readable
  <2>6. CASE \E c \in IF exec = None THEN {} ELSE exec.todo : Execute(c)
    BY <1>4, <2>6 DEF Execute, work, history, Extracting, Due, Readable
  <2>7. CASE \E b \in Buckets : SourceChanges(b)
    <3>1. \A b \in Buckets : Due(b)' \subseteq Due(b)
      BY <2>7 DEF SourceChanges, SteadyInv, Having, Due, Readable
    <3> QED
      BY <1>4, <2>7, <3>1 DEF SourceChanges, work, Extracting
  <2>8. CASE UNCHANGED vars
    BY <1>4, <2>8 DEF vars, work, history, Extracting, Due, Readable
  <2> QED
    BY <1>2, <2>1, <2>2, <2>3, <2>4, <2>5, <2>6, <2>7, <2>8 DEF Next

-----------------------------------------------------------------------------

\* The findings of an extraction cover what was got and its gaps.
LEMMA FindingsCover ==
  ASSUME IInv, SteadyInv, CoveringInv, Deliver, run.via = "s3"
  PROVE  /\ report' # None => Covered(report'.findings)
         /\ exit' = "ok" => Clean(report'.findings)
         /\ (Writing' /\ run'.code = "ok") => Clean(report'.findings)
<1>1. Reading
  BY DEF Deliver, Extracting, IInv, RunInv, Generating, ListRun, WriteRun
<1> DEFINE snap == [names |-> run.names, has |-> run.got, old |-> FALSE,
                    gaps |-> {g \in run.names \X Facets : g[2] \in run.gaps[g[1]]}]
<1>2. Present(snap, "s3")
  BY DEF Deliver
<1>3. report' = [via |-> "s3", findings |-> ClassifyFor(snap)]
  BY <1>2 DEF Present
<1>4. ASSUME NEW b \in Buckets, NEW s \in Due(b)
      PROVE  \/ Finding(b, Facet[s], s, Verdict(s)) \in ClassifyFor(snap)
             \/ Finding(b, Facet[s], None, "MANUAL") \in ClassifyFor(snap)
  <2>1. s \in Settings /\ Facet[s] \in Facets \ {"public"}
    BY StorageAssumption DEF SteadyInv, Having, Due, Readable
  <2>2. b \in run.names
    BY DEF CoveringInv, Deliver
  <2>3. Facet[s] \in ReadBefore(run.at[b])
    <3>1. b \notin AtWork /\ b \in run.spawned
      BY <2>2 DEF Deliver
    <3>2. Len(ReadsOf("s3")) = 4
      BY DEF ReadsOf
    <3>3. ~ (run.at[b] <= 4) /\ run.at[b] \in Nat
      BY <1>1, <3>1, <3>2 DEF AtWork, Reading, ReadRun
    <3>4. run.at[b] > 4
      BY <3>3
    <3> QED
      BY <2>1, <3>3, <3>4, ReadAll
  <2>4. s \in run.got[b] \/ Facet[s] \in run.gaps[b]
    BY <2>3 DEF CoveringInv, Deliver
  <2>5. CASE s \in run.got[b]
    <3>1. Finding(b, Facet[s], s, Verdict(s))
            \in UNION {{Finding(c, Facet[t], t, Verdict(t)) : t \in snap.has[c]} : c \in snap.names}
      BY <2>2, <2>5
    <3> QED
      BY <3>1 DEF ClassifyFor
  <2>6. CASE Facet[s] \in run.gaps[b]
    <3>1. <<b, Facet[s]>> \in snap.gaps
      BY <2>1, <2>2, <2>6
    <3>2. Finding(b, Facet[s], None, "MANUAL") \in {Finding(g[1], g[2], None, "MANUAL") : g \in snap.gaps}
      BY <3>1
    <3> QED
      BY <3>2 DEF ClassifyFor
  <2> QED
    BY <2>4, <2>5, <2>6
<1>5. Covered(ClassifyFor(snap))
  BY <1>4 DEF Covered
<1>6. ExitCode(ClassifyFor(snap)) = "ok" => Clean(ClassifyFor(snap))
  BY DEF ExitCode, Clean
<1> HIDE DEF snap
<1>7. exit' = "ok" => Clean(ClassifyFor(snap))
  BY <1>2, <1>6 DEF Present
<1>8. (Writing' /\ run'.code = "ok") => Clean(ClassifyFor(snap))
  BY <1>2, <1>6 DEF Present, Writing
<1> QED
  BY <1>3, <1>5, <1>7, <1>8

\* What the report covers stays covered while less and less is due.
LEMMA ReportStays ==
  ASSUME SteadyInv, ReportInv, UNCHANGED <<report, garage>>,
         \A b \in Buckets : Due(b)' \subseteq Due(b),
         exit' = "ok" => exit = "ok" \/ (Writing /\ run.code = "ok"),
         Writing' => Writing /\ run'.code = run.code
  PROVE  ReportInv'
<1> SUFFICES ASSUME report # None, report.via = "s3"
             PROVE  /\ Covered(report.findings)'
                    /\ exit' = "ok" => Clean(report.findings)
                    /\ (Writing' /\ run'.code = "ok") => Clean(report.findings)
  BY DEF ReportInv, Clean
<1>1. \A s : Verdict(s)' = Verdict(s)
  BY DEF Verdict
<1>2. Covered(report.findings)'
  BY <1>1 DEF ReportInv, Covered
<1> QED
  BY <1>2 DEF ReportInv

\* The report, the exit code and the generation that follows agree.
LEMMA ReportHolds == IInv /\ SteadyInv /\ CoveringInv /\ ReportInv /\ [Next]_vars => ReportInv'
<1> SUFFICES ASSUME IInv, SteadyInv, CoveringInv, ReportInv, [Next]_vars PROVE ReportInv'
  OBVIOUS
<1>1. CASE Load
  <2>1. report' = None \/ report'.via = "file"
    <3>1. ASSUME NEW snap, Present(snap, "file")
          PROVE  report'.via = "file"
      BY <3>1 DEF Present
    <3> QED
      BY <1>1, <3>1 DEF Load
  <2> QED
    BY <2>1 DEF ReportInv
<1>2. CASE (\E via \in {"s3", "r2"} : Begin(via)) \/ StartScript
  BY <1>2 DEF Begin, StartScript, ReportInv
<1>3. CASE Deliver
  <2>1. CASE run.via = "s3"
    <3>1. garage' = garage /\ \A b \in Buckets : Due(b)' = Due(b)
      BY <1>3 DEF Deliver, Due, Readable
    <3>2. \A s : Verdict(s)' = Verdict(s)
      BY <3>1 DEF Verdict
    <3>3. report' # None => Covered(report.findings)'
      BY <1>3, <2>1, <3>1, <3>2, FindingsCover DEF Covered
    <3> QED
      BY <1>3, <2>1, <3>3, FindingsCover DEF ReportInv, Clean
  <2>2. CASE run.via # "s3"
    <3>1. report'.via = run.via
      BY <1>3 DEF Deliver, Present
    <3> QED
      BY <2>2, <3>1 DEF ReportInv
  <2> QED
    BY <2>1, <2>2
<1>4. CASE \/ Listing \/ ListingFails \/ Abort \/ Stop
           \/ \E b \in Buckets : Spawn(b) \/ Answered(b) \/ Unread(b) \/ PolicyLost(b)
  <2>1. /\ garage' = garage /\ report' = report
        /\ \A b \in Buckets : Due(b)' \subseteq Due(b)
    BY <1>4 DEF Listing, ListingFails, Abort, Stop, Spawn, Answered, Unread, Fails, PolicyLost,
       Elsewhere, history, Due, Readable
  <2>2. exit' \in {exit, "failed"}
    BY <1>4 DEF Listing, ListingFails, Abort, Stop, Spawn, Answered, Unread, Fails, PolicyLost
  <2>3. ~ Writing'
    <3>1. CASE ListingFails \/ Abort
      BY <3>1 DEF ListingFails, Abort, Writing
    <3>2. CASE Listing
      BY <3>2 DEF Listing, Writing
    <3>3. CASE Stop \/ \E b \in Buckets : Spawn(b) \/ Answered(b) \/ Unread(b) \/ PolicyLost(b)
      <4>1. run \in ListRun \/ Reading
        BY <3>3 DEF Stop, Spawn, Answered, Unread, Fails, PolicyLost, Extracting, Writing, IInv, RunInv,
           Generating, WriteRun
      <4>2. run'.phase = run.phase
        <5>1. CASE Stop \/ \E b \in Buckets : Spawn(b)
          BY <4>1, <5>1 DEF Stop, Spawn, ListRun, Reading, ReadRun
        <5>2. CASE \E b \in Buckets : Answered(b) \/ Unread(b) \/ PolicyLost(b)
          <6>1. Reading
            BY <4>1, <5>2 DEF Answered, Unread, Fails, PolicyLost, Extracting, ListRun
          <6> QED
            BY <5>2, <6>1 DEF Answered, Unread, Fails, PolicyLost, Reading, ReadRun
        <5> QED
          BY <3>3, <5>1, <5>2
      <4> QED
        BY <4>1, <4>2 DEF Writing, ListRun, Reading, ReadRun
    <3> QED
      BY <1>4, <3>1, <3>2, <3>3
  <2> QED
    BY <2>1, <2>2, <2>3, ReportStays
<1>5. CASE WriteScript \/ \E d \in IF Writing THEN run.docs ELSE {} : WriteDocument(d)
  <2>1. Writing /\ Generating
    BY <1>5 DEF WriteScript, WriteDocument, Writing, IInv, RunInv, Reading, ListRun, ReadRun
  <2>2. run'.code = run.code
    BY <1>5, <2>1 DEF WriteScript, WriteDocument, Generating, WriteRun
  <2> QED
    BY <1>5, <2>1, <2>2, ReportStays DEF WriteScript, WriteDocument, Replaced, history, Due, Readable
<1>6. CASE Complete
  BY <1>6, ReportStays DEF Complete, Writing, history, Due, Readable
<1>7. CASE ScriptStops \/ ScriptEnds \/ \E c \in IF exec = None THEN {} ELSE exec.todo : Execute(c)
  BY <1>7, ReportStays DEF ScriptStops, ScriptEnds, Execute, Writing, work, history, Due,
     Readable
<1>8. CASE \E b \in Buckets : SourceChanges(b)
  <2>1. \A b \in Buckets : Due(b)' \subseteq Due(b)
    BY <1>8 DEF SourceChanges, SteadyInv, Having, Due, Readable
  <2> QED
    BY <1>8, <2>1, ReportStays DEF SourceChanges, Writing, work
<1>9. CASE UNCHANGED vars
  BY <1>9, ReportStays DEF vars, work, history, Writing, Due, Readable
<1> QED
  BY <1>1, <1>2, <1>3, <1>4, <1>5, <1>6, <1>7, <1>8, <1>9 DEF Next

\* What follows of a report whose findings cover: the exit code is 0 only if every
\* steady setting is AUTO.
LEMMA CoveredIsEnough == SteadyInv /\ ReportInv => NothingSilentlyDropped
<1> SUFFICES ASSUME SteadyInv, ReportInv, report # None, report.via = "s3",
                    NEW b \in Buckets, NEW s \in steady[b] \cap Readable(b)
             PROVE  /\ \E f \in report.findings :
                         f.bucket = b /\ f.facet = Facet[s] /\ (f.setting = s \/ f.setting = None)
                    /\ exit = "ok" => Finding(b, Facet[s], s, "AUTO") \in report.findings
  BY DEF NothingSilentlyDropped
<1>1. \/ Finding(b, Facet[s], s, Verdict(s)) \in report.findings
      \/ Finding(b, Facet[s], None, "MANUAL") \in report.findings
  BY DEF ReportInv, Covered, Due
<1>2. Facet[s] \in Facets \ {"public"}
  BY StorageAssumption DEF SteadyInv, Having, Readable
<1>3. Verdict(s) \in {"AUTO", "MANUAL"}
  BY <1>2 DEF Verdict, Facets
<1>4. ASSUME exit = "ok"
      PROVE  Finding(b, Facet[s], s, "AUTO") \in report.findings
  BY <1>1, <1>3, <1>4 DEF ReportInv, Clean, Finding
<1>5. \E f \in report.findings :
         f.bucket = b /\ f.facet = Facet[s] /\ (f.setting = s \/ f.setting = None)
  BY <1>1 DEF Finding
<1> QED
  BY <1>4, <1>5

\* An S3 extraction that is cancelled, refused or overtaken by changes of the account still
\* reports everything a bucket had all through but public access, or a policy whose answer
\* lost its body, and exits 0 only if all of it is AUTO (s3.go describeBucket, objstore.go
\* ClassifyFor, main.go cmdStorage).
THEOREM StorageNothingDropped == Spec => []NothingSilentlyDropped
<1>1. Init => SteadyInv /\ CoveringInv /\ ReportInv
  BY StorageAssumption DEF Init, SteadyInv, CoveringInv, ReportInv, Extracting, NoSettings, Having,
     Due
<1>2. DroppedInv /\ [Next]_vars => DroppedInv'
  BY StepHolds, SteadyHolds, CoveringHolds, ReportHolds DEF DroppedInv
<1>3. DroppedInv => NothingSilentlyDropped
  BY CoveredIsEnough DEF DroppedInv
<1> QED
  BY <1>1, <1>2, <1>3, InitHolds, PTL DEF Spec, DroppedInv

-----------------------------------------------------------------------------
(* ProvisionedMatchesReport.  A complete generation is a script that puts a  *)
(* promise in force with the documents beside it; a generation at work has   *)
(* made the documents it has written so; and a script that runs with no file *)
(* replaced has put in force what it is done with.                           *)

Replacing == {"cors", "lifecycle"}

\* The commands that put a promise in force, and no others.
Planned(cmds, p) ==
  /\ \A c \in cmds :
       /\ c.bucket \in p.buckets
       /\ c.op = "versioning" => OfFacet(Settings, "versioning") \subseteq p.auto[c.bucket]
       /\ c.op = "public" => c.bucket \in p.public
  /\ \A b \in p.buckets :
       /\ [op |-> "create", bucket |-> b] \in cmds
       /\ garage => [op |-> "allow", bucket |-> b] \in cmds
       /\ \A s \in p.auto[b] :
            /\ Facet[s] \in {"versioning"} \cup Replacing
            /\ [op |-> Facet[s], bucket |-> b] \in cmds
  /\ \A b \in p.public :
       [op |-> "public", bucket |-> b] \in cmds /\ OfFacet(Settings, "public") # {}

\* Settings that are, of the facet a command replaces, those of the promise.
Says(S, c, p) == OfFacet(S, c.op) = OfFacet(p.auto[c.bucket], c.op)

DiskInv ==
  plan # None =>
    /\ Planned(script, plan)
    /\ \A c \in script : c.op \in Replacing => Says(docs[c.bucket], c, plan)

GenerationInv ==
  Writing =>
    /\ Planned(run.script, run.plan)
    /\ \A d \in run.docs : d.op \in Replacing => Says(d.content, d, run.plan)
    /\ \A c \in run.script : c.op \in Replacing =>
         \/ Says(docs[c.bucket], c, run.plan)
         \/ \E d \in run.docs : d.op = c.op /\ d.bucket = c.bucket
    /\ run.written => script = run.script /\ plan = None

\* What a command has put in force of its bucket.
InForce(c, S, p) ==
  /\ S # None
  /\ c.op \in {"versioning", "public"} => OfFacet(Settings, c.op) \subseteq S
  /\ c.op \in Replacing => OfFacet(p.auto[c.bucket], c.op) \subseteq S

NothingElse(b, S, p) ==
  S \subseteq p.auto[b] \cup IF b \in p.public THEN OfFacet(Settings, "public") ELSE {}

RunningInv ==
  exec # None /\ exec.plan # None =>
    /\ exec.plan = plan /\ exec.todo \subseteq script
    /\ \A c \in script \ exec.todo :
         InForce(c, dest[c.bucket], plan) /\ (c.op = "allow" => c.bucket \in granted)
    /\ \A b \in exec.created : dest[b] # None /\ NothingElse(b, dest[b], plan)

AppliedInv == applied # None => exec = None /\ ProvisionedMatchesReport

MatchInv == DiskInv /\ GenerationInv /\ RunningInv /\ AppliedInv

\* Replacing a facet leaves the others alone.
LEMMA ReplaceFacet ==
  ASSUME NEW S, NEW f, NEW new, NEW g
  PROVE  OfFacet(Replace(S, f, new), g) = IF g = f THEN OfFacet(new, f) ELSE OfFacet(S, g)
BY DEF OfFacet, Replace

\* The AUTO settings of a report are those of the snapshot that are called so.
LEMMA AutoOfReport ==
  ASSUME NEW snap, snap.names \subseteq Buckets, snap.has \in Having, NEW yes, NEW b \in snap.names
  PROVE  Promise(snap, ClassifyFor(snap), yes).auto[b] = {s \in snap.has[b] : Verdict(s) = "AUTO"}
<1> DEFINE auto == {s \in Settings : Finding(b, Facet[s], s, "AUTO") \in ClassifyFor(snap)}
<1>1. Promise(snap, ClassifyFor(snap), yes).auto[b] = auto
  BY DEF Promise
<1>2. snap.has[b] \subseteq Settings
  BY DEF Having
<1>3. ASSUME NEW s \in Settings, Finding(b, Facet[s], s, "AUTO") \in ClassifyFor(snap)
      PROVE  s \in snap.has[b] /\ Verdict(s) = "AUTO"
  <2>1. Facet[s] # "bucket"
    BY StorageAssumption DEF Facets
  <2>2. Finding(b, Facet[s], s, "AUTO")
          \in UNION {{Finding(a, Facet[t], t, Verdict(t)) : t \in snap.has[a]} : a \in snap.names}
    BY <1>3, <2>1 DEF ClassifyFor, Finding
  <2>3. PICK a \in snap.names : \E t \in snap.has[a] :
          Finding(b, Facet[s], s, "AUTO") = Finding(a, Facet[t], t, Verdict(t))
    BY <2>2
  <2> QED
    BY <2>3 DEF Finding
<1>4. ASSUME NEW s \in snap.has[b], Verdict(s) = "AUTO"
      PROVE  s \in auto
  <2>1. Finding(b, Facet[s], s, "AUTO")
          \in UNION {{Finding(a, Facet[t], t, Verdict(t)) : t \in snap.has[a]} : a \in snap.names}
    BY <1>4
  <2> QED
    BY <1>2, <2>1 DEF ClassifyFor
<1> QED
  BY <1>1, <1>2, <1>3, <1>4

\* The commands and documents of a snapshot put its report's promise in force.
LEMMA GeneratedAsPlanned ==
  ASSUME NEW snap, snap.names \subseteq Buckets, snap.has \in Having, NEW yes,
         NEW p, p = Promise(snap, ClassifyFor(snap), yes)
  PROVE  /\ Planned(Commands(snap, yes), p)
         /\ \A d \in Documents(snap, yes) : d.op \in Replacing => Says(d.content, d, p)
         /\ \A c \in Commands(snap, yes) : c.op \in Replacing =>
              \E d \in Documents(snap, yes) : d.op = c.op /\ d.bucket = c.bucket
<1>1. /\ p.buckets = snap.names
      /\ p.public = {b \in snap.names \cap yes : OfFacet(snap.has[b], "public") # {}}
  BY DEF Promise
<1>2. \A b \in snap.names : p.auto[b] = {s \in snap.has[b] : Verdict(s) = "AUTO"}
  BY AutoOfReport
<1>3. \A b \in snap.names : snap.has[b] \subseteq Settings
  BY DEF Having
<1>4. \A s \in Settings : Facet[s] \in Facets
  BY StorageAssumption
<1>5. \A c : c \in Commands(snap, yes) =>
        c.bucket \in snap.names /\ c.op \in Ops /\ Needs(c.op, snap.has[c.bucket], c.bucket \in yes)
  BY DEF Commands
<1>6. ASSUME NEW op \in Ops, NEW b \in snap.names, Needs(op, snap.has[b], b \in yes)
      PROVE  [op |-> op, bucket |-> b] \in Commands(snap, yes)
  BY <1>6 DEF Commands
<1>7. ASSUME NEW c \in Commands(snap, yes)
      PROVE  /\ c.bucket \in p.buckets
             /\ c.op = "versioning" => OfFacet(Settings, "versioning") \subseteq p.auto[c.bucket]
             /\ c.op = "public" => c.bucket \in p.public
  <2>1. CASE c.op = "versioning"
    <3>1. ~ garage /\ OfFacet(snap.has[c.bucket], "versioning") # {}
      BY <1>5, <2>1 DEF Needs
    <3>2. PICK s \in snap.has[c.bucket] : Facet[s] = "versioning"
      BY <3>1 DEF OfFacet
    <3>3. \A t \in OfFacet(Settings, "versioning") : t = s
      BY <1>3, <1>5, <3>2, StorageAssumption DEF OfFacet
    <3>4. Verdict(s) = "AUTO"
      BY <3>1, <3>2 DEF Verdict
    <3> QED
      BY <1>1, <1>2, <1>5, <2>1, <3>2, <3>3, <3>4
  <2>2. CASE c.op = "public"
    BY <1>1, <1>5, <2>2 DEF Needs
  <2> QED
    BY <1>1, <1>5, <2>1, <2>2
<1>8. \A b \in snap.names : \A op \in Replacing :
        OfFacet(Document(snap.has[b], op), op) = OfFacet(p.auto[b], op)
  <2> SUFFICES ASSUME NEW b \in snap.names, NEW op \in Replacing
               PROVE  OfFacet(Document(snap.has[b], op), op) = OfFacet(p.auto[b], op)
    OBVIOUS
  <2>1. CASE op = "cors"
    BY <1>2, <2>1 DEF Document, OfFacet, Verdict
  <2>2. CASE op = "lifecycle"
    BY <1>2, <2>2 DEF Document, ExpiryRules, OfFacet, Verdict
  <2> QED
    BY <2>1, <2>2 DEF Replacing
<1>9. ASSUME NEW b \in p.buckets
      PROVE  /\ [op |-> "create", bucket |-> b] \in Commands(snap, yes)
             /\ garage => [op |-> "allow", bucket |-> b] \in Commands(snap, yes)
             /\ \A s \in p.auto[b] :
                  /\ Facet[s] \in {"versioning"} \cup Replacing
                  /\ [op |-> Facet[s], bucket |-> b] \in Commands(snap, yes)
  <2>1. [op |-> "create", bucket |-> b] \in Commands(snap, yes)
    BY <1>1, <1>6 DEF Ops, Needs
  <2>2. garage => [op |-> "allow", bucket |-> b] \in Commands(snap, yes)
    BY <1>1, <1>6 DEF Ops, Needs
  <2>3. ASSUME NEW s \in p.auto[b]
        PROVE  /\ Facet[s] \in {"versioning"} \cup Replacing
               /\ [op |-> Facet[s], bucket |-> b] \in Commands(snap, yes)
    <3>1. s \in snap.has[b] /\ Verdict(s) = "AUTO" /\ Facet[s] \in Facets
      BY <1>1, <1>2, <1>3, <1>4
    <3>2. /\ Facet[s] \in {"versioning"} \cup Replacing
          /\ Facet[s] = "versioning" => ~ garage
          /\ Facet[s] = "lifecycle" => s \in Expiring \ Tiering
      BY <3>1 DEF Verdict, Facets, Replacing
    <3>3. Needs(Facet[s], snap.has[b], b \in yes)
      <4>1. CASE Facet[s] = "versioning"
        BY <3>1, <3>2, <4>1 DEF Needs, OfFacet
      <4>2. CASE Facet[s] = "cors"
        BY <3>1, <4>2 DEF Needs, Document, OfFacet
      <4>3. CASE Facet[s] = "lifecycle"
        BY <3>1, <3>2, <4>3 DEF Needs, Document, ExpiryRules
      <4> QED
        BY <3>2, <4>1, <4>2, <4>3 DEF Replacing
    <3>4. Facet[s] \in Ops
      BY <3>2 DEF Replacing, Ops
    <3> QED
      BY <1>1, <1>6, <3>2, <3>3, <3>4
  <2> QED
    BY <2>1, <2>2, <2>3
<1>10. ASSUME NEW b \in p.public
       PROVE  [op |-> "public", bucket |-> b] \in Commands(snap, yes) /\ OfFacet(Settings, "public") # {}
  <2>1. b \in snap.names /\ b \in yes /\ OfFacet(snap.has[b], "public") # {}
    BY <1>1
  <2>2. [op |-> "public", bucket |-> b] \in Commands(snap, yes)
    BY <1>6, <2>1 DEF Ops, Needs
  <2>3. OfFacet(snap.has[b], "public") \subseteq OfFacet(Settings, "public")
    BY <1>3, <2>1 DEF OfFacet
  <2> QED
    BY <2>1, <2>2, <2>3
<1>11. ASSUME NEW d \in Documents(snap, yes), d.op \in Replacing
       PROVE  Says(d.content, d, p)
  <2>1. PICK c \in Commands(snap, yes) :
          d = [op |-> c.op, bucket |-> c.bucket, content |-> Document(snap.has[c.bucket], c.op)]
    BY DEF Documents
  <2>2. /\ d.op = c.op /\ d.bucket = c.bucket /\ d.bucket \in snap.names
        /\ d.content = Document(snap.has[d.bucket], d.op)
    BY <1>5, <2>1
  <2> QED
    BY <1>8, <1>11, <2>2 DEF Says
<1>12. ASSUME NEW c \in Commands(snap, yes), c.op \in Replacing
       PROVE  \E d \in Documents(snap, yes) : d.op = c.op /\ d.bucket = c.bucket
  <2>1. HasDocument(c)
    BY <1>12 DEF HasDocument, Replacing
  <2>2. [op |-> c.op, bucket |-> c.bucket, content |-> Document(snap.has[c.bucket], c.op)]
          \in Documents(snap, yes)
    BY <2>1 DEF Documents
  <2> QED
    BY <2>2
<1> QED
  BY <1>7, <1>9, <1>10, <1>11, <1>12 DEF Planned

\* What the steps that touch neither the files nor the destination keep.
LEMMA MatchStays ==
  ASSUME MatchInv, UNCHANGED <<garage, files, exec, dest, granted, applied>>,
         Writing' => GenerationInv'
  PROVE  MatchInv'
<1>1. DiskInv'
  BY DEF MatchInv, DiskInv, Planned, files
<1>2. RunningInv'
  BY DEF MatchInv, RunningInv, files
<1>3. AppliedInv'
  BY DEF MatchInv, AppliedInv, ProvisionedMatchesReport
<1> QED
  BY <1>1, <1>2, <1>3 DEF MatchInv, GenerationInv

\* A report, and the generation it may start.
LEMMA PresentMatches ==
  ASSUME NEW snap, NEW via, snap.names \subseteq Buckets, snap.has \in Having,
         Present(snap, via), garage' = garage
  PROVE  GenerationInv'
<1>1. CASE run' = None
  BY <1>1 DEF GenerationInv, Writing
<1>2. ASSUME NEW yes \in Answers,
             run' = [phase |-> "write", script |-> Commands(snap, yes), written |-> FALSE,
                     docs |-> Documents(snap, yes), code |-> ExitCode(ClassifyFor(snap)),
                     plan |-> Promise(snap, ClassifyFor(snap), yes)]
      PROVE  GenerationInv'
  <2>1. PICK p : p = Promise(snap, ClassifyFor(snap), yes)
    OBVIOUS
  <2>2. /\ run'.script = Commands(snap, yes) /\ run'.docs = Documents(snap, yes)
        /\ run'.plan = p /\ run'.written = FALSE
    BY <1>2, <2>1
  <2>3. PICK cmds : cmds = Commands(snap, yes)
    OBVIOUS
  <2>4. PICK D : D = Documents(snap, yes)
    OBVIOUS
  <2>5. /\ Planned(cmds, p)
        /\ \A d \in D : d.op \in Replacing => Says(d.content, d, p)
        /\ \A c \in cmds : c.op \in Replacing => \E d \in D : d.op = c.op /\ d.bucket = c.bucket
    BY <2>1, <2>3, <2>4, GeneratedAsPlanned
  <2>6. Planned(cmds, p)'
    BY <2>5 DEF Planned
  <2> QED
    BY <2>2, <2>3, <2>4, <2>5, <2>6 DEF GenerationInv
<1> QED
  BY <1>1, <1>2 DEF Present

\* The steps of the storage command before its generation.
LEMMA ReportingMatches ==
  ASSUME IInv, MatchInv,
         \/ Load \/ Listing \/ ListingFails \/ Deliver \/ Abort \/ Stop
         \/ \E via \in {"s3", "r2"} : Begin(via)
         \/ \E b \in Buckets : Spawn(b) \/ Answered(b) \/ Unread(b) \/ PolicyLost(b)
  PROVE  MatchInv'
<1>1. UNCHANGED <<garage, files, exec, dest, granted, applied>>
  BY DEF Load, Listing, ListingFails, Deliver, Abort, Stop, Begin, Spawn, Answered, Unread, Fails,
     PolicyLost, Elsewhere, bucketsOfDest
<1>2. CASE Load
  <2>1. CASE run' = None
    BY <1>1, <2>1, MatchStays DEF Writing
  <2>2. ASSUME NEW old \in BOOLEAN,
               Present([names |-> Listed, old |-> old, gaps |-> {},
                        has |-> [b \in Buckets |-> IF source[b] = None THEN {} ELSE source[b]]], "file")
        PROVE  MatchInv'
    <3>1. PICK snap : snap = [names |-> Listed, old |-> old, gaps |-> {},
                        has |-> [b \in Buckets |-> IF source[b] = None THEN {} ELSE source[b]]]
      OBVIOUS
    <3>2. snap.names \subseteq Buckets /\ snap.has \in Having
      BY <3>1 DEF Listed, IInv, SourceInv, Having
    <3>3. GenerationInv'
      BY <1>1, <2>2, <3>1, <3>2, PresentMatches
    <3> QED
      BY <1>1, <3>3, MatchStays
  <2> QED
    BY <1>2, <2>1, <2>2 DEF Load
<1>3. CASE Deliver
  <2>1. Reading
    BY <1>3 DEF Deliver, Extracting, IInv, RunInv, Generating, ListRun, WriteRun
  <2>2. PICK snap : snap = [names |-> run.names, has |-> run.got, old |-> FALSE,
                            gaps |-> {g \in run.names \X Facets : g[2] \in run.gaps[g[1]]}]
    OBVIOUS
  <2>3. snap.names \subseteq Buckets /\ snap.has \in Having
    BY <2>1, <2>2 DEF Reading, ReadRun
  <2>4. Present(snap, run.via)
    BY <1>3, <2>2 DEF Deliver
  <2>5. GenerationInv'
    BY <1>1, <2>3, <2>4, PresentMatches
  <2> QED
    BY <1>1, <2>5, MatchStays
<1>4. CASE Listing \/ ListingFails \/ Abort \/ \E via \in {"s3", "r2"} : Begin(via)
  <2>1. ~ Writing'
    BY <1>4 DEF Listing, ListingFails, Abort, Begin, Writing
  <2> QED
    BY <1>1, <2>1, MatchStays
<1>5. CASE Stop \/ \E b \in Buckets : Spawn(b) \/ Answered(b) \/ Unread(b) \/ PolicyLost(b)
  <2>1. run \in ListRun \/ Reading
    BY <1>5 DEF Stop, Spawn, Answered, Unread, Fails, PolicyLost, Extracting, Writing, IInv, RunInv,
       Generating, WriteRun
  <2>2. run'.phase = run.phase
    <3>1. CASE Stop \/ \E b \in Buckets : Spawn(b)
      BY <2>1, <3>1 DEF Stop, Spawn, ListRun, Reading, ReadRun
    <3>2. CASE \E b \in Buckets : Answered(b) \/ Unread(b) \/ PolicyLost(b)
      <4>1. Reading
        BY <2>1, <3>2 DEF Answered, Unread, Fails, PolicyLost, Extracting, ListRun
      <4> QED
        BY <3>2, <4>1 DEF Answered, Unread, Fails, PolicyLost, Reading, ReadRun
    <3> QED
      BY <1>5, <3>1, <3>2
  <2>3. ~ Writing'
    BY <2>1, <2>2 DEF Writing, ListRun, Reading, ReadRun
  <2> QED
    BY <1>1, <2>3, MatchStays
<1> QED
  BY <1>2, <1>3, <1>4, <1>5

\* A file that is replaced ends what the disk and a running script promised.
LEMMA ReplacedMatches ==
  ASSUME IInv, MatchInv, Replaced, GenerationInv'
  PROVE  MatchInv'
<1>1. DiskInv'
  BY DEF Replaced, DiskInv
<1>2. RunningInv'
  BY DEF Replaced, RunningInv, IInv, ExecInv, Exec
<1>3. AppliedInv'
  BY DEF Replaced, MatchInv, AppliedInv, ProvisionedMatchesReport
<1> QED
  BY <1>1, <1>2, <1>3 DEF MatchInv

\* The artifacts one by one: a document says what the promise does of its facet, and
\* leaves the bucket's other facets as they were.
LEMMA WritesMatch ==
  ASSUME IInv, MatchInv, Writing, WriteScript \/ (\E d \in run.docs : WriteDocument(d)) \/ Complete
  PROVE  MatchInv'
<1>1. Generating /\ GenerationInv
  BY DEF Writing, IInv, RunInv, Reading, ListRun, ReadRun, MatchInv
<1>2. Planned(run.script, run.plan)
  BY <1>1 DEF GenerationInv
<1>3. CASE WriteScript
  <2>1. /\ Replaced /\ script' = run.script /\ plan' = None /\ docs' = docs /\ garage' = garage
        /\ run'.script = run.script /\ run'.docs = run.docs /\ run'.plan = run.plan
    BY <1>1, <1>3 DEF WriteScript, Replaced, Generating, WriteRun
  <2>2. Planned(run.script, run.plan)'
    BY <1>2, <2>1 DEF Planned
  <2>3. GenerationInv'
    BY <1>1, <2>1, <2>2 DEF GenerationInv
  <2> QED
    BY <2>1, <2>3, ReplacedMatches
<1>4. ASSUME NEW d \in run.docs, WriteDocument(d)
      PROVE  MatchInv'
  <2>1. /\ Replaced /\ script' = script /\ plan' = None /\ garage' = garage /\ run.written
        /\ docs' = [docs EXCEPT ![d.bucket] = Replace(@, d.op, d.content)]
        /\ run'.script = run.script /\ run'.docs = run.docs \ {d} /\ run'.plan = run.plan
    BY <1>1, <1>4 DEF WriteDocument, Replaced, Generating, WriteRun
  <2>2. Planned(run.script, run.plan)'
    BY <1>2, <2>1 DEF Planned
  <2>3. d.bucket \in Buckets /\ docs \in Having
    BY <1>1 DEF Generating, WriteRun, Doc, IInv, FilesInv
  <2>4. ASSUME NEW c \in run.script, c.op \in Replacing
        PROVE  \/ Says(docs'[c.bucket], c, run.plan)
               \/ \E e \in run.docs \ {d} : e.op = c.op /\ e.bucket = c.bucket
    <3>1. c.bucket \in Buckets
      BY <1>1 DEF Generating, Founded, Cmd
    <3>2. CASE c.bucket = d.bucket /\ c.op = d.op
      <4>1. OfFacet(docs'[c.bucket], c.op) = OfFacet(d.content, d.op)
        BY <2>1, <2>3, <3>1, <3>2, ReplaceFacet DEF Having
      <4> QED
        BY <1>1, <2>4, <3>2, <4>1 DEF GenerationInv, Says
    <3>3. CASE c.bucket # d.bucket \/ c.op # d.op
      <4>1. OfFacet(docs'[c.bucket], c.op) = OfFacet(docs[c.bucket], c.op)
        BY <2>1, <2>3, <3>1, <3>3, ReplaceFacet DEF Having
      <4> QED
        BY <1>1, <2>4, <3>3, <4>1 DEF GenerationInv, Says
    <3> QED
      BY <3>2, <3>3
  <2>5. run.written => script' = run.script
    BY <1>1, <2>1 DEF GenerationInv
  <2>6. GenerationInv'
    BY <1>1, <2>1, <2>2, <2>4, <2>5 DEF GenerationInv
  <2> QED
    BY <2>1, <2>6, ReplacedMatches
<1>5. CASE Complete
  <2>1. /\ run.written /\ run.docs = {} /\ run' = None /\ plan' = run.plan
        /\ UNCHANGED <<garage, script, docs, exec, dest, granted, applied>>
    BY <1>5 DEF Complete, bucketsOfDest
  <2>2. plan = None /\ script = run.script
    BY <1>1, <2>1 DEF GenerationInv
  <2>3. DiskInv'
    <3>1. Planned(script, plan)'
      BY <1>2, <2>1, <2>2 DEF Planned
    <3>2. \A c \in script : c.op \in Replacing => Says(docs[c.bucket], c, run.plan)
      BY <1>1, <2>1, <2>2 DEF GenerationInv
    <3> QED
      BY <2>1, <3>1, <3>2 DEF DiskInv
  <2>4. RunningInv'
    BY <2>1, <2>2 DEF MatchInv, RunningInv
  <2>5. GenerationInv' /\ AppliedInv'
    BY <2>1 DEF MatchInv, GenerationInv, Writing, AppliedInv, ProvisionedMatchesReport
  <2> QED
    BY <2>3, <2>4, <2>5 DEF MatchInv
<1> QED
  BY <1>3, <1>4, <1>5

\* What a command of a plan leaves of its bucket: what it is for, what others have put in
\* force of other facets, and nothing the promise has not.
LEMMA PutMatches ==
  ASSUME NEW c \in Cmd, NEW p, NEW S \in SUBSET Settings, NEW doc \in SUBSET Settings,
         c.op = "versioning" => OfFacet(Settings, "versioning") \subseteq p.auto[c.bucket],
         c.op = "public" => c.bucket \in p.public,
         c.op \in Replacing => Says(doc, c, p)
  PROVE  /\ Put(c.op, S, doc) \in SUBSET Settings
         /\ InForce(c, Put(c.op, S, doc), p)
         /\ \A d \in Cmd : d.bucket = c.bucket /\ d.op # c.op /\ InForce(d, S, p) =>
              InForce(d, Put(c.op, S, doc), p)
         /\ NothingElse(c.bucket, S, p) => NothingElse(c.bucket, Put(c.op, S, doc), p)
<1>1. CASE c.op \in Replacing
  <2>1. Put(c.op, S, doc) = Replace(S, c.op, doc)
    BY <1>1 DEF Put, Replacing
  <2>2. Replace(S, c.op, doc) \in SUBSET Settings
    BY DEF Replace, OfFacet
  <2>3. OfFacet(Replace(S, c.op, doc), c.op) = OfFacet(p.auto[c.bucket], c.op)
    BY <1>1, ReplaceFacet DEF Says
  <2>4. InForce(c, Replace(S, c.op, doc), p)
    BY <1>1, <2>2, <2>3, StorageAssumption DEF InForce, OfFacet, Replacing
  <2>5. ASSUME NEW d \in Cmd, d.bucket = c.bucket, d.op # c.op, InForce(d, S, p)
        PROVE  InForce(d, Replace(S, c.op, doc), p)
    BY <2>2, <2>5, StorageAssumption DEF InForce, Replace, OfFacet
  <2>6. NothingElse(c.bucket, S, p) => NothingElse(c.bucket, Replace(S, c.op, doc), p)
    BY <2>3 DEF NothingElse, Replace, OfFacet
  <2> QED
    BY <2>1, <2>2, <2>4, <2>5, <2>6
<1>2. CASE c.op \in {"versioning", "public"}
  <2>1. Put(c.op, S, doc) = S \cup OfFacet(Settings, c.op)
    BY <1>2 DEF Put
  <2>2. S \cup OfFacet(Settings, c.op) \in SUBSET Settings
    BY DEF OfFacet
  <2>3. InForce(c, S \cup OfFacet(Settings, c.op), p)
    BY <1>2, <2>2, StorageAssumption DEF InForce, Replacing
  <2>4. ASSUME NEW d \in Cmd, InForce(d, S, p)
        PROVE  InForce(d, S \cup OfFacet(Settings, c.op), p)
    BY <2>2, <2>4, StorageAssumption DEF InForce
  <2>5. NothingElse(c.bucket, S, p) => NothingElse(c.bucket, S \cup OfFacet(Settings, c.op), p)
    BY <1>2 DEF NothingElse
  <2> QED
    BY <2>1, <2>2, <2>3, <2>4, <2>5
<1>3. CASE c.op \in {"create", "allow"}
  <2>1. Put(c.op, S, doc) = S
    BY <1>3 DEF Put
  <2>2. InForce(c, S, p)
    BY <1>3, StorageAssumption DEF InForce, Replacing
  <2> QED
    BY <2>1, <2>2
<1> QED
  BY <1>1, <1>2, <1>3 DEF Cmd, Ops, Replacing

\* One command of the script.
LEMMA ExecuteMatches ==
  ASSUME IInv, MatchInv, exec # None, NEW c \in exec.todo, Execute(c)
  PROVE  MatchInv'
<1>1. /\ exec \in Exec /\ c \in Cmd /\ c.bucket \in Buckets
      /\ dest \in [Buckets -> (SUBSET Settings) \cup {None}]
      /\ docs \in Having /\ \A d \in script : d \in Cmd
  BY DEF IInv, ExecInv, DestInv, FilesInv, Founded, Cmd
<1>2. UNCHANGED <<garage, run, script, docs, plan, applied>>
  BY DEF Execute, work, files
<1>3. DiskInv' /\ GenerationInv'
  BY <1>2 DEF MatchInv, DiskInv, GenerationInv, Planned, Writing
<1>4. AppliedInv'
  BY <1>2 DEF MatchInv, AppliedInv
<1>5. PICK S : S = IF dest[c.bucket] = None THEN {} ELSE dest[c.bucket]
  OBVIOUS
<1>6. PICK T : T = Put(c.op, S, docs[c.bucket])
  OBVIOUS
<1>7. /\ \A b \in Buckets : dest'[b] = IF b = c.bucket THEN T ELSE dest[b]
      /\ granted' = IF c.op = "allow" THEN granted \cup {c.bucket} ELSE granted
      /\ exec' = [exec EXCEPT !.todo = @ \ {c},
                    !.created = IF dest[c.bucket] = None THEN @ \cup {c.bucket} ELSE @]
  BY <1>1, <1>5, <1>6 DEF Execute
<1>8. /\ exec'.plan = exec.plan /\ exec'.todo = exec.todo \ {c}
      /\ exec'.created = IF dest[c.bucket] = None THEN exec.created \cup {c.bucket} ELSE exec.created
  BY <1>1, <1>7 DEF Exec
<1>9. ASSUME exec.plan # None
      PROVE  /\ exec.plan = plan /\ exec'.todo \subseteq script
             /\ \A d \in script \ exec'.todo :
                  InForce(d, dest'[d.bucket], plan) /\ (d.op = "allow" => d.bucket \in granted')
             /\ \A b \in exec'.created : dest'[b] # None /\ NothingElse(b, dest'[b], plan)
  <2>1. /\ exec.plan = plan /\ exec.todo \subseteq script
        /\ \A d \in script \ exec.todo :
             InForce(d, dest[d.bucket], plan) /\ (d.op = "allow" => d.bucket \in granted)
        /\ \A b \in exec.created : dest[b] # None /\ NothingElse(b, dest[b], plan)
    BY <1>9 DEF MatchInv, RunningInv
  <2>2. /\ c.op = "versioning" => OfFacet(Settings, "versioning") \subseteq plan.auto[c.bucket]
        /\ c.op = "public" => c.bucket \in plan.public
        /\ c.op \in Replacing => Says(docs[c.bucket], c, plan)
    BY <1>9, <2>1 DEF MatchInv, DiskInv, Planned
  <2>3. S \in SUBSET Settings /\ docs[c.bucket] \in SUBSET Settings
    BY <1>1, <1>5 DEF Having
  <2>4. /\ T \in SUBSET Settings /\ InForce(c, T, plan)
        /\ \A d \in Cmd : d.bucket = c.bucket /\ d.op # c.op /\ InForce(d, S, plan) => InForce(d, T, plan)
        /\ NothingElse(c.bucket, S, plan) => NothingElse(c.bucket, T, plan)
    BY <1>1, <1>6, <2>2, <2>3, PutMatches
  <2>5. ASSUME NEW d \in script \ exec'.todo
        PROVE  InForce(d, dest'[d.bucket], plan) /\ (d.op = "allow" => d.bucket \in granted')
    <3>1. d \in Cmd /\ d.bucket \in Buckets
      BY <1>1 DEF Cmd
    <3>2. CASE d = c
      BY <1>1, <1>7, <2>4, <3>2
    <3>3. CASE d # c
      <4>1. d \in script \ exec.todo
        BY <1>8, <3>3
      <4>2. InForce(d, dest[d.bucket], plan) /\ (d.op = "allow" => d.bucket \in granted)
        BY <2>1, <4>1
      <4>3. CASE d.bucket # c.bucket
        BY <1>7, <3>1, <4>2, <4>3
      <4>4. CASE d.bucket = c.bucket
        <5>1. d.op # c.op
          BY <1>1, <3>1, <3>3, <4>4 DEF Cmd
        <5>2. S = dest[d.bucket]
          BY <1>5, <4>2, <4>4 DEF InForce
        <5> QED
          BY <1>7, <2>4, <3>1, <4>2, <4>4, <5>1, <5>2
      <4> QED
        BY <4>3, <4>4
    <3> QED
      BY <3>2, <3>3
  <2>6. ASSUME NEW b \in exec'.created
        PROVE  dest'[b] # None /\ NothingElse(b, dest'[b], plan)
    <3>1. b \in Buckets
      BY <1>1, <1>8 DEF Exec
    <3>2. CASE b # c.bucket
      BY <1>7, <1>8, <2>1, <3>1, <3>2
    <3>3. CASE b = c.bucket
      <4>1. T # None
        BY <2>4, StorageAssumption
      <4>2. NothingElse(c.bucket, S, plan)
        BY <1>5, <1>8, <2>1, <3>3 DEF NothingElse
      <4> QED
        BY <1>7, <2>4, <3>1, <3>3, <4>1, <4>2
    <3> QED
      BY <3>2, <3>3
  <2> QED
    BY <1>8, <2>1, <2>5, <2>6
<1>10. RunningInv'
  BY <1>2, <1>8, <1>9 DEF RunningInv
<1> QED
  BY <1>3, <1>4, <1>10 DEF MatchInv

\* A script that has done every command of its plan has put the promise in force.
LEMMA EndMatches ==
  ASSUME IInv, MatchInv, exec # None, exec.plan # None, exec.todo = {}
  PROVE  /\ \A b \in exec.plan.buckets :
              /\ dest[b] # None /\ exec.plan.auto[b] \subseteq dest[b]
              /\ garage => b \in granted
         /\ \A b \in exec.plan.public : OfFacet(dest[b], "public") # {}
         /\ \A b \in exec.created : NothingElse(b, dest[b], exec.plan)
<1>1. /\ exec.plan = plan
      /\ \A c \in script :
           InForce(c, dest[c.bucket], plan) /\ (c.op = "allow" => c.bucket \in granted)
      /\ \A b \in exec.created : NothingElse(b, dest[b], plan)
  BY DEF MatchInv, RunningInv
<1>2. Planned(script, plan)
  BY <1>1 DEF MatchInv, DiskInv
<1>3. ASSUME NEW op, NEW b, [op |-> op, bucket |-> b] \in script
      PROVE  InForce([op |-> op, bucket |-> b], dest[b], plan) /\ (op = "allow" => b \in granted)
  <2>1. PICK c \in script : c = [op |-> op, bucket |-> b]
    BY <1>3
  <2> QED
    BY <1>1, <2>1
<1>4. ASSUME NEW b \in plan.buckets
      PROVE  dest[b] # None /\ plan.auto[b] \subseteq dest[b] /\ (garage => b \in granted)
  <2>1. dest[b] # None
    BY <1>2, <1>3 DEF Planned, InForce
  <2>2. garage => b \in granted
    BY <1>2, <1>3 DEF Planned
  <2>3. ASSUME NEW s \in plan.auto[b]
        PROVE  s \in dest[b]
    <3>1. Facet[s] \in {"versioning"} \cup Replacing /\ [op |-> Facet[s], bucket |-> b] \in script
      BY <1>2 DEF Planned
    <3>2. InForce([op |-> Facet[s], bucket |-> b], dest[b], plan)
      BY <1>3, <3>1
    <3>3. CASE Facet[s] \in Replacing
      <4>1. OfFacet(plan.auto[b], Facet[s]) \subseteq dest[b]
        BY <3>2, <3>3 DEF InForce
      <4> QED
        BY <4>1 DEF OfFacet
    <3>4. CASE Facet[s] = "versioning"
      <4>1. OfFacet(Settings, "versioning") \subseteq dest[b]
        BY <3>2, <3>4 DEF InForce
      <4>2. plan \in Promises /\ b \in Buckets
        BY <1>1 DEF IInv, FilesInv, Promises
      <4>3. s \in Settings
        BY <1>1, <4>2 DEF Promises
      <4> QED
        BY <3>4, <4>1, <4>3 DEF OfFacet
    <3> QED
      BY <3>1, <3>3, <3>4
  <2> QED
    BY <2>1, <2>2, <2>3
<1>5. ASSUME NEW b \in plan.public
      PROVE  OfFacet(dest[b], "public") # {}
  <2>1. [op |-> "public", bucket |-> b] \in script /\ OfFacet(Settings, "public") # {}
    BY <1>2 DEF Planned
  <2>2. OfFacet(Settings, "public") \subseteq dest[b]
    BY <1>3, <2>1 DEF InForce
  <2> QED
    BY <2>1, <2>2 DEF OfFacet
<1> QED
  BY <1>1, <1>4, <1>5

\* The start and the ends of a script.
LEMMA ScriptMatches ==
  ASSUME IInv, MatchInv, StartScript \/ ScriptStops \/ ScriptEnds
  PROVE  MatchInv'
<1>1. UNCHANGED <<garage, run, script, docs, plan, dest, granted>>
  BY DEF StartScript, ScriptStops, ScriptEnds, work, files
<1>2. DiskInv' /\ GenerationInv'
  BY <1>1 DEF MatchInv, DiskInv, GenerationInv, Planned, Writing
<1>3. CASE StartScript
  <2>1. exec' = [todo |-> script, plan |-> plan, created |-> {}] /\ applied' = None
    BY <1>3 DEF StartScript
  <2>2. RunningInv'
    BY <1>1, <2>1 DEF RunningInv
  <2>3. AppliedInv'
    BY <2>1 DEF AppliedInv
  <2> QED
    BY <1>2, <2>2, <2>3 DEF MatchInv
<1>4. CASE ScriptStops
  <2>1. RunningInv' /\ AppliedInv'
    BY <1>1, <1>4 DEF ScriptStops, MatchInv, RunningInv, AppliedInv, ProvisionedMatchesReport
  <2> QED
    BY <1>2, <2>1 DEF MatchInv
<1>5. CASE ScriptEnds
  <2>1. /\ exec' = None /\ exec # None /\ exec.todo = {}
        /\ applied' = IF exec.plan = None THEN None
                      ELSE [plan |-> exec.plan, created |-> exec.created]
    BY <1>5 DEF ScriptEnds
  <2>2. RunningInv'
    BY <2>1 DEF RunningInv
  <2>3. AppliedInv'
    <3>1. CASE exec.plan = None
      BY <2>1, <3>1 DEF AppliedInv
    <3>2. CASE exec.plan # None
      <4>1. applied'.plan = exec.plan /\ applied'.created = exec.created
        BY <2>1, <3>2
      <4>2. ProvisionedMatchesReport'
        BY <1>1, <2>1, <3>2, <4>1, EndMatches DEF ProvisionedMatchesReport, NothingElse
      <4> QED
        BY <2>1, <4>2 DEF AppliedInv
    <3> QED
      BY <3>1, <3>2
  <2> QED
    BY <1>2, <2>2, <2>3 DEF MatchInv
<1> QED
  BY <1>3, <1>4, <1>5

\* Disk, generation, running script and destination stay matched.
LEMMA MatchHolds == IInv /\ MatchInv /\ [Next]_vars => MatchInv'
<1> SUFFICES ASSUME IInv, MatchInv, [Next]_vars PROVE MatchInv'
  OBVIOUS
<1>1. CASE \/ Load \/ Listing \/ ListingFails \/ Deliver \/ Abort \/ Stop
           \/ \E via \in {"s3", "r2"} : Begin(via)
           \/ \E b \in Buckets : Spawn(b) \/ Answered(b) \/ Unread(b) \/ PolicyLost(b)
  BY <1>1, ReportingMatches
<1>2. CASE WriteScript \/ Complete \/ \E d \in IF Writing THEN run.docs ELSE {} : WriteDocument(d)
  BY <1>2, WritesMatch DEF WriteScript, Complete
<1>3. CASE StartScript \/ ScriptStops \/ ScriptEnds
  BY <1>3, ScriptMatches
<1>4. CASE \E c \in IF exec = None THEN {} ELSE exec.todo : Execute(c)
  BY <1>4, ExecuteMatches
<1>5. CASE (\E b \in Buckets : SourceChanges(b)) \/ UNCHANGED vars
  <2>1. UNCHANGED <<garage, run, files, exec, dest, granted, applied>>
    BY <1>5 DEF SourceChanges, vars, work, bucketsOfDest
  <2>2. GenerationInv'
    BY <2>1 DEF MatchInv, GenerationInv, Writing, Planned, files
  <2> QED
    BY <2>1, <2>2, MatchStays
<1> QED
  BY <1>1, <1>2, <1>3, <1>4, <1>5 DEF Next

\* The script of a complete generation that runs to its end puts every AUTO setting of its
\* report in force, and gives a bucket it creates nothing else, whatever scripts and
\* generations ran before it (objstore.go ClassifyFor and Generate).
THEOREM StorageProvisioned == Spec => []ProvisionedMatchesReport
<1>1. Init => MatchInv
  BY DEF Init, MatchInv, DiskInv, GenerationInv, Writing, RunningInv, AppliedInv
<1>2. IInv /\ [Next]_vars => IInv'
  BY StepHolds
<1>3. IInv /\ MatchInv /\ [Next]_vars => MatchInv'
  BY MatchHolds
<1>4. MatchInv => ProvisionedMatchesReport
  BY DEF MatchInv, AppliedInv, ProvisionedMatchesReport
<1> QED
  BY <1>1, <1>2, <1>3, <1>4, InitHolds, PTL DEF Spec
=============================================================================
