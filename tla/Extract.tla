------------------------------- MODULE Extract -------------------------------
(***************************************************************************)
(* flareover extract, call by call: a zone is read surface by surface,     *)
(* listings page by page, each request up to MaxAttempts times, while the  *)
(* zone changes.  A surface that cannot be read becomes a gap, except the  *)
(* zone itself and its DNS records, which end the run.  Ctrl-C cancels the *)
(* requests, not the run: what is left to read then turns into gaps.       *)
(*                                                                         *)
(* A ruleset is listed by one read and its rules come with another, named  *)
(* here by the ruleset.  The policies of Access applications are left out: *)
(* only a number depends on them.                                          *)
(***************************************************************************)
EXTENDS Naturals, SequencesExt

CONSTANTS
  Items,        \* what a zone can hold
  Home,         \* Home[i]: the listing an item is on
  Listed,       \* Listed[s]: what is on each listing at first
  Reads,        \* the reads of an extraction that need no account, in order
  AccountReads, \* those skipped without an account id, which come last
  PageSize, MaxAttempts,
  MaxChanges,   \* bound: changes of the zone
  MaxRuns,      \* bound: extractions
  None

Fatal == {"zone", "dns"}
Paged == {"dns", "ipaccess", "ua"}
Account == ToSet(AccountReads)
Listings == ToSet(Reads) \cup Account
Details == {"dnssec", "emailrules"}   \* read because of what another read found
Surfaces == Listings \cup Details

\* A run at work, and what it delivers.
Working ==
  [todo : Seq(Surfaces \cup Items), page : Nat \ {0}, pages : Seq(Items),
   attempt : 1 .. MaxAttempts, waits : BOOLEAN, elements : SUBSET Items,
   gaps : SUBSET (Surfaces \cup Items \cup {"account"})]
Snapshots == [elements : SUBSET Items, gaps : SUBSET (Surfaces \cup Items \cup {"account"})]

NoRepeats(seq) == \A m, n \in 1 .. Len(seq) : seq[m] = seq[n] => m = n

\* An item is on one listing, once; no read is made twice.
ASSUME ExtractAssumption ==
  /\ Reads \in Seq(STRING) /\ AccountReads \in Seq(STRING)
  /\ NoRepeats(Reads \o AccountReads) /\ Listings \cap (Details \cup {"account"}) = {}
  /\ Account \cap (Fatal \cup {"rulesets"}) = {}
  /\ Items \cap (Surfaces \cup Fatal \cup Paged \cup {"settings", "rulesets", "email", "account"}) = {}
  /\ Home \in [Items -> Listings] /\ Listed \in [Listings -> Seq(Items)]
  /\ \A s \in Listings : NoRepeats(Listed[s]) /\ \A i \in ToSet(Listed[s]) : Home[i] = s
  /\ PageSize \in Nat \ {0} /\ MaxAttempts \in Nat \ {0}
  /\ MaxChanges \in Nat /\ MaxRuns \in Nat
  /\ None \notin Working /\ None \notin Snapshots

VARIABLES
  live,      \* the zone's listings
  run,       \* the extraction at work
  out,       \* it writes to a "file" or to "stdout"
  stopped,   \* Ctrl-C: "no", with a request in "flight", or "done": nothing is answered any more
  snapshot,  \* what the last extraction delivered
  file,      \* what --out has on disk
  exit,
  steady,    \* history: what was in the zone all through the run
  quiet,     \* history: nothing changed since it started
  shifted,   \* history: listings that lost an item between two of their pages
  changes, runs

history == <<steady, quiet, shifted>>
vars == <<live, run, out, stopped, snapshot, file, exit, history, changes, runs>>

-----------------------------------------------------------------------------

Idle == run = None
Reading == ~ Idle /\ run.todo # <<>>
read == Head(run.todo)

InZone == UNION {ToSet(live[s]) : s \in DOMAIN live}

\* There is a snapshot of before.
Init ==
  /\ live = Listed /\ run = None /\ out = "file" /\ stopped = "no"
  /\ snapshot = None /\ exit = "none"
  /\ file = [elements |-> InZone, gaps |-> {}]
  /\ steady = {} /\ quiet = TRUE /\ shifted = {} /\ changes = 0 /\ runs = 0

Start(account, where) ==
  /\ Idle /\ runs < MaxRuns /\ runs' = runs + 1
  /\ run' = [todo |-> IF account THEN Reads \o AccountReads ELSE Reads,
             page |-> 1, pages |-> <<>>, attempt |-> 1, waits |-> FALSE,
             elements |-> {}, gaps |-> IF account THEN {} ELSE {"account"}]
  /\ out' = where /\ stopped' = "no" /\ snapshot' = None /\ exit' = "running"
  /\ steady' = InZone /\ quiet' = TRUE /\ shifted' = {}
  /\ UNCHANGED <<live, file, changes>>

-----------------------------------------------------------------------------
(* One request *)

\* A ruleset that is gone is an API error.
Answerable == read \in Items => read \in ToSet(live["rulesets"])

Listing ==
  IF read \in Items THEN <<read>> ELSE IF read \in DOMAIN live THEN live[read] ELSE <<>>
TotalPages == (Len(Listing) + PageSize - 1) \div PageSize

Page ==
  IF read \in Paged
  THEN SubSeq(Listing, (run.page - 1) * PageSize + 1,
              IF run.page * PageSize < Len(Listing) THEN run.page * PageSize ELSE Len(Listing))
  ELSE Listing

\* What is read next because of what this read found.
Follows(found) ==
  CASE read = "settings" -> <<"dnssec">>
    [] read = "rulesets" -> found
    [] read = "email" /\ found # <<>> -> <<"emailrules">>
    [] OTHER -> <<>>

Turn(next, elements, gaps) ==
  run' = [run EXCEPT !.todo = next \o Tail(@), !.page = 1, !.pages = <<>>, !.attempt = 1,
                     !.waits = FALSE, !.elements = @ \cup elements, !.gaps = @ \cup gaps]

\* The list of rulesets only says what else there is to read.
Got(found) == Turn(Follows(found), IF read = "rulesets" THEN {} ELSE ToSet(found), {})

FailsWithoutGap ==
  IF read \in Fatal THEN run' = None /\ exit' = "failed" ELSE Turn(<<>>, {}, {}) /\ UNCHANGED exit

\* The read has failed for good: an error that ends the run, or a gap.
Fails ==
  IF read \in Fatal THEN run' = None /\ exit' = "failed"
  ELSE Turn(<<>>, {}, {read}) /\ UNCHANGED exit

Awaited == Reading /\ ~ run.waits /\ stopped # "done"
Delivered == stopped' = IF stopped = "flight" THEN "done" ELSE stopped
Elsewhere == UNCHANGED <<live, out, snapshot, file, history, changes, runs>>

AnswerShort ==
  /\ Awaited /\ Answerable /\ Delivered
  /\ IF read \in Paged /\ run.page + 1 < TotalPages
     THEN run' = [run EXCEPT !.page = @ + 1, !.pages = @ \o Page, !.attempt = 1]
     ELSE Got(run.pages \o Page)
  /\ Elsewhere /\ UNCHANGED exit

\* How many pages there are is asked again with every page.
Answer ==
  /\ Awaited /\ Answerable /\ Delivered
  /\ IF read \in Paged /\ run.page < TotalPages
     THEN run' = [run EXCEPT !.page = @ + 1, !.pages = @ \o Page, !.attempt = 1]
     ELSE Got(run.pages \o Page)
  /\ Elsewhere /\ UNCHANGED exit

\* A missing scope, a time-out, an answer that does not decode: not retried.
Refused == Awaited /\ Delivered /\ Fails /\ Elsewhere

BusyOnceMore ==
  /\ Awaited /\ Delivered
  /\ IF run.attempt <= MaxAttempts THEN run' = [run EXCEPT !.waits = TRUE] /\ UNCHANGED exit ELSE Fails
  /\ Elsewhere

\* 429 or 5xx.
Busy ==
  /\ Awaited /\ Delivered
  /\ IF run.attempt < MaxAttempts THEN run' = [run EXCEPT !.waits = TRUE] /\ UNCHANGED exit ELSE Fails
  /\ Elsewhere

ResumeAnew ==
  /\ Reading /\ run.waits
  /\ run' = [run EXCEPT !.waits = FALSE]
  /\ UNCHANGED <<stopped, exit>> /\ Elsewhere

\* The backoff is over.
Resume ==
  /\ Reading /\ run.waits
  /\ run' = [run EXCEPT !.waits = FALSE, !.attempt = @ + 1]
  /\ UNCHANGED <<stopped, exit>> /\ Elsewhere

\* A request or a backoff of a run that was stopped.
Cancelled == Reading /\ stopped # "no" /\ stopped' = "done" /\ Fails /\ Elsewhere

-----------------------------------------------------------------------------
(* The end, and the environment *)

Captured == [elements |-> run.elements, gaps |-> run.gaps]

\* Only the run that writes a file looks at the gaps.
Write ==
  /\ ~ Idle /\ run.todo = <<>>
  /\ snapshot' = Captured
  /\ IF out = "file" THEN file' = Captured /\ exit' = (IF run.gaps = {} THEN "ok" ELSE "partial")
     ELSE UNCHANGED file /\ exit' = "ok"
  /\ run' = None /\ UNCHANGED <<live, out, stopped, history, changes, runs>>

WriteFails ==
  /\ ~ Idle /\ run.todo = <<>>
  /\ run' = None /\ exit' = "failed" /\ UNCHANGED stopped /\ Elsewhere

Stop ==
  /\ ~ Idle /\ stopped = "no"
  /\ stopped' = IF Reading /\ ~ run.waits THEN "flight" ELSE "done"
  /\ UNCHANGED <<run, exit>> /\ Elsewhere

Kill == ~ Idle /\ run' = None /\ exit' = "killed" /\ UNCHANGED stopped /\ Elsewhere

\* A change while nothing is read is one before the next extraction.
Changes == ~ Idle /\ changes < MaxChanges /\ changes' = changes + 1 /\ quiet' = FALSE

Removed(i) ==
  /\ Changes /\ i \in InZone
  /\ \E n \in 1 .. Len(live[Home[i]]) :
       live[Home[i]][n] = i /\ live' = [live EXCEPT ![Home[i]] = RemoveAt(@, n)]
  /\ steady' = steady \ {i}
  /\ shifted' = IF Reading /\ read = Home[i] /\ run.page > 1 THEN shifted \cup {read} ELSE shifted
  /\ UNCHANGED <<run, out, stopped, snapshot, file, exit, runs>>

Added(i) ==
  /\ Changes /\ i \notin InZone
  /\ \E n \in 1 .. Len(live[Home[i]]) + 1 :
       live' = [live EXCEPT ![Home[i]] = InsertAt(@, n, i)]
  /\ UNCHANGED <<run, out, stopped, snapshot, file, exit, steady, shifted, runs>>

Process == Answer \/ Refused \/ Busy \/ Resume \/ Cancelled \/ Write \/ WriteFails

Next ==
  \/ Process \/ Stop \/ Kill
  \/ \E account \in BOOLEAN, where \in {"file", "stdout"} : Start(account, where)
  \/ \E i \in Items : Removed(i) \/ Added(i)

\* The client gives a request 30 seconds and a backoff ends; a stopped one returns at once.
Spec == Init /\ [][Next]_vars /\ WF_vars(Process)

-----------------------------------------------------------------------------

\* No request is made more than MaxAttempts times.
TypeOK ==
  /\ live \in [Listings -> Seq(Items)]
  /\ Idle \/ run \in Working
  /\ out \in {"file", "stdout"} /\ stopped \in {"no", "flight", "done"}
  /\ snapshot = None \/ snapshot \in Snapshots
  /\ file \in Snapshots
  /\ exit \in {"none", "running", "failed", "killed", "ok", "partial"}
  /\ exit = "running" <=> ~ Idle
  /\ steady \subseteq Items /\ shifted \subseteq Paged /\ quiet \in BOOLEAN
  /\ changes \in 0 .. MaxChanges /\ runs \in 0 .. MaxRuns

\* The snapshot says that it could not look for this item.
InAGap(i, s) ==
  \/ Home[i] \in s.gaps \/ i \in s.gaps
  \/ Home[i] \in Account /\ "account" \in s.gaps

\* What was in the zone all through the extraction is in the snapshot or in a gap of it
\* (the comment on Client.Warnings: "so nothing is silently missing"), however the requests
\* and a Ctrl-C fell, unless its listing lost an item between two pages; and a DNS record
\* is never in a gap.
NothingSilentlyMissing ==
  snapshot # None => \A i \in steady :
    \/ i \in snapshot.elements \/ Home[i] \in shifted
    \/ InAGap(i, snapshot) /\ Home[i] \notin Fatal

\* Of a zone that holds still, a surface is in the snapshot as a whole or not at all.
ExactWhenQuiet ==
  (snapshot # None /\ quiet) =>
    snapshot.elements = {i \in InZone : ~ InAGap(i, snapshot)}

\* An extraction ends, whatever the API answers.
ExtractEnds == ~ Idle ~> Idle
=============================================================================
