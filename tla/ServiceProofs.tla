---------------------------- MODULE ServiceProofs ----------------------------
(***************************************************************************)
(* Proofs about what runs while a site is served: the failguard, for every *)
(* set of thresholds and any number of kills, and the two edges, for every *)
(* set of rules, all paths and any number of visits and redirects.         *)
(*                                                                         *)
(* A visitor refused at the old edge by a block rule is on the way to the  *)
(* same refusal at the new one from its first request on (RefusedInv).  A  *)
(* rate limit needs the counters: where nothing redirects, a visit is one  *)
(* request, and the two edges count side by side, the new one never behind *)
(* (MoreInv), or never ahead where it counts nothing beyond the rule       *)
(* (FewerInv).  Where a visitor arrives is a matter of the way there: the  *)
(* URLs the old edge went through are a trail, and the new edge is always  *)
(* somewhere on it, by HTTP or HTTPS, or already where the old edge ended  *)
(* (TrailInv).  Of the trail's URLs only the lemmas about single requests  *)
(* are needed: that the pattern for a path is the only one (OnePattern),   *)
(* and that what the gate's probes show stands for every path.             *)
(***************************************************************************)
EXTENDS Guard, Edge, SequenceTheorems, TLAPS

-----------------------------------------------------------------------------
(* The failguard.                                                          *)

\* What TypeOK and ExitTellsOutcome need to be inductive: the trigger is where
\* the count has reached the threshold and nowhere else; the running hook is
\* where the trigger is; and, until the guard is stopped, every counted failure
\* is one the site caused.
CountMeetsPlace ==
  /\ pc \in {"tick", "checking", "select"} => fails < opts.fails
  /\ pc = "trigger" => fails = opts.fails

EvidenceMeetsCount == evidence <= fails /\ (~stop => evidence = fails)

HookMeetsPlace ==
  /\ hook = "running" <=> pc = "trigger" /\ opts.hook
  /\ opts.once /\ pc \in {"tick", "checking"} => hook = "none"
  /\ opts.once => pc # "select"

ExitMeetsPlace == pc = "done" <=> exit # "running"

GuardInv ==
  /\ TypeOK
  /\ CountMeetsPlace
  /\ EvidenceMeetsCount
  /\ HookMeetsPlace
  /\ ExitMeetsPlace
  /\ ExitTellsOutcome

-----------------------------------------------------------------------------

\* A threshold is a positive number.
LEMMA ThresholdPositive ==
  ASSUME TypeOK
  PROVE  /\ opts.fails \in Nat \ {0}
         /\ opts.once \in BOOLEAN /\ opts.keepWatching \in BOOLEAN
         /\ opts.hook \in BOOLEAN /\ opts.supervised \in BOOLEAN
         /\ opts.supervised => opts.keepWatching /\ opts.hook /\ ~opts.once
BY ThresholdsAssumption DEF TypeOK, Options

\* The guard starts where its invariant holds.
LEMMA InitGuardInv == GuardInit => GuardInv
<1> SUFFICES ASSUME GuardInit PROVE GuardInv
  OBVIOUS
<1>1. opts.fails \in Nat \ {0}
  BY ThresholdsAssumption DEF GuardInit, Options
<1>2. TypeOK
  <2>1. stop \in BOOLEAN /\ tickReady \in BOOLEAN
    BY Zenon DEF GuardInit
  <2>2. QED
    BY <1>1, <2>1, MaxKillsAssumption DEF GuardInit, TypeOK, Places, Outcomes, ExitCodes
<1>3. CountMeetsPlace /\ EvidenceMeetsCount /\ HookMeetsPlace /\ ExitMeetsPlace
  BY <1>1 DEF GuardInit, CountMeetsPlace, EvidenceMeetsCount, HookMeetsPlace, ExitMeetsPlace
<1>4. ExitTellsOutcome
  BY DEF GuardInit, ExitTellsOutcome
<1>5. QED
  BY <1>2, <1>3, <1>4 DEF GuardInv

\* Counting a check keeps the invariant, whoever caused the failure, as long as
\* only a cancelled context makes a failure the site did not cause.
LEMMA CountKeepsGuardInv ==
  ASSUME GuardInv, pc \in {"tick", "checking"},
         NEW healthy \in BOOLEAN, NEW bySite \in BOOLEAN,
         ~healthy /\ ~bySite => stop,
         Count(healthy, bySite),
         UNCHANGED <<opts, up, stop, tickReady, kills>>
  PROVE  /\ GuardInv'
         /\ pc' = "trigger" /\ ~stop => evidence' = opts.fails
<1> USE DEF GuardInv
<1>1. /\ opts.fails \in Nat \ {0} /\ opts.once \in BOOLEAN
      /\ opts.keepWatching \in BOOLEAN /\ opts.hook \in BOOLEAN
  BY ThresholdPositive
<1>2. /\ fails \in Nat /\ fails < opts.fails
      /\ evidence \in Nat /\ evidence <= fails /\ (~stop => evidence = fails)
  BY <1>1 DEF TypeOK, CountMeetsPlace, EvidenceMeetsCount
<1>3. /\ fails' \in 0 .. opts.fails /\ evidence' \in 0 .. opts.fails
      /\ evidence' <= fails' /\ (~stop => evidence' = fails')
  BY <1>1, <1>2 DEF Count, Tally
<1>4. CASE fails' >= opts.fails
  <2>1. /\ pc' = "trigger" /\ exit' = exit
        /\ hook' = IF opts.hook THEN "running" ELSE hook
    BY <1>4 DEF Count, Trigger
  <2>2. fails' = opts.fails
    BY <1>1, <1>3, <1>4
  <2>3. hook # "running" /\ exit = "running"
    BY DEF HookMeetsPlace, ExitMeetsPlace
  <2>4. TypeOK'
    BY <1>3, <2>1 DEF TypeOK, Places, Outcomes
  <2>5. CountMeetsPlace' /\ EvidenceMeetsCount' /\ ExitMeetsPlace' /\ ExitTellsOutcome'
    BY <1>3, <2>1, <2>2, <2>3
       DEF CountMeetsPlace, EvidenceMeetsCount, ExitMeetsPlace, ExitTellsOutcome
  <2>6. HookMeetsPlace'
    BY <2>1, <2>3 DEF HookMeetsPlace
  <2>7. QED
    BY <1>3, <2>1, <2>2, <2>4, <2>5, <2>6
<1>5. CASE ~(fails' >= opts.fails)
  <2>1. fails' < opts.fails
    BY <1>1, <1>3, <1>5
  <2>2. AfterTick /\ hook' = hook
    BY <1>5 DEF Count
  <2>3. hook # "running" /\ exit = "running" /\ (opts.once => hook = "none")
    BY DEF HookMeetsPlace, ExitMeetsPlace
  <2>4. CASE opts.once
    <3>1. pc' = "done" /\ exit' = "0"
      BY <2>2, <2>4 DEF AfterTick, Return
    <3>2. TypeOK'
      BY <1>3, <2>2, <3>1 DEF TypeOK, Places, ExitCodes
    <3>3. QED
      BY <1>3, <2>1, <2>2, <2>3, <2>4, <3>1, <3>2
         DEF CountMeetsPlace, EvidenceMeetsCount, HookMeetsPlace, ExitMeetsPlace,
             ExitTellsOutcome
  <2>5. CASE ~opts.once
    <3>1. pc' = "select" /\ exit' = exit
      BY <2>2, <2>5 DEF AfterTick
    <3>2. TypeOK'
      BY <1>3, <2>2, <3>1 DEF TypeOK, Places
    <3>3. QED
      BY <1>3, <2>1, <2>2, <2>3, <2>5, <3>1, <3>2
         DEF CountMeetsPlace, EvidenceMeetsCount, HookMeetsPlace, ExitMeetsPlace,
             ExitTellsOutcome
  <2>6. QED
    BY <1>1, <2>4, <2>5
<1>6. QED
  BY <1>4, <1>5

\* OnUnhealthy ended well: the guard exits 20, or resets and carries on.
LEMMA FiredKeepsGuardInv ==
  ASSUME GuardInv, pc = "trigger", Fired,
         opts.hook => hook' = "ok", ~opts.hook => hook' = hook,
         UNCHANGED <<opts, up, stop, tickReady, kills>>
  PROVE  GuardInv' /\ pc' # "trigger"
<1> USE DEF GuardInv
<1>1. /\ opts.fails \in Nat \ {0} /\ opts.once \in BOOLEAN
      /\ opts.keepWatching \in BOOLEAN /\ opts.hook \in BOOLEAN
  BY ThresholdPositive
<1>2. /\ fails = opts.fails /\ exit = "running"
      /\ hook' \in Outcomes /\ hook' # "running" /\ (opts.hook => hook' = "ok")
  <2>1. fails = opts.fails /\ exit = "running" /\ hook \in Outcomes
    BY DEF TypeOK, CountMeetsPlace, ExitMeetsPlace
  <2>2. CASE opts.hook
    BY <2>1, <2>2 DEF Outcomes
  <2>3. CASE ~opts.hook
    BY <2>1, <2>3 DEF HookMeetsPlace
  <2>4. QED
    BY <2>1, <2>2, <2>3
<1>3. CASE opts.keepWatching
  <2>1. AfterTick /\ fails' = 0 /\ evidence' = 0
    BY <1>3 DEF Fired
  <2>2. /\ pc' \in {"done", "select"}
        /\ pc' = "done" => exit' = "0" /\ opts.once
        /\ pc' = "select" => exit' = "running" /\ ~opts.once
    BY <1>1, <1>2, <2>1 DEF AfterTick, Return
  <2>3. TypeOK'
    BY <1>1, <1>2, <2>1, <2>2 DEF TypeOK, Places, ExitCodes
  <2>4. CountMeetsPlace' /\ EvidenceMeetsCount' /\ HookMeetsPlace' /\ ExitMeetsPlace'
    BY <1>1, <1>2, <2>1, <2>2
       DEF CountMeetsPlace, EvidenceMeetsCount, HookMeetsPlace, ExitMeetsPlace
  <2>5. ExitTellsOutcome'
    BY <1>3, <2>2 DEF ExitTellsOutcome
  <2>6. QED
    BY <2>2, <2>3, <2>4, <2>5
<1>4. CASE ~opts.keepWatching
  <2>1. pc' = "done" /\ exit' = "20" /\ UNCHANGED <<fails, evidence>>
    BY <1>4 DEF Fired, Return
  <2>2. TypeOK'
    BY <1>2, <2>1 DEF TypeOK, Places, ExitCodes
  <2>3. CountMeetsPlace' /\ EvidenceMeetsCount' /\ HookMeetsPlace' /\ ExitMeetsPlace'
    BY <1>2, <2>1
       DEF CountMeetsPlace, EvidenceMeetsCount, HookMeetsPlace, ExitMeetsPlace
  <2>4. ExitTellsOutcome'
    BY <1>2, <1>4, <2>1 DEF ExitTellsOutcome
  <2>5. QED
    BY <2>1, <2>2, <2>3, <2>4
<1>5. QED
  BY <1>1, <1>3, <1>4

-----------------------------------------------------------------------------

\* Every step keeps the invariant.
LEMMA StepGuardInv == GuardInv /\ [GuardNext]_guardVars => GuardInv'
<1> SUFFICES ASSUME GuardInv, [GuardNext]_guardVars PROVE GuardInv'
  OBVIOUS
<1> USE DEF GuardInv
<1>0. /\ TypeOK /\ opts.fails \in Nat \ {0} /\ opts.once \in BOOLEAN
      /\ opts.supervised => opts.keepWatching /\ opts.hook /\ ~opts.once
  BY ThresholdPositive
<1> USE DEF CountMeetsPlace, EvidenceMeetsCount, HookMeetsPlace, ExitMeetsPlace
<1>1. CASE SiteChanges
  BY <1>1 DEF SiteChanges, TypeOK, ExitTellsOutcome
<1>2. CASE Stop
  BY <1>2 DEF Stop, TypeOK, ExitTellsOutcome
<1>3. CASE TickerFires
  BY <1>3 DEF TickerFires, TypeOK, ExitTellsOutcome
<1>4. CASE Kill
  <2>1. TypeOK'
    BY <1>4, MaxKillsAssumption DEF Kill, Return, TypeOK, Places, ExitCodes, Outcomes
  <2>2. QED
    BY <1>4, <2>1 DEF Kill, Return, ExitTellsOutcome
<1>5. CASE SendCheck
  BY <1>5 DEF SendCheck, TypeOK, Places, ExitTellsOutcome
<1>6. CASE CheckAnswered
  BY <1>6, CountKeepsGuardInv DEF CheckAnswered, TypeOK
<1>7. CASE CheckCancelled
  BY <1>7, CountKeepsGuardInv DEF CheckCancelled
<1>8. CASE SkipHook
  BY <1>8, FiredKeepsGuardInv DEF SkipHook
<1>9. CASE HookSucceeds
  BY <1>9, FiredKeepsGuardInv DEF HookSucceeds
<1>10. CASE HookFails
  <2>1. TypeOK'
    BY <1>10 DEF HookFails, Return, TypeOK, Places, ExitCodes, Outcomes
  <2>2. QED
    BY <1>10, <2>1 DEF HookFails, Return, ExitTellsOutcome
<1>11. CASE SelectTick
  BY <1>11 DEF SelectTick, TypeOK, Places, ExitTellsOutcome
<1>12. CASE SelectDone
  BY <1>12 DEF SelectDone, Return, TypeOK, Places, ExitCodes, ExitTellsOutcome
<1>13. CASE Restart
  <2>1. tickReady' \in BOOLEAN
    BY <1>13, Zenon DEF Restart
  <2>2. TypeOK'
    BY <1>0, <1>13, <2>1 DEF Restart, TypeOK, Places, ExitCodes
  <2>3. QED
    BY <1>0, <1>13, <2>2 DEF Restart, TypeOK, ExitTellsOutcome
<1>14. CASE UNCHANGED guardVars
  BY <1>14 DEF guardVars, TypeOK, ExitTellsOutcome
<1>15. QED
  BY <1>1, <1>2, <1>3, <1>4, <1>5, <1>6, <1>7, <1>8, <1>9, <1>10, <1>11, <1>12,
     <1>13, <1>14 DEF GuardNext

\* Watch's invariant: the count, the place, the hook and the exit code agree.
THEOREM GuardInvariant == GuardSpec => []GuardInv
<1>1. QED
  BY InitGuardInv, StepGuardInv, PTL DEF GuardSpec

\* Type correctness: the count never passes the threshold, for any threshold.
THEOREM GuardTypeOK == GuardSpec => []TypeOK
<1>1. GuardInv => TypeOK
  BY DEF GuardInv
<1>2. QED
  BY <1>1, GuardInvariant, PTL

\* The exit code tells what happened, for any threshold and any number of kills.
THEOREM GuardExitTellsOutcome == GuardSpec => []ExitTellsOutcome
<1>1. GuardInv => ExitTellsOutcome
  BY DEF GuardInv
<1>2. QED
  BY <1>1, GuardInvariant, PTL

\* The guard never ends by itself with its hook running.
THEOREM GuardHookFinishes == GuardSpec => []HookFinishes
<1>1. GuardInv => HookFinishes
  BY DEF GuardInv, HookMeetsPlace, ExitMeetsPlace, HookFinishes
<1>2. QED
  BY <1>1, GuardInvariant, PTL

\* A guard nobody stopped fires on exactly --fails checks the site failed.
THEOREM GuardFiresOnlyOnOutage == GuardSpec => FiresOnlyOnOutage
<1>1. GuardInv /\ [GuardNext]_guardVars =>
        [pc # "trigger" /\ pc' = "trigger" /\ ~stop => evidence' = opts.fails]_guardVars
  <2> SUFFICES ASSUME GuardInv, GuardNext, pc # "trigger", pc' = "trigger", ~stop
               PROVE  evidence' = opts.fails
    BY DEF guardVars
  <2>1. CASE CheckAnswered
    BY <2>1, CountKeepsGuardInv DEF CheckAnswered, GuardInv, TypeOK
  <2>2. CASE CheckCancelled
    BY <2>2 DEF CheckCancelled
  <2>3. ~(CheckAnswered \/ CheckCancelled) => pc' # "trigger"
    BY DEF GuardNext, SiteChanges, Stop, TickerFires, Kill, Return, SendCheck, SkipHook,
           HookSucceeds, HookFails, SelectTick, SelectDone, Restart
  <2>4. QED
    BY <2>1, <2>2, <2>3
<1>2. QED
  BY <1>1, GuardInvariant, PTL DEF GuardSpec, FiresOnlyOnOutage

-----------------------------------------------------------------------------
(* The two edges.                                                          *)

ZoneOK == \A e \in zone : RuleOK(e)
Glob == [prefix: Path, star: BOOLEAN]
\* A URL as Caddy sends visitors to it, and the request for one.
Https(u) == [scheme |-> "https", host |-> u.host, path |-> u.path]
Sent(u) == Request(u, client)

-----------------------------------------------------------------------------
(* Paths.                                                                  *)

\* A prefix is what agrees with the front of a sequence.
LEMMA PrefixAt ==
  ASSUME NEW S, NEW p \in Seq(S), NEW q \in Seq(S)
  PROVE  IsPrefix(p, q) <=> Len(p) <= Len(q) /\ \A i \in 1 .. Len(p) : p[i] = q[i]
<1>1. SubSeq(p, 1, Len(p)) = p
  BY SubSeqFull
<1>2. CASE Len(p) <= Len(q)
  <2>1. /\ SubSeq(q, 1, Len(p)) \in Seq(S)
        /\ Len(SubSeq(q, 1, Len(p))) = Len(p)
        /\ \A i \in 1 .. Len(p) : SubSeq(q, 1, Len(p))[i] = q[i]
    BY <1>2
  <2>2. p = SubSeq(q, 1, Len(p)) <=> \A i \in 1 .. Len(p) : p[i] = q[i]
    BY <2>1, SeqEqual
  <2> QED
    BY <1>1, <1>2, <2>2 DEF IsPrefix
<1> QED
  BY <1>2 DEF IsPrefix

\* The length of two sequences in a row.
LEMMA LenOfTwo ==
  ASSUME NEW S, NEW p \in Seq(S), NEW q \in Seq(S)
  PROVE  Len(p \o q) = Len(p) + Len(q)
BY ConcatProperties

\* A prefix of a path occurs in it.
LEMMA OccursInFront ==
  ASSUME NEW S, NEW p \in Seq(S), NEW q \in Seq(S), IsPrefix(p, q)
  PROVE  Occurs(p, q)
<1>1. SubSeq(q, 1, Len(q)) = q
  BY SubSeqFull
<1>2. 1 \in 1 .. Len(q) + 1
  OBVIOUS
<1> QED
  BY <1>1, <1>2 DEF Occurs

\* A path occurs in itself: a rate limit on one exact path is found there.
LEMMA OccursInItself ==
  ASSUME NEW S, NEW p \in Seq(S)
  PROVE  Occurs(p, p)
BY PrefixAt, OccursInFront

\* The root is a prefix of every path, as /* says.
LEMMA EmptyPrefix ==
  ASSUME NEW p \in Path
  PROVE  IsPrefix(<< >>, p)
<1>1. << >> \in Seq(Segments) /\ Len(<< >>) = 0
  OBVIOUS
<1>2. p \in Seq(Segments) /\ Len(p) \in Nat
  BY DEF Path
<1>3. SubSeq(<< >>, 1, 0) = << >> /\ SubSeq(p, 1, 0) = << >>
  BY <1>1, <1>2, SubSeqEmpty
<1> QED
  BY <1>1, <1>2, <1>3 DEF IsPrefix

\* Of two prefixes of one path, the shorter is a prefix of the longer.
LEMMA TwoPrefixes ==
  ASSUME NEW S, NEW p \in Seq(S), NEW q \in Seq(S), NEW t \in Seq(S),
         IsPrefix(p, t), IsPrefix(q, t), Len(p) <= Len(q)
  PROVE  IsPrefix(p, q)
<1>1. /\ \A i \in 1 .. Len(p) : p[i] = t[i]
      /\ \A i \in 1 .. Len(q) : q[i] = t[i]
  BY PrefixAt
<1>2. \A i \in 1 .. Len(p) : p[i] = q[i]
  BY <1>1
<1> QED
  BY <1>2, PrefixAt

\* A visitor's path is also one the gate could send.
LEMMA ProbePath ==
  \A p \in Path : p \in Seq(Segments \cup {Probe})
BY SeqMonotonic DEF Path

\* Two globs that match one path overlap.
LEMMA MatchedTwice ==
  ASSUME NEW g \in Glob, NEW h \in Glob, NEW path \in Seq(Segments \cup {Probe}),
         GlobMatches(g, path), GlobMatches(h, path)
  PROVE  Overlap(g, h)
<1>1. CASE ~g.star \/ ~h.star
  BY <1>1 DEF Overlap, GlobMatches
<1>2. CASE g.star /\ h.star
  <2>1. /\ g.prefix \in Path /\ h.prefix \in Path
        /\ g.prefix = << >> \/ IsPrefix(g.prefix, path)
        /\ h.prefix = << >> \/ IsPrefix(h.prefix, path)
    BY <1>2 DEF GlobMatches, Below, Glob
  <2>2. \A p \in Path : IsPrefix(<< >>, p)
    BY EmptyPrefix
  <2>5. g.prefix \in Seq(Segments \cup {Probe}) /\ h.prefix \in Seq(Segments \cup {Probe})
    BY <2>1, ProbePath
  <2>3. CASE g.prefix = << >> \/ h.prefix = << >>
    BY <1>2, <2>1, <2>2, <2>3 DEF Overlap
  <2>4. CASE IsPrefix(g.prefix, path) /\ IsPrefix(h.prefix, path)
    <3>1. CASE Len(g.prefix) <= Len(h.prefix)
      <4>1. IsPrefix(g.prefix, h.prefix)
        BY <2>1, <2>4, <2>5, <3>1, TwoPrefixes
      <4> QED
        BY <1>2, <4>1 DEF Overlap
    <3>2. CASE Len(h.prefix) <= Len(g.prefix)
      <4>1. IsPrefix(h.prefix, g.prefix)
        BY <2>1, <2>4, <2>5, <3>2, TwoPrefixes
      <4> QED
        BY <1>2, <4>1 DEF Overlap
    <3>3. Len(g.prefix) \in Nat /\ Len(h.prefix) \in Nat
      BY <2>1, LenProperties DEF Path
    <3> QED
      BY <3>1, <3>2, <3>3
  <2> QED
    BY <2>1, <2>3, <2>4
<1> QED
  BY <1>1, <1>2

-----------------------------------------------------------------------------
(* Redirects: the pattern that matches a path is the redirect both edges   *)
(* give, and where none does neither redirects.                            *)

\* Where a Page Rule sends a request, and what redirectsForHost makes of the rule.
To(e, r) == [e.to EXCEPT !.path = @ \o IF e.capture THEN Behind(e.glob, r.path) ELSE << >>]
Fwd(e) == [glob |-> e.glob, to |-> e.to, capture |-> e.capture,
           probe |-> e.glob.prefix \o IF e.glob.star THEN <<Probe>> ELSE << >>]

\* A Page Rule of a zone has a pattern and a URL to send visitors to.
LEMMA ForwardOK ==
  ASSUME ZoneOK, NEW e \in On("forward")
  PROVE  e.glob \in Glob /\ e.to \in Url /\ e.priority \in Nat
BY DEF ZoneOK, RuleOK, On, Glob

\* Where no patterns overlap, one path is for one pattern.
LEMMA OnePattern ==
  ASSUME ZoneOK, ~Overlapping, NEW path \in Seq(Segments \cup {Probe}),
         NEW e \in On("forward"), NEW f \in On("forward"), Pattern(e), Pattern(f),
         GlobMatches(e.glob, path), GlobMatches(f.glob, path)
  PROVE  e = f
<1>1. Overlap(e.glob, f.glob)
  BY ForwardOK, MatchedTwice
<1> QED
  BY <1>1 DEF Overlapping

\* redirectsForHost makes a pattern of nothing but a Page Rule of the site.
LEMMA RedirectIsForward ==
  ASSUME NEW red \in Redirects, ~IsCatchAll(red.glob)
  PROVE  \E e \in On("forward") : e.host = Site /\ red = Fwd(e)
<1>1. CASE \E x : red = [glob |-> Everything, to |-> x.to, capture |-> FALSE, probe |-> << >>]
  BY <1>1 DEF IsCatchAll
<1>2. CASE \E e \in {x \in On("forward") : x.host = Site} : red = Fwd(e)
  BY <1>2
<1> QED
  BY <1>1, <1>2 DEF Redirects, Fwd

\* redirectsForHost passes over no Page Rule of the site.
LEMMA ForwardIsRedirect ==
  ASSUME NEW e \in On("forward"), e.host = Site
  PROVE  Fwd(e) \in Redirects /\ Fwd(e).glob = e.glob
BY DEF Redirects, Fwd

\* A redirect rule that holds is a catch-all of the plan.
LEMMA RuleIsRedirect ==
  ASSUME ~RedirectNotCarried, NEW x \in On("redirect"), NEW r, r.host = Site, Holds(x.expr, r)
  PROVE  PathAppended
<1>1. x.expr.of = "host" /\ x.to # Dynamic
  BY DEF RedirectNotCarried
<1>2. x.expr.value = Site
  BY <1>1 DEF Holds, HoldsSimple
<1>3. [glob |-> Everything, to |-> x.to, capture |-> FALSE, probe |-> << >>] \in Redirects
  BY <1>1, <1>2 DEF Redirects
<1> QED
  BY <1>3 DEF PathAppended, IsCatchAll

\* The pattern a request is for is the redirect both edges give, and the only one.
LEMMA PatternRedirects ==
  ASSUME ZoneOK, ~OrderLost \/ (~PathAppended /\ ~RedirectNotCarried), ~Overlapping,
         NEW r, r.host = Site, r.path \in Path,
         NEW t, t.path = r.path,
         NEW p \in OldForwards(r), ~IsCatchAll(p.glob)
  PROVE  OldRedirects(r) = {To(p, r)} /\ NewRedirects(t) = {To(p, r)}
<1>1. /\ p \in On("forward") /\ p.host = Site /\ GlobMatches(p.glob, r.path)
      /\ Pattern(p)
  BY DEF OldForwards, Pattern
<1>2. \A e \in OldForwards(r) : e.priority <= p.priority => e = p
  <2> SUFFICES ASSUME NEW e \in OldForwards(r), e.priority <= p.priority
               PROVE  e = p
    OBVIOUS
  <2>1. e \in On("forward") /\ e.host = Site /\ GlobMatches(e.glob, r.path)
    BY DEF OldForwards
  <2>2. ~IsCatchAll(e.glob)
    <3>1. CASE ~OrderLost
      BY <1>1, <2>1, <3>1 DEF OrderLost
    <3>2. CASE ~PathAppended
      BY <2>1, <3>2, ForwardIsRedirect DEF PathAppended
    <3> QED
      BY <3>1, <3>2
  <2> QED
    BY <1>1, <2>1, <2>2, OnePattern, ProbePath DEF Pattern
<1>3. \A e \in OldForwards(r) : p.priority <= e.priority
  <2> SUFFICES ASSUME NEW e \in OldForwards(r)
               PROVE  p.priority <= e.priority
    OBVIOUS
  <2>1. e.priority \in Nat /\ p.priority \in Nat
    BY <1>1, ForwardOK DEF OldForwards
  <2>2. CASE e.priority <= p.priority
    BY <1>2, <2>1, <2>2
  <2> QED
    BY <2>1, <2>2
<1>4. {x \in OldForwards(r) : \A y \in OldForwards(r) : x.priority <= y.priority} = {p}
  BY <1>2, <1>3
<1>5. {x \in On("redirect") : x.to # Dynamic /\ Holds(x.expr, r)} = {}
  <2>1. CASE ~OrderLost
    BY <1>1, <2>1 DEF OrderLost
  <2>2. CASE ~PathAppended /\ ~RedirectNotCarried
    BY <2>2, RuleIsRedirect
  <2> QED
    BY <2>1, <2>2
<1>6. OldRedirects(r) = {To(p, r)}
  <2>1. OldRedirects(r) = {e.to : e \in {}} \cup {To(e, r) : e \in {p}}
    BY <1>4, <1>5 DEF OldRedirects, To
  <2> QED
    BY <2>1
<1> DEFINE match == {red \in Redirects : GlobMatches(red.glob, t.path)}
           first == {red \in match : ~IsCatchAll(red.glob)}
<1>7. first = {Fwd(p)}
  <2>1. Fwd(p) \in first
    BY <1>1, ForwardIsRedirect
  <2>2. ASSUME NEW red \in first
        PROVE  red = Fwd(p)
    <3>1. PICK e \in On("forward") : e.host = Site /\ red = Fwd(e)
      BY RedirectIsForward
    <3>2. e.glob = red.glob
      BY <3>1 DEF Fwd
    <3>3. e = p
      BY <1>1, <3>1, <3>2, OnePattern, ProbePath DEF Pattern
    <3> QED
      BY <3>1, <3>3
  <2> QED
    BY <2>1, <2>2
<1>8. Rendered(Fwd(p), t) = To(p, r)
  BY <1>1 DEF Rendered, Fwd, To, Pattern
<1>9. NewRedirects(t) = {Rendered(red, t) : red \in first}
  BY <1>7 DEF NewRedirects
<1> HIDE DEF first
<1> QED
  BY <1>6, <1>7, <1>8, <1>9

\* A request no pattern is for is redirected by neither edge.
LEMMA NothingRedirects ==
  ASSUME ~RedirectNotCarried, ~PathAppended,
         NEW r, r.host = Site, NEW t, t.path = r.path,
         \A e \in On("forward") : e.host = Site => e.scheme \in {"any", r.scheme},
         \A e \in OldForwards(r) : IsCatchAll(e.glob)
  PROVE  OldRedirects(r) = {} /\ NewRedirects(t) = {}
<1>1. OldForwards(r) = {}
  <2> SUFFICES ASSUME NEW e \in OldForwards(r)
               PROVE  FALSE
    OBVIOUS
  <2>1. e \in On("forward") /\ e.host = Site /\ IsCatchAll(e.glob)
    BY DEF OldForwards
  <2> QED
    BY <2>1, ForwardIsRedirect DEF PathAppended
<1>2. {x \in On("redirect") : x.to # Dynamic /\ Holds(x.expr, r)} = {}
  BY RuleIsRedirect
<1>3. OldRedirects(r) = {}
  <2>1. OldRedirects(r) = {e.to : e \in {}} \cup {To(e, r) : e \in {}}
    BY <1>1, <1>2 DEF OldRedirects, To
  <2> QED
    BY <2>1
<1>4. {red \in Redirects : GlobMatches(red.glob, t.path)} = {}
  <2> SUFFICES ASSUME NEW red \in Redirects, GlobMatches(red.glob, t.path)
               PROVE  FALSE
    OBVIOUS
  <2>1. ~IsCatchAll(red.glob)
    BY DEF PathAppended
  <2>2. PICK e \in On("forward") : e.host = Site /\ red = Fwd(e)
    BY <2>1, RedirectIsForward
  <2>3. e.glob = red.glob
    BY <2>2 DEF Fwd
  <2>4. e \in OldForwards(r)
    BY <2>2, <2>3 DEF OldForwards
  <2> QED
    BY <1>1, <2>4
<1> QED
  BY <1>3, <1>4 DEF NewRedirects

-----------------------------------------------------------------------------
(* Rewrites and origins: what arrives is served alike.                     *)

\* Two requests for one resource, by whatever scheme.
SameBut(r, t) == /\ r.host = t.host /\ r.path = t.path
                 /\ r.agent = t.agent /\ r.country = t.country /\ r.referer = t.referer

\* An expression the generator accepts means at Caddy what it means at Cloudflare.
LEMMA HoldsAlike ==
  ASSUME NEW e, NEW r, NEW t, SameBut(r, t), TransformScope(e) \/ OriginScope(e)
  PROVE  Holds(e, r) <=> HoldsSimple(e, t)
BY DEF SameBut, TransformScope, OriginScope, Holds, HoldsSimple

\* Both edges rewrite a request alike.
LEMMA RewrittenAlike ==
  ASSUME ~NotCarried, NEW u
  PROVE  SameBut(OldRewritten(Sent(u)), NewRewritten(Sent(Https(u))))
<1> DEFINE r == Sent(u)
           t == Sent(Https(u))
           E == {x \in On("rewrite") : Holds(x.expr, r) /\ x.to # Dynamic}
<1>1. /\ r = [scheme |-> u.scheme, host |-> u.host, path |-> u.path,
              agent |-> client.agent, country |-> client.country, referer |-> client.referer]
      /\ t = [scheme |-> "https", host |-> u.host, path |-> u.path,
              agent |-> client.agent, country |-> client.country, referer |-> client.referer]
  BY DEF Sent, Https, Request
<1>2. {x \in Rewrites : HoldsSimple(x.expr, t)} = E
  <2>1. \A x \in On("rewrite") : TransformScope(x.expr) /\ x.to # Dynamic
    BY DEF NotCarried
  <2>2. SameBut(r, t)
    BY <1>1 DEF SameBut
  <2> HIDE DEF r, t
  <2>3. \A x \in On("rewrite") : Holds(x.expr, r) <=> HoldsSimple(x.expr, t)
    BY <2>1, <2>2, HoldsAlike
  <2> QED
    BY <2>1, <2>3 DEF Rewrites
<1> DEFINE to == FirstOf(E).to
<1>3. OldRewritten(r) = IF E = {} THEN r ELSE [r EXCEPT !.path = to]
  BY DEF OldRewritten
<1>4. NewRewritten(t) = IF E = {} THEN t ELSE [t EXCEPT !.path = to]
  BY <1>2 DEF NewRewritten
<1> HIDE DEF E, to
<1>5. CASE E = {}
  BY <1>1, <1>3, <1>4, <1>5 DEF SameBut
<1>6. CASE E # {}
  <2> HIDE DEF r, t
  <2>1. /\ OldRewritten(r) = [r EXCEPT !.path = to]
        /\ NewRewritten(t) = [t EXCEPT !.path = to]
    BY <1>3, <1>4, <1>6
  <2> QED
    BY <1>1, <2>1 DEF SameBut, r, t
<1> QED
  BY <1>5, <1>6

\* Both edges take a request to the same origin.
LEMMA OriginAlike ==
  ASSUME ~NotCarried, NEW r, NEW t, SameBut(r, t)
  PROVE  OldOrigin(r) = NewOrigin(t)
<1> DEFINE E == {x \in On("origin") : Holds(x.expr, r) /\ x.upstream # Nothing}
<1>1. {x \in Proxies : HoldsSimple(x.expr, t)} = E
  <2>1. \A x \in On("origin") : OriginScope(x.expr)
    BY DEF NotCarried
  <2>2. \A x \in On("origin") : Holds(x.expr, r) <=> HoldsSimple(x.expr, t)
    BY <2>1, HoldsAlike
  <2> QED
    BY <2>1, <2>2 DEF Proxies
<1>2. OldOrigin(r) = IF E = {} THEN Origin ELSE FirstOf(E).upstream
  BY DEF OldOrigin
<1>3. NewOrigin(t) = IF E = {} THEN Origin ELSE FirstOf(E).upstream
  <2> DEFINE F == {x \in Proxies : HoldsSimple(x.expr, t)}
  <2>1. NewOrigin(t) = IF F = {} THEN Origin ELSE FirstOf(F).upstream
    BY DEF NewOrigin
  <2> HIDE DEF E, F
  <2> QED
    BY <1>1, <2>1 DEF F
<1> QED
  BY <1>2, <1>3

-----------------------------------------------------------------------------
(* What refuses.                                                           *)

\* A block rule the generators can express refuses at the new edge whom it is about.
LEMMA BlockIsRefusal ==
  ASSUME EdgeAssumption, ZoneOK, client \in Client, NEW u \in Url,
         NEW t, SameBut(Sent(u), t),
         \/ \E e \in Translated   : e.action = "block" /\ Holds(e.expr, Sent(u)) /\ ~Untargeted(e)
         \/ \E e \in On("access") : e.mode = "block" /\ e.country = client.country
         \/ \E e \in On("agent")  : e.mode = "block" /\ e.agent = client.agent
  PROVE  NewRefuses(t)
<1>1. /\ t.path = u.path /\ t.agent = client.agent /\ t.country = client.country
      /\ Sent(u).path = u.path /\ Sent(u).agent = client.agent /\ Sent(u).country = client.country
      /\ u.path \in Path
  BY DEF SameBut, Sent, Request, Url
<1>2. \A ag \in Agents : <<ag, ag>> \in WithinFold
  BY DEF EdgeAssumption
<1>3. client.agent \in Agents
  BY DEF Client
<1>4. CASE \E e \in On("access") : e.mode = "block" /\ e.country = client.country
  <2>1. client.country \in BlockCountries
    BY <1>4 DEF BlockCountries, Allowed
  <2> QED
    BY <1>1, <2>1 DEF NewRefuses
<1>5. CASE \E e \in On("agent") : e.mode = "block" /\ e.agent = client.agent
  <2> DEFINE rule == [target |-> "agent", value |-> client.agent, action |-> "block"]
  <2>1. rule \in CustomRules
    BY <1>5 DEF CustomRules, Allowed
  <2>2. Fires(rule, t)
    BY <1>1, <1>2, <1>3 DEF Fires
  <2> QED
    BY <2>1, <2>2 DEF NewRefuses
<1>6. CASE \E e \in Translated : e.action = "block" /\ Holds(e.expr, Sent(u)) /\ ~Untargeted(e)
  <2>1. PICK e \in Translated : e.action = "block" /\ Holds(e.expr, Sent(u)) /\ ~Untargeted(e)
    BY <1>6
  <2>2. /\ e \in On("firewall") /\ e.expr.of \in {"is", "has", "agentIs", "agentHas", "country"}
        /\ e \in zone /\ e.kind = "firewall"
    BY <2>1 DEF Translated, SimpleWAFMatch, Fields, Untargeted, On
  <2>3. HoldsSimple(e.expr, Sent(u))
    BY <2>1, <2>2 DEF Holds
  <2>4. CASE e.expr.of = "country"
    <3>1. e.expr.value = client.country
      BY <1>1, <2>3, <2>4 DEF HoldsSimple
    <3>2. client.country \in BlockCountries
      BY <2>1, <2>4, <3>1 DEF BlockCountries
    <3> QED
      BY <1>1, <3>2 DEF NewRefuses
  <2>5. CASE e.expr.of # "country"
    <3> DEFINE rule == [target |-> WAFTarget(e.expr.of), value |-> e.expr.value, action |-> "block"]
    <3>1. rule \in CustomRules
      BY <2>1, <2>5 DEF CustomRules
    <3>2. Fires(rule, t)
      <4>1. CASE e.expr.of \in {"agentIs", "agentHas"}
        <5>1. rule.target = "agent"
          BY <4>1 DEF WAFTarget
        <5>2. <<e.expr.value, client.agent>> \in WithinFold
          BY <1>1, <1>2, <1>3, <2>3, <4>1 DEF HoldsSimple, EdgeAssumption
        <5> QED
          BY <1>1, <5>1, <5>2 DEF Fires
      <4>2. CASE e.expr.of \in {"is", "has"}
        <5>1. rule.target = "url"
          BY <4>2 DEF WAFTarget
        <5>2. e.expr.value \in Path
          BY <2>2, <4>2 DEF ZoneOK, RuleOK
        <5>3. Occurs(e.expr.value, u.path)
          BY <1>1, <2>3, <4>2, <5>2, OccursInItself DEF HoldsSimple, Path
        <5> QED
          BY <1>1, <5>1, <5>3 DEF Fires
      <4> QED
        BY <2>2, <2>5, <4>1, <4>2
    <3> HIDE DEF rule
    <3>3. rule.action = "block"
      BY DEF rule
    <3> QED
      BY <3>1, <3>2, <3>3 DEF NewRefuses
  <2> QED
    BY <2>4, <2>5
<1> QED
  BY <1>4, <1>5, <1>6

\* Nobody is refused whom the zone lets pass, but for what the exceptions name.
LEMMA NotRefused ==
  ASSUME NEW t, SameBut(Asked, t), ~OldBlocks(Asked),
         ~Loosely, ~Misled, ~LoggedCountry, ~AskedFor
  PROVE  ~NewRefuses(t)
<1>1. /\ t.path = asked.path /\ t.agent = client.agent /\ t.country = client.country
      /\ t.referer = client.referer /\ Asked.path = asked.path /\ Asked.agent = client.agent /\ Asked.country = client.country
  BY DEF SameBut, Asked, Request
<1>2. ASSUME NEW e \in Translated, e.action # "log"
      PROVE  ~Holds(e.expr, Asked)
  <2>1. e \in On("firewall") /\ e.kind = "firewall" /\ e.on
    BY DEF Translated, On
  <2>2. CASE e.action = "block"
    BY <2>1, <2>2 DEF OldBlocks
  <2>3. CASE e \in yes
    BY <2>1, <2>3 DEF AskedFor
  <2> QED
    BY <1>2, <2>2, <2>3 DEF Translated, Allowed
<1>3. ASSUME NEW e \in On("access"), Allowed(e, e.mode)
      PROVE  e.country # client.country
  <2>1. e.kind = "access" /\ e.on
    BY DEF On
  <2>2. CASE e.mode = "block"
    BY <1>1, <2>2 DEF OldBlocks
  <2>3. CASE e \in yes
    BY <2>1, <2>3 DEF AskedFor
  <2> QED
    BY <1>3, <2>2, <2>3 DEF Allowed
<1>4. ASSUME NEW e \in On("agent"), Allowed(e, e.mode)
      PROVE  <<e.agent, client.agent>> \notin WithinFold
  <2>1. e.kind = "agent" /\ e.on
    BY DEF On
  <2>2. e.agent # client.agent
    <3>1. CASE e.mode = "block"
      BY <1>1, <3>1 DEF OldBlocks
    <3>2. CASE e \in yes
      BY <2>1, <3>2 DEF AskedFor
    <3> QED
      BY <1>4, <3>1, <3>2 DEF Allowed
  <2> QED
    BY <2>2 DEF Loosely
<1>5. t.country \notin BlockCountries
  <2>1. ASSUME NEW e \in Translated, e.expr.of = "country"
        PROVE  e.expr.value # client.country
    <3>1. e.action # "log"
      BY <2>1 DEF LoggedCountry
    <3>2. ~Holds(e.expr, Asked)
      BY <1>2, <3>1
    <3> QED
      BY <1>1, <2>1, <3>2 DEF Holds, HoldsSimple
  <2> QED
    BY <1>1, <1>3, <2>1 DEF BlockCountries
<1>6. ASSUME NEW rule \in CustomRules, rule.action = "block"
      PROVE  ~Fires(rule, t)
  <2>1. CASE \E e \in On("agent") : /\ Allowed(e, e.mode)
                                    /\ rule = [target |-> "agent", value |-> e.agent, action |-> "block"]
    BY <1>1, <1>4, <2>1 DEF Fires
  <2>2. ASSUME NEW e \in Translated, e.expr.of # "country",
               rule = [target |-> WAFTarget(e.expr.of), value |-> e.expr.value,
                       action |-> IF e.action = "log" THEN "log" ELSE "block"]
        PROVE  ~Fires(rule, t)
    <3>1. e.action # "log"
      BY <1>6, <2>2
    <3>2. ~Holds(e.expr, Asked)
      BY <1>2, <3>1
    <3>3. e.expr.of \in Fields /\ rule.target = WAFTarget(e.expr.of) /\ rule.value = e.expr.value
      BY <2>2 DEF Translated, SimpleWAFMatch
    <3>4. CASE e.expr.of = "host"
      <4>1. e.expr.value # client.referer
        BY <3>2, <3>4 DEF Misled, Untargeted
      <4> QED
        BY <1>1, <3>3, <3>4, <4>1 DEF Fires, WAFTarget
    <3>5. CASE e.expr.of = "has"
      BY <1>1, <3>2, <3>3, <3>5 DEF Fires, WAFTarget, Holds, HoldsSimple
    <3>6. CASE e.expr.of = "is"
      <4>1. ~Occurs(e.expr.value, asked.path)
        BY <3>2, <3>6 DEF Loosely
      <4> QED
        BY <1>1, <3>3, <3>6, <4>1 DEF Fires, WAFTarget
    <3>7. CASE e.expr.of \in {"agentIs", "agentHas"}
      <4>1. <<e.expr.value, client.agent>> \notin WithinFold
        BY <3>2, <3>7 DEF Loosely
      <4> QED
        BY <1>1, <3>3, <3>7, <4>1 DEF Fires, WAFTarget
    <3> QED
      BY <3>3, <3>4, <3>5, <3>6, <3>7 DEF Fields
  <2> QED
    BY <2>1, <2>2 DEF CustomRules
<1> QED
  BY <1>5, <1>6 DEF NewRefuses

-----------------------------------------------------------------------------
(* What the gate's probes show.                                            *)

\* A request of the gate.
Asking(path) == Request([scheme |-> "https", host |-> Site, path |-> path],
                        [agent |-> Nothing, country |-> Nothing, referer |-> Nothing])

\* Without a rule that refuses or counts, neither edge does.
LEMMA OnlyPageRules ==
  ASSUME \A e \in zone : e.kind \in {"forward", "rewrite", "origin"}
  PROVE  /\ On("redirect") = {} /\ On("rate") = {} /\ Refusing = {}
         /\ \A r : ~OldBlocks(r) /\ ~NewRefuses(r) /\ ~NewCounts(r) /\ ~OldCounts(r)
<1>1. /\ On("redirect") = {} /\ On("rate") = {}
      /\ On("firewall") = {} /\ On("access") = {} /\ On("agent") = {}
  BY DEF On
<1>2. Translated = {} /\ RateLimits = {}
  BY <1>1 DEF Translated, RateLimits
<1>3. CustomRules = {} /\ BlockCountries = {}
  BY <1>1, <1>2 DEF CustomRules, BlockCountries
<1> QED
  BY <1>1, <1>2, <1>3 DEF Refusing, OldBlocks, NewRefuses, NewCounts, OldCounts

\* Where a probe is redirected at the new edge, the old one redirects it too, and to nowhere
\* else.
LEMMA ProbeAgrees ==
  ASSUME GatePasses, \A e \in zone : e.kind \in {"forward", "rewrite", "origin"},
         NEW path \in Probes, NEW b \in NewRedirects(Asking(path))
  PROVE  /\ OldRedirects(Asking(path)) # {}
         /\ \A a \in OldRedirects(Asking(path)) : a = b
<1> DEFINE r == Asking(path)
<1>1. r.scheme = "https"
  BY DEF Asking, Request
<1>2. \A a \in OldAnswers(r, 0), d \in NewAnswers(r, 0) : HardSame(a, d)
  BY DEF GatePasses, Asking
<1>3. ~NewRefuses(r) /\ ~NewCounts(r) /\ ~OldBlocks(OldRewritten(r)) /\ ~OldCounts(r)
  BY OnlyPageRules
<1> HIDE DEF r
<1>4. Going(b) \in NewAnswers(r, 0)
  BY <1>1, <1>3 DEF NewAnswers, r
<1>5. \A a \in OldAnswers(r, 0) : a.end = "no" /\ a.url = b
  BY <1>2, <1>4 DEF HardSame, Going
<1>6. OldRedirects(r) # {}
  <2> SUFFICES ASSUME OldRedirects(r) = {}
               PROVE  FALSE
    OBVIOUS
  <2>1. Served(OldOrigin(OldRewritten(r)), OldRewritten(r).path) \in OldAnswers(r, 0)
    BY <1>3 DEF OldAnswers
  <2> QED
    BY <1>5, <2>1 DEF Served
<1>7. ASSUME NEW a \in OldRedirects(r)
      PROVE  a = b
  <2>1. Going(a) \in OldAnswers(r, 0)
    BY <1>6, <1>7 DEF OldAnswers
  <2> QED
    BY <1>5, <2>1 DEF Going
<1> QED
  BY <1>6, <1>7 DEF r

\* Only a catch-all matches the probe of a catch-all.
LEMMA ProbeOfAll ==
  ASSUME EdgeAssumption, NEW g \in Glob, GlobMatches(g, <<Probe>>)
  PROVE  IsCatchAll(g)
<1> DEFINE p == g.prefix
<1>1. p \in Seq(Segments) /\ Len(p) \in Nat /\ p \in [1 .. Len(p) -> Segments] /\ g.star \in BOOLEAN
  BY LenProperties DEF Glob, Path
<1>2. Probe \notin Segments
  BY DEF EdgeAssumption
<1>3. <<Probe>> \in Seq(Segments \cup {Probe}) /\ Len(<<Probe>>) = 1 /\ <<Probe>>[1] = Probe
  OBVIOUS
<1>4. p \in Seq(Segments \cup {Probe})
  BY <1>1, SeqMonotonic
<1>5. p # <<Probe>>
  BY <1>1, <1>2, <1>3
<1>6. g.star
  BY <1>5 DEF GlobMatches
<1>7. p = << >>
  <2> SUFFICES ASSUME IsPrefix(p, <<Probe>>)
               PROVE  p = << >>
    BY <1>6 DEF GlobMatches, Below
  <2>1. Len(p) <= 1 /\ \A i \in 1 .. Len(p) : p[i] = <<Probe>>[i]
    <3> DEFINE q == <<Probe>>
    <3>1. q \in Seq(Segments \cup {Probe}) /\ Len(q) = 1 /\ IsPrefix(p, q)
      BY <1>3
    <3> HIDE DEF p, q
    <3>2. Len(p) <= Len(q) /\ \A i \in 1 .. Len(p) : p[i] = q[i]
      BY <1>4, <3>1, PrefixAt
    <3> QED
      BY <3>1, <3>2 DEF q
  <2>2. Len(p) # 1
    BY <1>1, <1>2, <1>3, <2>1
  <2>3. Len(p) = 0
    BY <1>1, <2>1, <2>2
  <2> QED
    BY <1>1, <2>3
<1> QED
  BY <1>6, <1>7 DEF IsCatchAll, Everything, Glob

\* A catch-all does not pass the gate: its target and the probe's path do not add up
\* to where the old edge sends the probe.
LEMMA NoCatchAllPasses ==
  ASSUME EdgeAssumption, ZoneOK, GatePasses,
         \A e \in zone : e.kind \in {"forward", "rewrite", "origin"}
  PROVE  ~PathAppended
<1> SUFFICES ASSUME PathAppended
             PROVE  FALSE
  OBVIOUS
<1>1. On("redirect") = {}
  BY OnlyPageRules
<1>2. \A red \in Redirects : \E e \in On("forward") : e.host = Site /\ red = Fwd(e)
  BY <1>1 DEF Redirects, Fwd
<1>3. PICK red \in Redirects : IsCatchAll(red.glob)
  BY DEF PathAppended
<1> DEFINE path == <<Probe>>
           r == Asking(path)
<1>4. r.path = path /\ r.host = Site
  BY DEF Asking, Request
<1>5. path \in Probes
  <2>1. PICK e \in On("forward") : red = Fwd(e)
    BY <1>2, <1>3
  <2>2. red.probe = e.glob.prefix \o (IF e.glob.star THEN <<Probe>> ELSE << >>) /\ red.glob = e.glob
    BY <2>1 DEF Fwd
  <2>3. e.glob.prefix = << >> /\ e.glob.star = TRUE
    BY <1>3, <2>2 DEF IsCatchAll, Everything
  <2>4. red.probe = << >> \o <<Probe>>
    BY <2>2, <2>3
  <2> QED
    BY <1>3, <2>4 DEF Probes
<1>6. \A e \in On("forward") : e.host = Site /\ GlobMatches(e.glob, path) => IsCatchAll(e.glob)
  BY ForwardOK, ProbeOfAll
<1> DEFINE match == {x \in Redirects : GlobMatches(x.glob, path)}
<1>7. {x \in match : ~IsCatchAll(x.glob)} = {}
  <2>1. \A x \in match : IsCatchAll(x.glob)
    <3> SUFFICES ASSUME NEW x \in Redirects, GlobMatches(x.glob, path)
                 PROVE  IsCatchAll(x.glob)
      OBVIOUS
    <3>1. PICK e \in On("forward") : e.host = Site /\ x = Fwd(e)
      BY <1>2
    <3>2. x.glob = e.glob
      BY <3>1 DEF Fwd
    <3> QED
      BY <1>6, <3>1, <3>2
  <2> QED
    BY <2>1
<1>8. NewRedirects(r) = {Rendered(x, r) : x \in match}
  BY <1>4, <1>7 DEF NewRedirects
<1>9. red \in match
  BY <1>3 DEF GlobMatches, IsCatchAll, Everything
<1>10. Rendered(red, r) \in NewRedirects(r)
  BY <1>8, <1>9
<1>11. PICK a \in OldRedirects(r) : TRUE
  BY <1>5, <1>10, ProbeAgrees
<1>12. PICK e \in OldForwards(r) : a = To(e, r)
  BY <1>1, <1>11 DEF OldRedirects, To
<1>13. e \in On("forward") /\ e.host = Site /\ GlobMatches(e.glob, path)
  BY <1>4, <1>12 DEF OldForwards
<1>14. IsCatchAll(e.glob) /\ Fwd(e) \in match
  BY <1>6, <1>13, ForwardIsRedirect
<1>15. Rendered(Fwd(e), r) = To(e, r)
  <2>1. Rendered(Fwd(e), r) \in NewRedirects(r)
    BY <1>8, <1>14
  <2> QED
    BY <1>5, <1>12, <2>1, ProbeAgrees
<1> DEFINE S == Segments \cup {Probe, Capture}
           q == e.to.path
<1>16. q \in Seq(S) /\ e.to \in Url /\ path \in Seq(S) /\ <<Capture>> \in Seq(S) /\ << >> \in Seq(S)
  <2>1. e.to \in Url /\ q \in Path
    BY <1>13, ForwardOK DEF Url
  <2> QED
    BY <2>1, SeqMonotonic DEF Path
<1>17. Rendered(Fwd(e), r).path = (q \o IF e.capture THEN <<Capture>> ELSE << >>) \o path
  BY <1>4, <1>14, <1>16 DEF Rendered, Fwd, Url
<1>18. To(e, r).path = q \o IF e.capture THEN path ELSE << >>
  <2>1. Behind(e.glob, path) = path
    <3>1. Len(e.glob.prefix) + 1 = 1
      BY <1>14 DEF IsCatchAll, Everything
    <3>2. SubSeq(path, 1, Len(path)) = path
      BY <1>16, SubSeqFull
    <3> QED
      BY <3>1, <3>2 DEF Behind
  <2> QED
    BY <1>4, <1>16, <2>1 DEF To, Url
<1> HIDE DEF r, S, q
<1>19. Len(q) \in Nat /\ Len(path) = 1 /\ Len(<<Capture>>) = 1 /\ Len(<< >>) = 0
  BY <1>16, LenProperties
<1> HIDE DEF path
<1>20. CASE e.capture
  <2>1. Len(Rendered(Fwd(e), r).path) = Len(q) + 2
    <3>1. q \o <<Capture>> \in Seq(S) /\ Len(q \o <<Capture>>) = Len(q) + 1
      BY <1>16, <1>19, ConcatProperties
    <3>2. Len((q \o <<Capture>>) \o path) = Len(q \o <<Capture>>) + Len(path)
      BY <1>16, <3>1, LenOfTwo
    <3>3. Len((q \o <<Capture>>) \o path) = Len(q) + 2
      BY <1>19, <3>1, <3>2
    <3> QED
      BY <1>17, <1>20, <3>3
  <2>2. Len(To(e, r).path) = Len(q) + 1
    <3>1. To(e, r).path = q \o path
      BY <1>18, <1>20
    <3>2. Len(q \o path) = Len(q) + 1
      BY <1>16, <1>19, LenOfTwo
    <3> QED
      BY <3>1, <3>2
  <2> QED
    BY <1>15, <1>19, <2>1, <2>2
<1>21. CASE ~e.capture
  <2>1. Len(Rendered(Fwd(e), r).path) = Len(q) + 1
    <3>1. q \o << >> = q
      BY <1>16, ConcatEmptySeq
    <3>2. Len(q \o path) = Len(q) + 1
      BY <1>16, <1>19, LenOfTwo
    <3> QED
      BY <1>17, <1>21, <3>1, <3>2
  <2>2. Len(To(e, r).path) = Len(q)
    <3>1. q \o << >> = q
      BY <1>16, ConcatEmptySeq
    <3> QED
      BY <1>18, <1>21, <3>1
  <2> QED
    BY <1>15, <1>19, <2>1, <2>2
<1> QED
  BY <1>20, <1>21

\* A pattern that the probe's HTTPS does not match at the old edge is seen to be missing.
LEMMA PatternsPassByHTTPS ==
  ASSUME EdgeAssumption, ZoneOK, GatePasses, ~Overlapping,
         \A e \in zone : e.kind \in {"forward", "rewrite", "origin"},
         NEW e \in On("forward"), e.host = Site
  PROVE  e.scheme \in {"any", "https"}
<1> SUFFICES ASSUME e.scheme \notin {"any", "https"}
             PROVE  FALSE
  OBVIOUS
<1>1. \A f \in On("forward") : f.host = Site => ~IsCatchAll(f.glob)
  BY NoCatchAllPasses, ForwardIsRedirect DEF PathAppended
<1> DEFINE p == e.glob.prefix
           path == p \o IF e.glob.star THEN <<Probe>> ELSE << >>
           r == Asking(path)
           S == Segments \cup {Probe}
<1>2. e.glob \in Glob /\ p \in Seq(S) /\ Len(p) \in Nat
  <2>1. e.glob \in Glob /\ p \in Path
    BY ForwardOK DEF Glob
  <2> QED
    BY <2>1, ProbePath, LenProperties
<1>3. path \in Probes
  <2>1. Fwd(e) \in Redirects
    BY ForwardIsRedirect
  <2>2. Fwd(e).probe = path
    BY DEF Fwd
  <2> HIDE DEF path
  <2> QED
    BY <2>1, <2>2 DEF Probes
<1>4. r.path = path /\ r.host = Site /\ r.scheme = "https"
  BY DEF Asking, Request
<1>5. path \in Seq(S) /\ GlobMatches(e.glob, path)
  <2>1. CASE e.glob.star
    <3>1. /\ p \o <<Probe>> \in Seq(S) /\ Len(p \o <<Probe>>) = Len(p) + 1
          /\ \A i \in 1 .. Len(p) : (p \o <<Probe>>)[i] = p[i]
      BY <1>2, ConcatProperties
    <3>2. IsPrefix(p, p \o <<Probe>>)
      <4> DEFINE q == p \o <<Probe>>
      <4>1. q \in Seq(S) /\ Len(p) <= Len(q) /\ \A i \in 1 .. Len(p) : p[i] = q[i]
        BY <1>2, <3>1
      <4> HIDE DEF p, q, S
      <4>2. IsPrefix(p, q)
        BY <1>2, <4>1, PrefixAt
      <4> QED
        BY <4>2 DEF p, q
    <3>3. p # p \o <<Probe>>
      BY <1>2, <3>1
    <3> QED
      BY <2>1, <3>1, <3>2, <3>3 DEF GlobMatches, Below
  <2>2. CASE ~e.glob.star
    <3>1. p \o << >> = p
      BY <1>2, ConcatEmptySeq
    <3> QED
      BY <1>2, <2>2, <3>1 DEF GlobMatches
  <2> QED
    BY <2>1, <2>2
<1> HIDE DEF path, r, S
<1>6. OldForwards(r) = {}
  <2> SUFFICES ASSUME NEW f \in OldForwards(r)
               PROVE  FALSE
    OBVIOUS
  <2>1. f \in On("forward") /\ f.host = Site /\ GlobMatches(f.glob, path) /\ f.scheme \in {"any", "https"}
    BY <1>4 DEF OldForwards
  <2>2. f = e
    BY <1>1, <1>5, <2>1, OnePattern DEF Pattern, S
  <2> QED
    BY <2>1, <2>2
<1>7. On("redirect") = {}
  BY OnlyPageRules
<1>8. OldRedirects(r) = {}
  BY <1>6, <1>7 DEF OldRedirects
<1>9. NewRedirects(r) # {}
  <2>1. Fwd(e) \in Redirects /\ Fwd(e).glob = e.glob /\ ~IsCatchAll(e.glob)
    BY <1>1, ForwardIsRedirect
  <2>2. Fwd(e) \in {red \in {x \in Redirects : GlobMatches(x.glob, r.path)} : ~IsCatchAll(red.glob)}
    BY <1>4, <1>5, <2>1
  <2> QED
    BY <2>2 DEF NewRedirects
<1>10. PICK b \in NewRedirects(r) : TRUE
  BY <1>9
<1> QED
  BY <1>3, <1>8, <1>10, ProbeAgrees DEF r

-----------------------------------------------------------------------------
(* Type correctness, and what a step does.                                 *)

\* Type correctness; until the first visit nobody is anywhere.
TypeInv ==
  /\ zone \in Zones /\ client \in Client
  /\ visits \in Nat
  /\ hops \in [Edges -> 0 .. MaxHops] /\ hits \in [Edges -> Nat]
  /\ at = [e \in Edges |-> at[e]]
  /\ visits > 0 => asked \in Url /\ asked.host = Site
  /\ visits = 0 => at = [e \in Edges |-> Lost]

\* Where an answer leaves a client that has followed h redirects.
Landed(answer, h) ==
  IF answer.end = "no" /\ answer.url.host # Site THEN Away(answer.url)
  ELSE IF answer.end = "no" /\ h = MaxHops THEN Lost ELSE answer

\* What only a visit changes.
Frame == zone' = zone /\ yes' = yes /\ client' = client /\ asked' = asked /\ visits' = visits

\* The edges start with the types they keep.
LEMMA TypeInit ==
  ASSUME EdgeAssumption, EdgeInit
  PROVE  TypeInv
BY DEF EdgeAssumption, EdgeInit, TypeInv, Edges

\* What an answer does to the client that gets it.
LEMMA ArriveDoes ==
  ASSUME EdgeAssumption, TypeInv, NEW e \in Edges, NEW answer, Arrive(e, answer)
  PROVE  /\ at' = [x \in Edges |-> IF x = e THEN Landed(answer, hops[e]) ELSE at[x]]
         /\ hops' \in [Edges -> 0 .. MaxHops]
         /\ \A x \in Edges \ {e} : hops'[x] = hops[x]
         /\ answer.end = "no" /\ hops[e] < MaxHops => hops'[e] = hops[e] + 1
         /\ hops[e] <= hops'[e]
<1>1. at' = [at EXCEPT ![e] = Landed(answer, hops[e])]
  BY DEF Arrive, Landed
<1>2. MaxHops \in Nat /\ hops[e] \in 0 .. MaxHops
  BY DEF EdgeAssumption, TypeInv
<1>3. hops' = [hops EXCEPT ![e] = IF answer.end = "no" /\ hops[e] < MaxHops THEN hops[e] + 1 ELSE hops[e]]
  BY DEF Arrive
<1>4. (IF answer.end = "no" /\ hops[e] < MaxHops THEN hops[e] + 1 ELSE hops[e]) \in 0 .. MaxHops
  BY <1>2
<1> QED
  BY <1>1, <1>2, <1>3, <1>4 DEF TypeInv

\* What a visit changes.
LEMMA VisitDoes ==
  ASSUME TypeInv, NEW scheme \in {"http", "https"}, NEW path \in Paths, Visit(scheme, path),
         EdgeAssumption
  PROVE  /\ TypeInv' /\ visits' > 0 /\ asked' \in Url /\ asked'.host = Site
         /\ at' = [e \in Edges |-> Going(asked')] /\ hops' = [e \in Edges |-> 0]
         /\ Ended /\ zone' = zone /\ yes' = yes /\ client' = client /\ hits' = hits
<1>1. MaxHops \in Nat /\ path \in Path
  BY DEF EdgeAssumption
<1>2. /\ asked' = [scheme |-> scheme, host |-> Site, path |-> path]
      /\ at' = [e \in Edges |-> Going(asked')] /\ hops' = [e \in Edges |-> 0]
      /\ visits' = visits + 1
      /\ Ended /\ zone' = zone /\ yes' = yes /\ client' = client /\ hits' = hits
  BY DEF Visit
<1>3. asked' \in Url /\ asked'.host = Site
  BY <1>1, <1>2 DEF Url
<1>4. visits' \in Nat /\ visits' > 0
  BY <1>2 DEF TypeInv
<1>5. hops' \in [Edges -> 0 .. MaxHops]
  BY <1>1, <1>2
<1> QED
  BY <1>2, <1>3, <1>4, <1>5 DEF TypeInv

\* What a request to the old edge changes.
LEMMA HopOldDoes ==
  ASSUME EdgeAssumption, TypeInv, HopOld
  PROVE  /\ TypeInv' /\ Frame /\ visits > 0 /\ at["old"].end = "no"
         /\ at'["new"] = at["new"] /\ hops'["new"] = hops["new"] /\ hits'["new"] = hits["new"]
         /\ hits'["old"] = hits["old"] + IF OldCounts(Sent(at["old"].url)) THEN 1 ELSE 0
         /\ \E answer \in OldAnswers(Sent(at["old"].url), hits'["old"]) :
              /\ at'["old"] = Landed(answer, hops["old"])
              /\ answer.end = "no" /\ hops["old"] < MaxHops => hops'["old"] = hops["old"] + 1
              /\ hops["old"] <= hops'["old"]
<1> DEFINE r == Sent(at["old"].url)
           n == hits["old"] + IF OldCounts(r) THEN 1 ELSE 0
<1>1. /\ at["old"].end = "no" /\ Frame /\ hits' = [hits EXCEPT !["old"] = n]
      /\ \E answer \in OldAnswers(r, n) : Arrive("old", answer)
  BY DEF HopOld, Frame, Sent
<1>2. "old" \in Edges /\ "new" \in Edges /\ "old" # "new"
  BY DEF Edges
<1>3. n \in Nat
  BY <1>2 DEF TypeInv
<1> HIDE DEF n, r
<1>4. hits' \in [Edges -> Nat] /\ hits'["old"] = n /\ hits'["new"] = hits["new"]
  BY <1>1, <1>2, <1>3 DEF TypeInv
<1>5. visits > 0
  <2>1. at # [e \in Edges |-> Lost]
    BY <1>1, <1>2 DEF Lost
  <2> QED
    BY <2>1 DEF TypeInv
<1>6. PICK answer \in OldAnswers(r, n) : Arrive("old", answer)
  BY <1>1
<1>7. /\ at' = [x \in Edges |-> IF x = "old" THEN Landed(answer, hops["old"]) ELSE at[x]]
      /\ hops' \in [Edges -> 0 .. MaxHops]
      /\ hops'["new"] = hops["new"]
      /\ answer.end = "no" /\ hops["old"] < MaxHops => hops'["old"] = hops["old"] + 1
      /\ hops["old"] <= hops'["old"]
  BY <1>2, <1>6, ArriveDoes
<1>8. TypeInv'
  BY <1>1, <1>4, <1>5, <1>7 DEF TypeInv, Frame
<1> QED
  BY <1>1, <1>2, <1>4, <1>5, <1>6, <1>7, <1>8 DEF n, r

\* What a request to the new edge changes.
LEMMA HopNewDoes ==
  ASSUME EdgeAssumption, TypeInv, HopNew
  PROVE  /\ TypeInv' /\ Frame /\ visits > 0 /\ at["old"].end # "no" /\ at["new"].end = "no"
         /\ at'["old"] = at["old"] /\ hops'["old"] = hops["old"] /\ hits'["old"] = hits["old"]
         /\ LET r == Sent(at["new"].url) IN
            hits'["new"] = hits["new"] + IF r.scheme = "https" /\ NewCounts(r) THEN 1 ELSE 0
         /\ \E answer \in NewAnswers(Sent(at["new"].url), hits'["new"]) :
              /\ at'["new"] = Landed(answer, hops["new"])
              /\ answer.end = "no" /\ hops["new"] < MaxHops => hops'["new"] = hops["new"] + 1
              /\ hops["new"] <= hops'["new"]
<1> DEFINE r == Sent(at["new"].url)
           n == hits["new"] + IF r.scheme = "https" /\ NewCounts(r) THEN 1 ELSE 0
<1>1. /\ at["old"].end # "no" /\ at["new"].end = "no" /\ Frame /\ hits' = [hits EXCEPT !["new"] = n]
      /\ \E answer \in NewAnswers(r, n) : Arrive("new", answer)
  BY DEF HopNew, Frame, Sent
<1>2. "old" \in Edges /\ "new" \in Edges /\ "old" # "new"
  BY DEF Edges
<1>3. n \in Nat
  BY <1>2 DEF TypeInv
<1> HIDE DEF n, r
<1>4. hits' \in [Edges -> Nat] /\ hits'["new"] = n /\ hits'["old"] = hits["old"]
  BY <1>1, <1>2, <1>3 DEF TypeInv
<1>5. visits > 0
  <2>1. at # [e \in Edges |-> Lost]
    BY <1>1, <1>2 DEF Lost
  <2> QED
    BY <2>1 DEF TypeInv
<1>6. PICK answer \in NewAnswers(r, n) : Arrive("new", answer)
  BY <1>1
<1>7. /\ at' = [x \in Edges |-> IF x = "new" THEN Landed(answer, hops["new"]) ELSE at[x]]
      /\ hops' \in [Edges -> 0 .. MaxHops]
      /\ hops'["old"] = hops["old"]
      /\ answer.end = "no" /\ hops["new"] < MaxHops => hops'["new"] = hops["new"] + 1
      /\ hops["new"] <= hops'["new"]
  BY <1>2, <1>6, ArriveDoes
<1>8. TypeInv'
  BY <1>1, <1>4, <1>5, <1>7 DEF TypeInv, Frame
<1> QED
  BY <1>1, <1>2, <1>4, <1>5, <1>6, <1>7, <1>8 DEF n, r

\* What the end of a window changes.
LEMMA WindowDoes ==
  ASSUME TypeInv, Window
  PROVE  /\ TypeInv' /\ Frame /\ Ended /\ at' = at /\ hops' = hops
         /\ hits'["new"] = 0 /\ hits'["old"] \in Nat
         /\ hits'["old"] = 0 \/ \E e \in On("rate") : e.lasts
<1>1. hits' \in [Edges -> Nat] /\ hits'["new"] = 0 /\ hits'["old"] \in Nat
  BY DEF Window, TypeInv, Edges
<1>2. hits'["old"] = 0 \/ \E e \in On("rate") : e.lasts
  BY DEF Window, OldOutlasts, Edges
<1> QED
  BY <1>1, <1>2 DEF Window, TypeInv, Frame

\* The kinds of step there are.
LEMMA NextIs ==
  ASSUME [EdgeNext]_edgeVars
  PROVE  \/ \E scheme \in {"http", "https"}, path \in Paths : Visit(scheme, path)
         \/ HopOld \/ HopNew \/ Window \/ UNCHANGED edgeVars
BY DEF EdgeNext

\* Every step keeps the types.
LEMMA TypeStep ==
  ASSUME EdgeAssumption, TypeInv, [EdgeNext]_edgeVars
  PROVE  TypeInv'
<1>1. CASE UNCHANGED edgeVars
  BY <1>1 DEF TypeInv, edgeVars
<1> QED
  BY <1>1, NextIs, VisitDoes, HopOldDoes, HopNewDoes, WindowDoes

\* A stuttering step changes nothing.
LEMMA StutterFrames ==
  ASSUME UNCHANGED edgeVars
  PROVE  Frame /\ at' = at /\ hops' = hops /\ hits' = hits
BY DEF edgeVars, Frame

\* A URL by HTTPS, and what the new edge answers by either scheme.
LEMMA HttpsIs ==
  ASSUME NEW u \in Url
  PROVE  /\ Https(u) \in Url /\ Https(u).host = u.host /\ Https(u).path = u.path
         /\ u.scheme # "http" => Https(u) = u
         /\ Sent(u).scheme = u.scheme /\ Sent(Https(u)).scheme = "https"
         /\ SameBut(Sent(u), Sent(Https(u)))
BY DEF Url, Https, Sent, Request, SameBut

\* Caddy sends what comes by HTTP to HTTPS, whatever the zone.
LEMMA AnswerByHTTP ==
  ASSUME NEW u \in Url, u.scheme = "http", NEW n
  PROVE  NewAnswers(Sent(u), n) = {Going(Https(u))}
BY DEF NewAnswers, Sent, Request, Https, Url

-----------------------------------------------------------------------------
(* Who is refused stays refused.                                           *)

\* Whom the new edge refuses is on the way to the refusal, or refused.
RefusedInv ==
  visits > 0 /\ NewRefuses(Sent(Https(asked))) =>
    \/ at["new"] = Going(asked) /\ hops["new"] = 0
    \/ at["new"] = Going(Https(asked))
    \/ at["new"].end = "refused"

\* Whom the new edge refuses is settled by the zone and the visit.
LEMMA RefusesStays ==
  ASSUME Frame
  PROVE  NewRefuses(Sent(Https(asked)))' <=> NewRefuses(Sent(Https(asked)))
<1>1. Sent(Https(asked))' = Sent(Https(asked))
  BY DEF Frame, Sent, Https, Request
<1>2. CustomRules' = CustomRules /\ BlockCountries' = BlockCountries
  BY DEF Frame, CustomRules, BlockCountries, Translated, Allowed, On
<1> QED
  BY <1>1, <1>2 DEF NewRefuses, Fires

\* Every step keeps RefusedInv.
LEMMA RefusedStep ==
  ASSUME EdgeAssumption, TypeInv, RefusedInv, [EdgeNext]_edgeVars
  PROVE  RefusedInv'
<1>1. CASE \E scheme \in {"http", "https"}, path \in Paths : Visit(scheme, path)
  <2>1. at'["new"] = Going(asked') /\ hops'["new"] = 0
    BY <1>1, VisitDoes DEF Edges
  <2> QED
    BY <2>1 DEF RefusedInv
<1>2. CASE HopOld
  <2>1. Frame /\ at'["new"] = at["new"] /\ hops'["new"] = hops["new"]
    BY <1>2, HopOldDoes
  <2> QED
    BY <2>1, RefusesStays DEF RefusedInv, Frame, Https
<1>3. CASE HopNew
  <2> SUFFICES ASSUME NewRefuses(Sent(Https(asked)))
               PROVE  \/ at'["new"] = Going(Https(asked))
                      \/ at'["new"].end = "refused"
    BY <1>3, HopNewDoes, RefusesStays DEF RefusedInv, Frame, Https
  <2>1. at["new"].end = "no" /\ visits > 0 /\ asked \in Url /\ asked.host = Site
    BY <1>3, HopNewDoes DEF TypeInv
  <2>2. PICK answer \in NewAnswers(Sent(at["new"].url), hits'["new"]) :
          at'["new"] = Landed(answer, hops["new"])
    BY <1>3, HopNewDoes
  <2>3. CASE at["new"] = Going(asked) /\ hops["new"] = 0 /\ asked.scheme = "http"
    <3>1. answer = Going(Https(asked))
      BY <2>1, <2>2, <2>3, AnswerByHTTP DEF Going
    <3>2. hops["new"] # MaxHops
      BY <2>3 DEF EdgeAssumption
    <3>3. Https(asked).host = Site
      BY <2>1, HttpsIs
    <3> QED
      BY <2>2, <3>1, <3>2, <3>3 DEF Landed, Going
  <2>4. CASE at["new"] = Going(Https(asked))
    <3>1. Sent(Https(asked)).scheme = "https"
      BY <2>1, HttpsIs
    <3>2. answer = Refused
      BY <2>2, <2>4, <3>1 DEF NewAnswers, Going
    <3> QED
      BY <2>2, <3>2 DEF Landed, Refused
  <2>5. CASE at["new"] = Going(asked) /\ asked.scheme # "http"
    BY <2>1, <2>4, <2>5, HttpsIs
  <2> QED
    BY <2>1, <2>3, <2>4, <2>5 DEF RefusedInv
<1>4. CASE Window
  BY <1>4, WindowDoes, RefusesStays DEF RefusedInv, Frame, Https
<1>5. CASE UNCHANGED edgeVars
  BY <1>5, StutterFrames, RefusesStays DEF RefusedInv, Frame, Https
<1> QED
  BY <1>1, <1>2, <1>3, <1>4, <1>5, NextIs

-----------------------------------------------------------------------------
(* Where nothing redirects, a visit is one request, and the rate limits of *)
(* the two edges count side by side.                                       *)

\* The zone redirects nobody.
Unredirected == On("redirect") \cup On("forward") = {}

\* A zone without redirects has none at either edge.
LEMMA NoRedirects ==
  ASSUME Unredirected
  PROVE  \A r : OldRedirects(r) = {} /\ NewRedirects(r) = {}
<1>1. On("redirect") = {} /\ On("forward") = {}
  BY DEF Unredirected
<1>2. \A r : OldForwards(r) = {}
  BY <1>1 DEF OldForwards
<1>3. Redirects = {}
  BY <1>1 DEF Redirects
<1>4. \A r : OldRedirects(r) = {}
  BY <1>1, <1>2 DEF OldRedirects
<1>5. \A r : NewRedirects(r) = {}
  BY <1>3 DEF NewRedirects
<1> QED
  BY <1>4, <1>5

\* The old edge's answers to a request it does not redirect, and what each tells.
LEMMA OldAnswerIs ==
  ASSUME NEW r, NEW n, OldRedirects(r) = {}, NEW answer \in OldAnswers(r, n)
  PROVE  \/ answer = Refused /\ OldBlocks(OldRewritten(r))
         \/ answer = Limited /\ OldCounts(r) /\ OldOver(n)
         \/ /\ answer = Served(OldOrigin(OldRewritten(r)), OldRewritten(r).path)
            /\ ~(OldCounts(r) /\ OldOver(n))
            /\ OldBlocks(OldRewritten(r)) => Exempt(OldRewritten(r))
<1> DEFINE s == OldRewritten(r)
<1>1. OldAnswers(r, n) =
        (IF OldBlocks(s) THEN {Refused} ELSE {}) \cup
        (IF OldBlocks(s) /\ ~Exempt(s) THEN {}
         ELSE IF OldCounts(r) /\ OldOver(n) THEN {Limited} ELSE {Served(OldOrigin(s), s.path)})
  BY DEF OldAnswers
<1> HIDE DEF s
<1>2. CASE answer = Refused /\ OldBlocks(s)
  BY <1>2 DEF s
<1>3. CASE /\ ~(OldBlocks(s) /\ ~Exempt(s))
           /\ answer = IF OldCounts(r) /\ OldOver(n) THEN Limited ELSE Served(OldOrigin(s), s.path)
  BY <1>3 DEF s
<1> QED
  BY <1>1, <1>2, <1>3

\* The new edge's answers to a request it does not redirect, and what each tells.
LEMMA NewAnswerIs ==
  ASSUME NEW u \in Url, NEW n, NewRedirects(Sent(Https(u))) = {},
         NEW answer \in NewAnswers(Sent(Https(u)), n)
  PROVE  LET r == Sent(Https(u)) IN
         \/ answer = Refused /\ NewRefuses(r)
         \/ answer = Limited /\ NewCounts(r) /\ NewOver(n)
         \/ /\ answer = Served(NewOrigin(NewRewritten(r)), NewRewritten(r).path)
            /\ ~NewRefuses(r) /\ ~(NewCounts(r) /\ NewOver(n))
<1>1. Sent(Https(u)).scheme = "https"
  BY HttpsIs
<1> QED
  BY <1>1 DEF NewAnswers

\* Where nothing redirects, the old edge answers what was asked and the new one that by HTTPS.
PlainInv ==
  Unredirected /\ visits > 0 =>
    /\ at["old"].end = "no" => at["old"] = Going(asked) /\ at["new"] = Going(asked)
    /\ at["new"].end = "no" => \/ at["new"] = Going(asked) /\ hops["new"] = 0
                               \/ at["new"] = Going(Https(asked))

\* What the zone says stays while the zone does.
LEMMA FramesHold ==
  ASSUME Frame
  PROVE  /\ Unredirected' <=> Unredirected
         /\ Refusing' = Refusing /\ On("rewrite")' = On("rewrite") /\ On("rate")' = On("rate")
         /\ Asked' = Asked
BY DEF Frame, Unredirected, Refusing, On, Asked, Request

\* The old edge's only answer, and the new one's.
LEMMA PlainOld ==
  ASSUME EdgeAssumption, TypeInv, PlainInv, Unredirected, HopOld
  PROVE  /\ at["old"] = Going(asked) /\ at["new"] = Going(asked)
         /\ at'["old"].end # "no" /\ at'["new"] = at["new"] /\ hops'["new"] = hops["new"]
         /\ hits'["old"] = hits["old"] + IF OldCounts(Asked) THEN 1 ELSE 0
         /\ at'["old"].end = "limited" => OldCounts(Asked) /\ OldOver(hits'["old"])
         /\ at'["old"].end = "served" => ~(OldCounts(Asked) /\ OldOver(hits'["old"]))
<1>1. at["old"] = Going(asked) /\ at["new"] = Going(asked) /\ at["old"].end = "no"
  BY HopOldDoes DEF PlainInv
<1>2. Sent(at["old"].url) = Asked
  BY <1>1 DEF Going, Sent, Asked
<1>3. PICK answer \in OldAnswers(Asked, hits'["old"]) : at'["old"] = Landed(answer, hops["old"])
  BY <1>2, HopOldDoes
<1>4. OldRedirects(Asked) = {}
  BY NoRedirects
<1>5. /\ at'["old"] = answer /\ answer.end # "no"
      /\ answer.end = "limited" => OldCounts(Asked) /\ OldOver(hits'["old"])
      /\ answer.end = "served" => ~(OldCounts(Asked) /\ OldOver(hits'["old"]))
  BY <1>3, <1>4, OldAnswerIs DEF Landed, Refused, Limited, Served
<1> QED
  BY <1>1, <1>2, <1>5, HopOldDoes

\* The new edge's side of a visit where nothing redirects: to HTTPS, then the answer.
LEMMA PlainNew ==
  ASSUME EdgeAssumption, TypeInv, PlainInv, Unredirected, HopNew
  PROVE  /\ visits > 0 /\ at["old"].end # "no" /\ at["new"].end = "no"
         /\ at'["old"] = at["old"] /\ hits'["old"] = hits["old"]
         /\ \/ hits'["new"] = hits["new"] /\ at'["new"] = Going(Https(asked))
            \/ LET r == Sent(Https(asked)) IN
               /\ hits'["new"] = hits["new"] + IF NewCounts(r) THEN 1 ELSE 0
               /\ \/ at'["new"].end = "refused"
                  \/ at'["new"].end = "limited"
                  \/ at'["new"].end = "served" /\ ~(NewCounts(r) /\ NewOver(hits'["new"]))
<1>1. at["new"].end = "no" /\ visits > 0 /\ asked \in Url /\ asked.host = Site
  BY HopNewDoes DEF TypeInv
<1>2. PICK answer \in NewAnswers(Sent(at["new"].url), hits'["new"]) :
        at'["new"] = Landed(answer, hops["new"])
  BY HopNewDoes
<1>3. hits'["new"] = hits["new"] + IF Sent(at["new"].url).scheme = "https" /\ NewCounts(Sent(at["new"].url))
                                   THEN 1 ELSE 0
  BY HopNewDoes
<1>4. CASE at["new"] = Going(asked) /\ hops["new"] = 0 /\ asked.scheme = "http"
  <2>1. answer = Going(Https(asked))
    BY <1>1, <1>2, <1>4, AnswerByHTTP DEF Going
  <2>2. hops["new"] # MaxHops
    BY <1>4 DEF EdgeAssumption
  <2>3. Https(asked).host = Site
    BY <1>1, HttpsIs
  <2>4. at'["new"] = Going(Https(asked))
    BY <1>2, <2>1, <2>2, <2>3 DEF Landed, Going
  <2>5. Sent(at["new"].url).scheme = "http"
    BY <1>1, <1>4, HttpsIs DEF Going
  <2>6. hits'["new"] = hits["new"]
    BY <1>3, <2>5 DEF TypeInv, Edges
  <2> QED
    BY <1>1, <2>4, <2>6, HopNewDoes
<1>5. CASE at["new"] = Going(Https(asked))
  <2> DEFINE r == Sent(Https(asked))
  <2>1. at["new"].url = Https(asked) /\ r.scheme = "https"
    BY <1>1, <1>5, HttpsIs DEF Going
  <2>2. NewRedirects(r) = {}
    BY NoRedirects
  <2>3. answer \in NewAnswers(r, hits'["new"])
    BY <1>2, <2>1
  <2>4. \/ answer = Refused
        \/ answer = Limited
        \/ /\ answer = Served(NewOrigin(NewRewritten(r)), NewRewritten(r).path)
           /\ ~(NewCounts(r) /\ NewOver(hits'["new"]))
    BY <1>1, <2>2, <2>3, NewAnswerIs
  <2>5. at'["new"] = answer
    BY <1>2, <2>4 DEF Landed, Refused, Limited, Served
  <2>6. hits'["new"] = hits["new"] + IF NewCounts(r) THEN 1 ELSE 0
    BY <1>3, <2>1
  <2> HIDE DEF r
  <2>7. \/ at'["new"].end = "refused"
        \/ at'["new"].end = "limited"
        \/ at'["new"].end = "served" /\ ~(NewCounts(r) /\ NewOver(hits'["new"]))
    BY <2>4, <2>5 DEF Refused, Limited, Served
  <2> QED
    BY <1>1, <2>6, <2>7, HopNewDoes DEF r
<1>6. CASE at["new"] = Going(asked) /\ asked.scheme # "http"
  BY <1>1, <1>5, <1>6, HttpsIs
<1> QED
  BY <1>1, <1>4, <1>5, <1>6 DEF PlainInv

\* Every step keeps PlainInv.
LEMMA PlainStep ==
  ASSUME EdgeAssumption, TypeInv, PlainInv, [EdgeNext]_edgeVars
  PROVE  PlainInv'
<1>1. CASE \E scheme \in {"http", "https"}, path \in Paths : Visit(scheme, path)
  <2>1. at' = [e \in Edges |-> Going(asked')] /\ hops'["new"] = 0
    BY <1>1, VisitDoes DEF Edges
  <2> QED
    BY <2>1 DEF PlainInv, Edges
<1>2. CASE HopOld
  <2> SUFFICES ASSUME Unredirected
               PROVE  PlainInv'
    BY <1>2, HopOldDoes, FramesHold DEF PlainInv
  <2>1. Frame /\ visits > 0
    BY <1>2, HopOldDoes
  <2> QED
    BY <1>2, <2>1, PlainOld DEF PlainInv, Frame, Https
<1>3. CASE HopNew
  <2> SUFFICES ASSUME Unredirected
               PROVE  PlainInv'
    BY <1>3, HopNewDoes, FramesHold DEF PlainInv
  <2>1. Frame /\ visits > 0
    BY <1>3, HopNewDoes
  <2> QED
    BY <1>3, <2>1, PlainNew DEF PlainInv, Frame, Https
<1>4. CASE Window
  BY <1>4, WindowDoes, FramesHold DEF PlainInv, Frame, Https
<1>5. CASE UNCHANGED edgeVars
  BY <1>5, StutterFrames, FramesHold DEF PlainInv, Frame, Https
<1> QED
  BY <1>1, <1>2, <1>3, <1>4, <1>5, NextIs

\* The new edge has not answered a request the old one has.
Due == visits > 0 /\ at["old"].end # "no" /\ at["new"].end = "no"
DueCount == IF Due /\ OldCounts(Asked) THEN 1 ELSE 0

\* A rate limit that counts no more than it says, with nothing beside it.
Exact ==
  /\ Unredirected /\ Refusing = {} /\ On("rewrite") = {}
  /\ \A e \in On("rate") : e.expr.of \in {"true", "has"} /\ (IsPerIPRateLimit(e.chars) => e.action = "block")

\* Counted exactly, the new edge is never ahead, so that it limits nobody the old one serves.
FewerInv ==
  Exact =>
    /\ hits["new"] + DueCount <= hits["old"]
    /\ Due /\ at["old"].end = "served" => ~(OldCounts(Asked) /\ OldOver(hits["old"]))

\* A rate limit that counts no less than it says.
Covered ==
  /\ Unredirected /\ On("rewrite") = {}
  /\ \A e \in On("rate") : /\ IsPerIPRateLimit(e.chars) /\ ~e.lasts
                           /\ e.expr.of \in {"true", "is", "has", "starts"}

\* Counted fully, the new edge is never behind: whom the old one limits, it limits or will.
MoreInv ==
  Covered =>
    /\ hits["old"] <= hits["new"] + DueCount
    /\ visits > 0 /\ at["old"].end = "limited" =>
         IF at["new"].end = "no" THEN OldCounts(Asked) /\ OldOver(hits["old"])
         ELSE at["new"].end \in {"refused", "limited"}

\* A zone without rewrites leaves requests as they are.
LEMMA Unrewritten ==
  ASSUME On("rewrite") = {}
  PROVE  \A r : OldRewritten(r) = r
BY DEF OldRewritten

\* Where a rate limit has no wider scope than it says, the new edge counts nothing else.
LEMMA CountsIfExact ==
  ASSUME EdgeAssumption, ZoneOK, Exact, NEW t, SameBut(Asked, t), NewCounts(t)
  PROVE  OldCounts(Asked)
<1>1. OldRedirects(Asked) = {}
  BY NoRedirects DEF Exact
<1>2. OldRewritten(Asked) = Asked
  BY Unrewritten DEF Exact
<1>3. ~OldBlocks(Asked)
  <2>1. On("firewall") = {} /\ On("access") = {} /\ On("agent") = {}
    BY DEF Exact, Refusing
  <2> QED
    BY <2>1 DEF OldBlocks
<1>4. PICK e \in On("rate") : \/ RatePath(e.expr) = Nothing
                              \/ Occurs(RatePath(e.expr), t.path)
  BY DEF NewCounts, RateLimits
<1>5. e.expr.of \in {"true", "has"} /\ (e.expr.of \in Fields => e.expr.value # Nothing)
  BY DEF Exact, ZoneOK, RuleOK, On
<1>6. Holds(e.expr, Asked)
  <2>1. CASE e.expr.of = "true"
    BY <2>1 DEF Holds, HoldsSimple
  <2>2. CASE e.expr.of = "has"
    <3>1. RatePath(e.expr) = e.expr.value /\ e.expr.value # Nothing
      BY <1>5, <2>2 DEF RatePath, Fields
    <3>2. Occurs(e.expr.value, Asked.path)
      BY <1>4, <3>1 DEF SameBut
    <3> QED
      BY <2>2, <3>2 DEF Holds, HoldsSimple
  <2> QED
    BY <1>5, <2>1, <2>2
<1> QED
  BY <1>1, <1>2, <1>3, <1>6 DEF OldCounts

\* ratelimitPath keeps in its scope every request its rule counts.
LEMMA CountsIfCovered ==
  ASSUME EdgeAssumption, ZoneOK, Covered, asked.path \in Path,
         NEW t, SameBut(Asked, t), OldCounts(Asked)
  PROVE  NewCounts(t)
<1>1. OldRewritten(Asked) = Asked
  BY Unrewritten DEF Covered
<1>2. PICK e \in On("rate") : Holds(e.expr, Asked)
  BY <1>1 DEF OldCounts
<1>3. /\ IsPerIPRateLimit(e.chars) /\ e.expr.of \in {"true", "is", "has", "starts"}
      /\ e.expr.of = "is" => e.expr.value \in Path
  BY DEF Covered, ZoneOK, RuleOK, On
<1>4. [path |-> RatePath(e.expr), of |-> e.expr.of, limit |-> e.limit] \in RateLimits
  BY <1>3 DEF RateLimits
<1>5. t.path = asked.path /\ Asked.path = asked.path
  BY DEF SameBut, Asked, Request
<1>6. CASE e.expr.of \in {"true", "starts"}
  <2>1. RatePath(e.expr) = Nothing
    BY <1>6 DEF RatePath, Fields
  <2> QED
    BY <1>4, <2>1 DEF NewCounts
<1>7. CASE e.expr.of \in {"is", "has"}
  <2>1. RatePath(e.expr) = e.expr.value
    BY <1>7 DEF RatePath, Fields
  <2>2. Occurs(e.expr.value, asked.path)
    BY <1>2, <1>3, <1>5, <1>7, OccursInItself DEF Holds, HoldsSimple, Path
  <2> QED
    BY <1>4, <1>5, <1>7, <2>1, <2>2 DEF NewCounts
<1> QED
  BY <1>3, <1>6, <1>7

\* What the zone and the visit decide stays while they do.
LEMMA CountsStay ==
  ASSUME Frame
  PROVE  /\ OldCounts(Asked)' <=> OldCounts(Asked)
         /\ Exact' <=> Exact
         /\ Covered' <=> Covered
         /\ On("rate")' = On("rate")
<1>1. /\ On("rate")' = On("rate") /\ On("rewrite")' = On("rewrite") /\ Refusing' = Refusing
      /\ On("redirect")' = On("redirect") /\ On("forward")' = On("forward")
      /\ On("firewall")' = On("firewall") /\ On("access")' = On("access") /\ On("agent")' = On("agent")
      /\ Asked' = Asked
  BY FramesHold DEF On, Frame
<1>2. (Exact' <=> Exact) /\ (Covered' <=> Covered)
  BY <1>1 DEF Exact, Covered, Unredirected
<1>3. OldRewritten(Asked)' = OldRewritten(Asked)
  BY <1>1 DEF OldRewritten
<1>4. OldRedirects(Asked)' = OldRedirects(Asked)
  BY <1>1 DEF OldRedirects, OldForwards
<1>5. OldBlocks(OldRewritten(Asked))' <=> OldBlocks(OldRewritten(Asked))
  BY <1>1, <1>3 DEF OldBlocks
<1>6. OldCounts(Asked)' <=> OldCounts(Asked)
  BY <1>1, <1>3, <1>4, <1>5 DEF OldCounts
<1> QED
  BY <1>1, <1>2, <1>6

\* Past a limit is past it for every later request of the window, at either edge, if what the
\* one limits the other does.
LEMMA OverAlike ==
  ASSUME ZoneOK, NEW m \in Nat, NEW n \in Nat, m <= n
  PROVE  /\ Covered /\ OldOver(m) => NewOver(n)
         /\ Exact /\ NewOver(m) => OldOver(n)
<1>1. \A e \in On("rate") : e.limit \in Nat
  BY DEF ZoneOK, RuleOK, On
<1>2. ASSUME Covered, OldOver(m)
      PROVE  NewOver(n)
  <2>1. PICK e \in On("rate") : m > e.limit
    BY <1>2 DEF OldOver
  <2>2. [path |-> RatePath(e.expr), of |-> e.expr.of, limit |-> e.limit] \in RateLimits
    BY <1>2 DEF RateLimits, Covered
  <2>3. n > e.limit
    BY <1>1, <2>1
  <2> QED
    BY <2>2, <2>3 DEF NewOver
<1>3. ASSUME Exact, NewOver(m)
      PROVE  OldOver(n)
  <2>1. PICK e \in On("rate") : IsPerIPRateLimit(e.chars) /\ m > e.limit
    BY <1>3 DEF NewOver, RateLimits
  <2>2. e.action = "block"
    BY <1>3, <2>1 DEF Exact
  <2> QED
    BY <1>1, <2>1, <2>2 DEF OldOver
<1> QED
  BY <1>2, <1>3

\* The zone is one of those the assumption is about.
LEMMA ZonesOK ==
  ASSUME EdgeAssumption, TypeInv
  PROVE  ZoneOK
BY DEF EdgeAssumption, TypeInv, ZoneOK

\* The request by HTTPS differs from the one asked in its scheme only.
LEMMA AskedAlike ==
  ASSUME TypeInv, visits > 0
  PROVE  SameBut(Asked, Sent(Https(asked))) /\ asked.path \in Path /\ asked \in Url
<1>1. asked \in Url
  BY DEF TypeInv
<1> QED
  BY <1>1, HttpsIs DEF Asked, Sent, Url

\* Every step keeps FewerInv.
LEMMA FewerStep ==
  ASSUME EdgeAssumption, TypeInv, PlainInv, FewerInv, [EdgeNext]_edgeVars
  PROVE  FewerInv'
<1>1. CASE \E scheme \in {"http", "https"}, path \in Paths : Visit(scheme, path)
  <2>1. /\ at'["old"].end = "no" /\ hits' = hits /\ Ended /\ zone' = zone
    BY <1>1, VisitDoes DEF Edges, Going
  <2>2. ~Due /\ ~Due'
    BY <2>1 DEF Due, Ended, Edges
  <2>3. Exact' <=> Exact
    BY <2>1 DEF Exact, Unredirected, Refusing, On
  <2>4. DueCount = 0 /\ DueCount' = 0
    BY <2>2 DEF DueCount
  <2> QED
    BY <2>1, <2>2, <2>3, <2>4 DEF FewerInv
<1>2. CASE HopOld
  <2>1. Frame
    BY <1>2, HopOldDoes
  <2> SUFFICES ASSUME Exact
               PROVE  FewerInv'
    BY <2>1, CountsStay DEF FewerInv
  <2>2. /\ at["old"].end = "no" /\ hits'["new"] = hits["new"]
        /\ hits'["old"] = hits["old"] + IF OldCounts(Asked) THEN 1 ELSE 0
        /\ at'["old"].end = "served" => ~(OldCounts(Asked) /\ OldOver(hits'["old"]))
    BY <1>2, HopOldDoes, PlainOld DEF Exact
  <2>3. DueCount = 0
    BY <2>2 DEF DueCount, Due
  <2>4. DueCount' <= IF OldCounts(Asked) THEN 1 ELSE 0
    BY <2>1, CountsStay DEF DueCount
  <2>5. hits["new"] \in Nat /\ hits["old"] \in Nat /\ DueCount' \in Nat
    BY DEF TypeInv, Edges, DueCount
  <2>6. hits["new"] <= hits["old"]
    BY <2>3, <2>5 DEF FewerInv
  <2>7. hits'["new"] + DueCount' <= hits'["old"]
    BY <2>2, <2>4, <2>5, <2>6
  <2>8. at'["old"].end = "served" => ~(OldCounts(Asked)' /\ OldOver(hits["old"])')
    BY <2>1, <2>2, CountsStay DEF OldOver, On, Frame
  <2> QED
    BY <2>7, <2>8 DEF FewerInv
<1>3. CASE HopNew
  <2>1. Frame
    BY <1>3, HopNewDoes
  <2> SUFFICES ASSUME Exact
               PROVE  FewerInv'
    BY <2>1, CountsStay DEF FewerInv
  <2> DEFINE r == Sent(Https(asked))
             c == IF OldCounts(Asked) THEN 1 ELSE 0
  <2>2. Due /\ at'["old"] = at["old"] /\ hits'["old"] = hits["old"]
    BY <1>3, PlainNew DEF Exact, Due
  <2>3. /\ hits["new"] + c <= hits["old"]
        /\ at["old"].end = "served" => ~(OldCounts(Asked) /\ OldOver(hits["old"]))
    BY <2>2 DEF FewerInv, DueCount
  <2>4. hits["new"] \in Nat /\ hits["old"] \in Nat
    BY DEF TypeInv, Edges
  <2>5. at["old"].end = "served" => ~(OldCounts(Asked)' /\ OldOver(hits["old"])')
    BY <2>1, <2>2, <2>3, CountsStay DEF OldOver, On, Frame
  <2>6. DueCount' = IF Due' /\ OldCounts(Asked) THEN 1 ELSE 0
    BY <2>1, CountsStay DEF DueCount
  <2>7. CASE hits'["new"] = hits["new"]
    <3>1. hits'["new"] + DueCount' <= hits'["old"]
      BY <2>2, <2>3, <2>4, <2>6, <2>7
    <3> QED
      BY <2>2, <2>5, <3>1 DEF FewerInv
  <2>8. CASE hits'["new"] # hits["new"]
    <3>1. /\ hits'["new"] = hits["new"] + IF NewCounts(r) THEN 1 ELSE 0
          /\ at'["new"].end # "no"
      BY <1>3, <2>8, PlainNew DEF Exact
    <3>2. NewCounts(r)
      BY <2>4, <2>8, <3>1
    <3>3. OldCounts(Asked)
      BY <2>2, <3>2, AskedAlike, CountsIfExact, ZonesOK DEF Due
    <3>4. DueCount' = 0
      BY <2>6, <3>1 DEF Due
    <3>5. hits'["new"] + DueCount' <= hits'["old"]
      BY <2>2, <2>3, <2>4, <3>1, <3>3, <3>4
    <3> QED
      BY <2>2, <2>5, <3>5 DEF FewerInv
  <2> QED
    BY <2>7, <2>8
<1>4. CASE Window
  <2>1. Frame /\ at' = at /\ hits'["new"] = 0 /\ hits'["old"] \in Nat /\ ~Due
    BY <1>4, WindowDoes DEF Due, Ended, Edges
  <2>2. ~Due' /\ DueCount' = 0 /\ hits'["new"] + DueCount' <= hits'["old"]
    BY <2>1 DEF Due, DueCount, Frame, Edges
  <2> QED
    BY <2>2 DEF FewerInv
<1>5. CASE UNCHANGED edgeVars
  <2>1. Frame /\ at' = at /\ hits' = hits
    BY <1>5, StutterFrames
  <2>2. (Due' <=> Due) /\ DueCount' = DueCount
    BY <2>1, CountsStay DEF Due, DueCount, Frame
  <2> QED
    BY <2>1, <2>2, CountsStay DEF FewerInv, OldOver, On, Frame
<1> QED
  BY <1>1, <1>2, <1>3, <1>4, <1>5, NextIs

\* Every step keeps MoreInv.
LEMMA MoreStep ==
  ASSUME EdgeAssumption, TypeInv, PlainInv, MoreInv, [EdgeNext]_edgeVars
  PROVE  MoreInv'
<1>1. CASE \E scheme \in {"http", "https"}, path \in Paths : Visit(scheme, path)
  <2>1. /\ at'["old"].end = "no" /\ hits' = hits /\ Ended /\ zone' = zone
    BY <1>1, VisitDoes DEF Edges, Going
  <2>2. ~Due /\ ~Due'
    BY <2>1 DEF Due, Ended, Edges
  <2>3. Covered' <=> Covered
    BY <2>1 DEF Covered, Unredirected, On
  <2>4. DueCount = 0 /\ DueCount' = 0
    BY <2>2 DEF DueCount
  <2> QED
    BY <2>1, <2>2, <2>3, <2>4 DEF MoreInv
<1>2. CASE HopOld
  <2>1. Frame
    BY <1>2, HopOldDoes
  <2> SUFFICES ASSUME Covered
               PROVE  MoreInv'
    BY <2>1, CountsStay DEF MoreInv
  <2>2. /\ at["old"].end = "no" /\ hits'["new"] = hits["new"]
        /\ at["new"] = Going(asked) /\ at'["new"] = at["new"] /\ visits > 0
        /\ hits'["old"] = hits["old"] + IF OldCounts(Asked) THEN 1 ELSE 0
        /\ at'["old"].end # "no"
        /\ at'["old"].end = "limited" => OldCounts(Asked) /\ OldOver(hits'["old"])
    BY <1>2, HopOldDoes, PlainOld DEF Covered
  <2>3. at'["new"].end = "no"
    BY <2>2 DEF Going
  <2>4. DueCount = 0 /\ DueCount' = IF OldCounts(Asked) THEN 1 ELSE 0
    BY <2>1, <2>2, <2>3, CountsStay DEF DueCount, Due, Frame
  <2>5. hits["new"] \in Nat /\ hits["old"] \in Nat
    BY DEF TypeInv, Edges
  <2>6. hits["old"] <= hits["new"]
    BY <2>4, <2>5 DEF MoreInv
  <2>7. hits'["old"] <= hits'["new"] + DueCount'
    BY <2>2, <2>4, <2>5, <2>6
  <2>8. at'["old"].end = "limited" => OldCounts(Asked)' /\ OldOver(hits["old"])'
    BY <2>1, <2>2, CountsStay DEF OldOver, On, Frame
  <2> QED
    BY <2>3, <2>7, <2>8 DEF MoreInv
<1>3. CASE HopNew
  <2>1. Frame
    BY <1>3, HopNewDoes
  <2> SUFFICES ASSUME Covered
               PROVE  MoreInv'
    BY <2>1, CountsStay DEF MoreInv
  <2> DEFINE r == Sent(Https(asked))
             c == IF OldCounts(Asked) THEN 1 ELSE 0
  <2>2. Due /\ at'["old"] = at["old"] /\ hits'["old"] = hits["old"]
    BY <1>3, PlainNew DEF Covered, Due
  <2>3. /\ hits["old"] <= hits["new"] + c
        /\ at["old"].end = "limited" => OldCounts(Asked) /\ OldOver(hits["old"])
    BY <2>2 DEF MoreInv, DueCount, Due
  <2>4. hits["new"] \in Nat /\ hits["old"] \in Nat
    BY DEF TypeInv, Edges
  <2>5. at["old"].end = "limited" => OldCounts(Asked)' /\ OldOver(hits["old"])'
    BY <2>1, <2>2, <2>3, CountsStay DEF OldOver, On, Frame
  <2>6. DueCount' = IF Due' /\ OldCounts(Asked) THEN 1 ELSE 0
    BY <2>1, CountsStay DEF DueCount
  <2>7. CASE hits'["new"] = hits["new"] /\ at'["new"] = Going(Https(asked))
    <3>1. at'["new"].end = "no" /\ Due'
      BY <2>1, <2>2, <2>7 DEF Going, Due, Frame
    <3>2. hits'["old"] <= hits'["new"] + DueCount'
      BY <2>2, <2>3, <2>4, <2>6, <2>7, <3>1
    <3> QED
      BY <2>2, <2>5, <3>1, <3>2 DEF MoreInv
  <2>8. CASE /\ hits'["new"] = hits["new"] + IF NewCounts(r) THEN 1 ELSE 0
             /\ \/ at'["new"].end = "refused"
                \/ at'["new"].end = "limited"
                \/ at'["new"].end = "served" /\ ~(NewCounts(r) /\ NewOver(hits'["new"]))
    <3>1. OldCounts(Asked) => NewCounts(r)
      BY <2>2, AskedAlike, CountsIfCovered, ZonesOK DEF Due
    <3>2. at'["new"].end # "no" /\ DueCount' = 0
      BY <2>6, <2>8 DEF Due
    <3>3. hits'["old"] <= hits'["new"] /\ hits'["new"] \in Nat
      BY <2>2, <2>3, <2>4, <2>8, <3>1
    <3>4. ASSUME at["old"].end = "limited"
          PROVE  at'["new"].end \in {"refused", "limited"}
      <4>1. NewCounts(r) /\ NewOver(hits'["new"])
        BY <2>2, <2>3, <2>4, <3>1, <3>3, <3>4, OverAlike, ZonesOK
      <4> QED
        BY <2>8, <4>1
    <3> QED
      BY <2>2, <2>4, <3>2, <3>3, <3>4 DEF MoreInv
  <2> QED
    BY <1>3, <2>7, <2>8, PlainNew DEF Covered
<1>4. CASE Window
  <2>1. /\ Frame /\ at' = at /\ hits'["new"] = 0 /\ Ended
        /\ hits'["old"] = 0 \/ \E e \in On("rate") : e.lasts
    BY <1>4, WindowDoes
  <2>2. DueCount' = 0 /\ at["new"].end # "no"
    BY <2>1 DEF Due, DueCount, Frame, Edges, Ended
  <2>3. Covered => hits'["old"] = 0
    BY <2>1 DEF Covered
  <2> QED
    BY <2>1, <2>2, <2>3, CountsStay DEF MoreInv, Frame
<1>5. CASE UNCHANGED edgeVars
  <2>1. Frame /\ at' = at /\ hits' = hits
    BY <1>5, StutterFrames
  <2>2. (Due' <=> Due) /\ DueCount' = DueCount
    BY <2>1, CountsStay DEF Due, DueCount, Frame
  <2> QED
    BY <2>1, <2>2, CountsStay DEF MoreInv, OldOver, On, Frame
<1> QED
  BY <1>1, <1>2, <1>3, <1>4, <1>5, NextIs

-----------------------------------------------------------------------------
(* The way from the URL that was asked for: c[i] is where the old edge had *)
(* the visitor after i redirects.                                          *)

Trail(k, c) ==
  /\ k \in Nat /\ c \in [0 .. k -> Url] /\ c[0] = asked
  /\ \A i \in 0 .. k : c[i].host = Site
  /\ \A i \in 0 .. k : i < k => c[i + 1] \in OldRedirects(Sent(c[i]))

\* Where the old edge is at the end of it.
OldAt(k, u) ==
  LET r == Sent(u)
      s == OldRewritten(r) IN
  \/ at["old"] = Going(u) /\ hops["old"] = k
  \/ \E v \in OldRedirects(r) : v.host # Site /\ at["old"] = Away(v) /\ k <= hops["old"]
  \/ \E v \in OldRedirects(r) : v.host = Site /\ at["old"] = Lost /\ k = MaxHops
  \/ /\ OldRedirects(r) = {} /\ k <= hops["old"]
     /\ \/ at["old"] = Refused /\ OldBlocks(s)
        \/ at["old"] = Limited /\ OldCounts(r)
        \/ at["old"] = Served(OldOrigin(s), s.path) /\ (OldBlocks(s) => Exempt(s))

\* What the old edge redirects the new one does, to the same URL.
SameWay(u) == \E v : OldRedirects(Sent(u)) = {v} /\ NewRedirects(Sent(Https(u))) = {v}

\* The two edges treat a visitor at u alike.
Agree(u) ==
  LET r == Sent(u)
      t == Sent(Https(u)) IN
  /\ NewRedirects(t) = OldRedirects(r)
  /\ \A v, w \in OldRedirects(r) : v = w
  /\ ~NewRefuses(t)
  /\ OldRedirects(r) # {} => ~NewCounts(t)

\* The premise of either property about where visitors arrive.
Alike == NoKnownDifference \/ GateAgrees

\* Both edges give a request the same redirect, if any.
LEMMA RedirectsAlike ==
  ASSUME ZoneOK, ~RedirectNotCarried, ~OrderLost, ~Overlapping,
         NEW u \in Url, u.host = Site,
         \A e \in On("forward") : e.host = Site => e.scheme \in {"any", u.scheme},
         PathAppended => \E f \in OldForwards(Sent(u)) : ~IsCatchAll(f.glob)
  PROVE  /\ NewRedirects(Sent(Https(u))) = OldRedirects(Sent(u))
         /\ \A v, w \in OldRedirects(Sent(u)) : v = w
<1> DEFINE r == Sent(u)
           t == Sent(Https(u))
<1>1. r.host = Site /\ r.path \in Path /\ t.path = r.path /\ r.scheme = u.scheme
  BY DEF Sent, Https, Request, Url
<1> HIDE DEF r, t
<1>2. CASE \E f \in OldForwards(r) : ~IsCatchAll(f.glob)
  <2>1. PICK p \in OldForwards(r) : ~IsCatchAll(p.glob)
    BY <1>2
  <2>2. OldRedirects(r) = {To(p, r)} /\ NewRedirects(t) = {To(p, r)}
    BY <1>1, <2>1, PatternRedirects
  <2> QED
    BY <2>2 DEF r, t
<1>3. CASE \A f \in OldForwards(r) : IsCatchAll(f.glob)
  <2>1. ~PathAppended
    BY <1>3 DEF r
  <2>2. OldRedirects(r) = {} /\ NewRedirects(t) = {}
    BY <1>1, <1>3, <2>1, NothingRedirects
  <2> QED
    BY <2>2 DEF r, t
<1> QED
  BY <1>2, <1>3

\* A zone that refuses nobody has no WAF rule and no country to block.
LEMMA NothingRefuses ==
  ASSUME Refusing = {}
  PROVE  \A r : ~NewRefuses(r)
<1>1. On("firewall") = {} /\ On("access") = {} /\ On("agent") = {}
  BY DEF Refusing
<1>2. CustomRules = {} /\ BlockCountries = {}
  BY <1>1 DEF CustomRules, BlockCountries, Translated
<1> QED
  BY <1>2 DEF NewRefuses

\* Without a known difference the edges agree all along the way.
LEMMA KnownAgree ==
  ASSUME EdgeAssumption, TypeInv, visits > 0, NoKnownDifference,
         NEW k, NEW c, Trail(k, c), OldAt(k, c[k]), NEW i \in 0 .. k
  PROVE  Agree(c[i])
<1>1. /\ k \in Nat /\ c[0] = asked /\ c[i] \in Url /\ c[i].host = Site
      /\ \A j \in 0 .. k : c[j].host = Site
      /\ 0 < k => c[1] \in OldRedirects(Sent(c[0]))
  <2>1. 0 < k => c[0 + 1] \in OldRedirects(Sent(c[0]))
    BY DEF Trail
  <2> QED
    BY <2>1 DEF Trail
<1>2. ZoneOK
  BY ZonesOK
<1>3. \A e \in On("forward") : e.scheme = "any"
  BY DEF NoKnownDifference, SchemeDropped
<1>4. CASE ~Unredirected
  <2>1. Refusing = {} /\ On("rate") = {}
    BY <1>4 DEF NoKnownDifference, RedirectedFirst, Unredirected
  <2>2. \A r : ~NewRefuses(r) /\ ~NewCounts(r)
    BY <2>1, NothingRefuses DEF NewCounts, RateLimits
  <2>3. PathAppended => \E f \in OldForwards(Sent(c[i])) : ~IsCatchAll(f.glob)
    <3> SUFFICES ASSUME PathAppended
                 PROVE  \E f \in OldForwards(Sent(c[i])) : ~IsCatchAll(f.glob)
      OBVIOUS
    <3>1. PICK f \in OldForwards(Sent(asked)) : ~IsCatchAll(f.glob) /\ f.to.host # Site
      BY DEF NoKnownDifference, Asked, Sent
    <3>2. Sent(asked).host = Site /\ Sent(asked).path \in Path
      BY DEF TypeInv, Sent, Request, Url
    <3>3. OldRedirects(Sent(asked)) = {To(f, Sent(asked))}
      BY <1>2, <3>1, <3>2, PatternRedirects DEF NoKnownDifference
    <3>4. To(f, Sent(asked)).host # Site
      <4>1. f.to \in Url
        BY <1>2, ForwardOK DEF OldForwards
      <4> QED
        BY <3>1, <4>1 DEF To, Url
    <3>5. k = 0
      BY <1>1, <3>3, <3>4
    <3> QED
      BY <1>1, <3>1, <3>5
  <2>4. /\ NewRedirects(Sent(Https(c[i]))) = OldRedirects(Sent(c[i]))
        /\ \A v, w \in OldRedirects(Sent(c[i])) : v = w
    BY <1>1, <1>2, <1>3, <2>3, RedirectsAlike DEF NoKnownDifference, NotCarried
  <2> QED
    BY <2>2, <2>4 DEF Agree
<1>5. CASE Unredirected
  <2>1. \A r : OldRedirects(r) = {} /\ NewRedirects(r) = {}
    BY <1>5, NoRedirects
  <2>2. k = 0 /\ c[i] = asked
    BY <1>1, <2>1
  <2>3. ~OldBlocks(Asked)
    <3>1. Sent(asked) = Asked
      BY DEF Sent, Asked
    <3> DEFINE s == OldRewritten(Asked)
    <3>2. OldBlocks(s) => Exempt(s)
      BY <2>1, <2>2, <3>1 DEF OldAt, NoKnownDifference, Refused, Limited, Lost, Going
    <3>3. /\ On("rewrite") = {} \/ On("firewall") = {}
          /\ ~(OldBlocks(Asked) /\ Exempt(Asked))
      BY DEF NoKnownDifference, RewrittenFirst, Exempted
    <3>4. CASE On("rewrite") = {}
      BY <3>2, <3>3, <3>4, Unrewritten
    <3>5. CASE On("firewall") = {}
      <4>1. s.country = Asked.country /\ s.agent = Asked.agent
        BY DEF OldRewritten, Asked, Request
      <4> HIDE DEF s
      <4> QED
        BY <3>2, <3>3, <3>5, <4>1 DEF OldBlocks, Exempt
    <3> QED
      BY <3>3, <3>4, <3>5
  <2>4. ~NewRefuses(Sent(Https(asked)))
    BY <2>3, AskedAlike, NotRefused DEF NoKnownDifference
  <2> QED
    BY <2>1, <2>2, <2>4 DEF Agree
<1> QED
  BY <1>4, <1>5

\* When the gate passes, they do too.
LEMMA GateAgree ==
  ASSUME EdgeAssumption, TypeInv, visits > 0, GateAgrees,
         NEW k, NEW c, Trail(k, c), NEW i \in 0 .. k
  PROVE  Agree(c[i])
<1>1. /\ k \in Nat /\ i \in Nat /\ c[0] = asked /\ c[i] \in Url /\ c[i].host = Site
      /\ i > 0 => c[i] \in OldRedirects(Sent(c[i - 1]))
  <2>1. i > 0 => i - 1 \in 0 .. k /\ i - 1 < k /\ (i - 1) + 1 = i
    BY DEF Trail
  <2>2. i > 0 => c[(i - 1) + 1] \in OldRedirects(Sent(c[i - 1]))
    BY <2>1 DEF Trail
  <2> QED
    BY <2>1, <2>2 DEF Trail
<1>2. ZoneOK /\ \A e \in zone : e.kind \in {"forward", "rewrite", "origin"}
  BY ZonesOK DEF GateAgrees
<1>3. On("redirect") = {} /\ \A r : ~NewRefuses(r) /\ ~NewCounts(r)
  BY <1>2, OnlyPageRules
<1>4. ~PathAppended
  BY <1>2, NoCatchAllPasses DEF GateAgrees
<1>5. ~OrderLost
  <2>1. \A e \in On("forward") : e.host = Site => ~IsCatchAll(e.glob)
    BY <1>4, ForwardIsRedirect DEF PathAppended
  <2> QED
    BY <1>3, <2>1 DEF OrderLost
<1>6. \A e \in On("forward") : e.host = Site => e.scheme \in {"any", c[i].scheme}
  <2> SUFFICES ASSUME NEW e \in On("forward"), e.host = Site, e.scheme # "any"
               PROVE  e.scheme = c[i].scheme
    OBVIOUS
  <2>1. e.scheme = "https"
    BY <1>2, PatternsPassByHTTPS DEF GateAgrees
  <2>2. asked.scheme # "http" /\ \A f \in On("forward") : f.to.scheme # "http"
    BY <2>1 DEF GateAgrees, AskedByHTTP
  <2>3. c[i].scheme # "http"
    <3>1. CASE i = 0
      BY <1>1, <2>2, <3>1
    <3>2. CASE i > 0
      <4>1. PICK f \in OldForwards(Sent(c[i - 1])) : c[i] = To(f, Sent(c[i - 1]))
        BY <1>1, <1>3, <3>2 DEF OldRedirects, To
      <4>2. f \in On("forward") /\ f.to \in Url
        BY <1>2, ForwardOK DEF OldForwards
      <4>3. c[i].scheme = f.to.scheme
        BY <4>1, <4>2 DEF To, Url
      <4> QED
        BY <2>2, <4>2, <4>3
    <3> QED
      BY <1>1, <3>1, <3>2
  <2> QED
    BY <1>1, <2>1, <2>3 DEF Url
<1>7. /\ NewRedirects(Sent(Https(c[i]))) = OldRedirects(Sent(c[i]))
      /\ \A v, w \in OldRedirects(Sent(c[i])) : v = w
  BY <1>1, <1>2, <1>4, <1>5, <1>6, RedirectsAlike DEF GateAgrees, NotCarried
<1> QED
  BY <1>3, <1>7 DEF Agree

\* What is asked of the trail before the new edge has to keep to it.
Fits(k, c) ==
  /\ \A i \in 0 .. k : Agree(c[i])
  /\ ~NotCarried /\ ~TooFar
  /\ at["old"].end \notin {"refused", "limited"}
  /\ On("rate") # {} => Exact

\* Where the new edge is on it: at a URL of the trail, by either scheme, or where the old
\* edge ended.
OnTrail(j, c) ==
  /\ j <= hops["new"]
  /\ \/ at["new"] = Going(c[j]) /\ hops["new"] <= 2 * j
     \/ at["new"] = Going(Https(c[j])) /\ hops["new"] <= 2 * j + 1
NewAt(k, c) == at["new"] = at["old"] \/ \E j \in 0 .. k : OnTrail(j, c)

\* A visitor is on the way to be refused: the redirects that led there survive, and the new
\* edge's WAF has a rule for where they lead.
Doomed(k, c) ==
  /\ at["old"] = Refused /\ ~TooFar
  /\ \A i \in 0 .. k : i < k => SameWay(c[i])
  /\ NewRefuses(Sent(Https(c[k])))

\* It is on the trail still, or was stopped on it.
Stopped(k, c) ==
  \/ at["new"].end \in {"refused", "limited"}
  \/ \E j \in 0 .. k : OnTrail(j, c)

TrailInv ==
  visits > 0 =>
    \E k, c :
      /\ Trail(k, c) /\ OldAt(k, c[k])
      /\ at["old"].end = "no" => at["new"] = Going(asked) /\ hops["new"] = 0
      /\ at["old"].end # "no" /\ Fits(k, c) => NewAt(k, c)
      /\ at["old"].end # "no" /\ Doomed(k, c) => Stopped(k, c)

\* What the zone makes of a request stays while the zone does.
LEMMA SentStays ==
  ASSUME Frame, NEW u
  PROVE  /\ Sent(u)' = Sent(u)
         /\ OldRedirects(Sent(u))' = OldRedirects(Sent(u))
         /\ OldRewritten(Sent(u))' = OldRewritten(Sent(u))
         /\ OldBlocks(OldRewritten(Sent(u)))' <=> OldBlocks(OldRewritten(Sent(u)))
         /\ Exempt(OldRewritten(Sent(u)))' <=> Exempt(OldRewritten(Sent(u)))
         /\ OldCounts(Sent(u))' <=> OldCounts(Sent(u))
         /\ OldOrigin(OldRewritten(Sent(u)))' = OldOrigin(OldRewritten(Sent(u)))
<1>1. /\ On("rate")' = On("rate") /\ On("rewrite")' = On("rewrite") /\ On("origin")' = On("origin")
      /\ On("redirect")' = On("redirect") /\ On("forward")' = On("forward")
      /\ On("firewall")' = On("firewall") /\ On("access")' = On("access") /\ On("agent")' = On("agent")
  BY DEF Frame, On
<1>2. Sent(u)' = Sent(u)
  BY DEF Frame, Sent, Request
<1>3. OldRewritten(Sent(u))' = OldRewritten(Sent(u))
  BY <1>1, <1>2 DEF OldRewritten
<1>4. OldRedirects(Sent(u))' = OldRedirects(Sent(u))
  BY <1>1, <1>2 DEF OldRedirects, OldForwards
<1>5. OldBlocks(OldRewritten(Sent(u)))' <=> OldBlocks(OldRewritten(Sent(u)))
  BY <1>1, <1>3 DEF OldBlocks
<1>6. Exempt(OldRewritten(Sent(u)))' <=> Exempt(OldRewritten(Sent(u)))
  BY <1>1, <1>3 DEF Exempt
<1>7. OldOrigin(OldRewritten(Sent(u)))' = OldOrigin(OldRewritten(Sent(u)))
  <2> DEFINE E == {x \in On("origin") : Holds(x.expr, OldRewritten(Sent(u))) /\ x.upstream # Nothing}
  <2>1. OldOrigin(OldRewritten(Sent(u))) = IF E = {} THEN Origin ELSE FirstOf(E).upstream
    BY DEF OldOrigin
  <2>2. OldOrigin(OldRewritten(Sent(u)))' = IF E' = {} THEN Origin ELSE FirstOf(E').upstream
    BY DEF OldOrigin
  <2>3. E' = E
    BY <1>1, <1>3
  <2> HIDE DEF E
  <2> QED
    BY <2>1, <2>2, <2>3
<1>8. OldCounts(Sent(u))' <=> OldCounts(Sent(u))
  BY <1>1, <1>3, <1>4, <1>5 DEF OldCounts
<1> QED
  BY <1>2, <1>3, <1>4, <1>5, <1>6, <1>7, <1>8

\* Whether the edges agree on a URL is settled by the zone and the client.
LEMMA AgreeStays ==
  ASSUME Frame, NEW u
  PROVE  /\ Agree(u)' <=> Agree(u)
         /\ SameWay(u)' <=> SameWay(u)
         /\ NewRefuses(Sent(Https(u)))' <=> NewRefuses(Sent(Https(u)))
<1>1. /\ On("rate")' = On("rate") /\ On("redirect")' = On("redirect") /\ On("forward")' = On("forward")
      /\ On("firewall")' = On("firewall") /\ On("access")' = On("access") /\ On("agent")' = On("agent")
  BY DEF Frame, On
<1>2. /\ Sent(Https(u))' = Sent(Https(u)) /\ Sent(u)' = Sent(u)
      /\ OldRedirects(Sent(u))' = OldRedirects(Sent(u))
  BY SentStays DEF Https
<1>3. /\ Redirects' = Redirects /\ RateLimits' = RateLimits
      /\ CustomRules' = CustomRules /\ BlockCountries' = BlockCountries
  BY <1>1 DEF Frame, Redirects, RateLimits, CustomRules, BlockCountries, Translated, Allowed
<1>4. NewRedirects(Sent(Https(u)))' = NewRedirects(Sent(Https(u)))
  BY <1>2, <1>3 DEF NewRedirects
<1>5. NewRefuses(Sent(Https(u)))' <=> NewRefuses(Sent(Https(u)))
  BY <1>2, <1>3 DEF NewRefuses, Fires
<1>6. NewCounts(Sent(Https(u)))' <=> NewCounts(Sent(Https(u)))
  BY <1>2, <1>3 DEF NewCounts
<1> QED
  BY <1>2, <1>4, <1>5, <1>6 DEF Agree, SameWay

\* A trail stays one while the zone does.
LEMMA TrailStays ==
  ASSUME Frame, NEW k, NEW c
  PROVE  Trail(k, c)' <=> Trail(k, c)
<1>1. \A i \in 0 .. k : OldRedirects(Sent(c[i]))' = OldRedirects(Sent(c[i]))
  <2> TAKE i \in 0 .. k
  <2> QED
    BY SentStays
<1> QED
  BY <1>1 DEF Frame, Trail

\* Where the old edge is on a trail stays until it answers.
LEMMA OldAtStays ==
  ASSUME Frame, at'["old"] = at["old"], hops'["old"] = hops["old"], NEW k, NEW u
  PROVE  OldAt(k, u)' <=> OldAt(k, u)
<1>1. /\ OldRedirects(Sent(u))' = OldRedirects(Sent(u))
      /\ OldRewritten(Sent(u))' = OldRewritten(Sent(u))
      /\ OldBlocks(OldRewritten(Sent(u)))' <=> OldBlocks(OldRewritten(Sent(u)))
      /\ Exempt(OldRewritten(Sent(u)))' <=> Exempt(OldRewritten(Sent(u)))
      /\ OldCounts(Sent(u))' <=> OldCounts(Sent(u))
      /\ OldOrigin(OldRewritten(Sent(u)))' = OldOrigin(OldRewritten(Sent(u)))
  BY SentStays
<1> QED
  BY <1>1 DEF OldAt

\* What is asked of a trail stays until the old edge answers.
LEMMA FitsStays ==
  ASSUME Frame, at'["old"] = at["old"], hops'["old"] = hops["old"], NEW k, NEW c
  PROVE  Fits(k, c)' <=> Fits(k, c)
<1>1. \A i \in 0 .. k : Agree(c[i])' <=> Agree(c[i])
  <2> TAKE i \in 0 .. k
  <2> QED
    BY AgreeStays
<1>2. NotCarried' <=> NotCarried
  <2>1. /\ On("rewrite")' = On("rewrite") /\ On("origin")' = On("origin")
        /\ On("redirect")' = On("redirect")
    BY DEF Frame, On
  <2> QED
    BY <2>1 DEF NotCarried, RedirectNotCarried
<1>3. TooFar' <=> TooFar
  BY DEF TooFar
<1>4. (On("rate")' = On("rate")) /\ (Exact' <=> Exact)
  BY CountsStay
<1> QED
  BY <1>1, <1>2, <1>3, <1>4 DEF Fits

\* So does what dooms a visitor.
LEMMA DoomedStays ==
  ASSUME Frame, at'["old"] = at["old"], hops'["old"] = hops["old"], NEW k, NEW c
  PROVE  Doomed(k, c)' <=> Doomed(k, c)
<1>1. \A i \in 0 .. k : SameWay(c[i])' <=> SameWay(c[i])
  <2> TAKE i \in 0 .. k
  <2> QED
    BY AgreeStays
<1>2. NewRefuses(Sent(Https(c[k])))' <=> NewRefuses(Sent(Https(c[k])))
  BY AgreeStays
<1>3. TooFar' <=> TooFar
  BY DEF TooFar
<1> QED
  BY <1>1, <1>2, <1>3 DEF Doomed

\* What * stood for is a path.
LEMMA BehindIsPath ==
  ASSUME NEW g \in Glob, NEW path \in Path, GlobMatches(g, path)
  PROVE  Behind(g, path) \in Path
<1>1. /\ path \in Seq(Segments) /\ g.prefix \in Seq(Segments)
      /\ Len(path) \in Nat /\ Len(g.prefix) \in Nat
  BY LenProperties DEF Glob, Path
<1>2. Len(g.prefix) <= Len(path)
  <2>1. g.prefix = << >> => Len(g.prefix) = 0
    OBVIOUS
  <2>2. IsPrefix(g.prefix, path) => Len(g.prefix) <= Len(path)
    BY <1>1, PrefixAt
  <2> QED
    BY <1>1, <2>1, <2>2 DEF GlobMatches, Below
<1>3. Len(g.prefix) + 1 \in 1 .. Len(path) + 1 /\ Len(path) \in (Len(g.prefix) + 1) - 1 .. Len(path)
  BY <1>1, <1>2
<1> QED
  BY <1>1, <1>3, SubSeqProperties DEF Behind, Path

\* A redirect leads to a URL.
LEMMA RedirectIsUrl ==
  ASSUME ZoneOK, NEW u \in Url, NEW v \in OldRedirects(Sent(u))
  PROVE  v \in Url
<1> DEFINE r == Sent(u)
<1>1. r.path \in Path
  BY DEF Sent, Request, Url
<1> HIDE DEF r
<1>2. \/ \E e \in On("redirect") : e.to # Dynamic /\ v = e.to
      \/ \E e \in OldForwards(r) : v = To(e, r)
  BY DEF OldRedirects, To, r
<1>3. CASE \E e \in On("redirect") : e.to # Dynamic /\ v = e.to
  BY <1>3 DEF ZoneOK, RuleOK, On
<1>4. CASE \E e \in OldForwards(r) : v = To(e, r)
  <2>1. PICK e \in OldForwards(r) : v = To(e, r)
    BY <1>4
  <2>2. e.glob \in Glob /\ e.to \in Url /\ GlobMatches(e.glob, r.path)
    BY ForwardOK DEF OldForwards
  <2>3. e.to.path \in Path /\ Behind(e.glob, r.path) \in Path /\ << >> \in Path
    BY <1>1, <2>2, BehindIsPath DEF Url, Path
  <2>4. e.to.path \o (IF e.capture THEN Behind(e.glob, r.path) ELSE << >>) \in Path
    BY <2>3, ConcatProperties DEF Path
  <2> QED
    BY <2>1, <2>2, <2>4 DEF To, Url
<1> QED
  BY <1>2, <1>3, <1>4

\* A visit begins a trail of one URL, where both edges are.
LEMMA TrailVisit ==
  ASSUME EdgeAssumption, TypeInv, NEW scheme \in {"http", "https"}, NEW path \in Paths,
         Visit(scheme, path)
  PROVE  TrailInv'
<1>1. /\ asked' \in Url /\ asked'.host = Site
      /\ at'["old"] = Going(asked') /\ at'["new"] = Going(asked')
      /\ hops'["old"] = 0 /\ hops'["new"] = 0
  BY VisitDoes DEF Edges
<1>2. PICK c : c \in [0 .. 0 -> Url] /\ c[0] = asked'
  <2>1. [i \in 0 .. 0 |-> asked'] \in [0 .. 0 -> Url] /\ [i \in 0 .. 0 |-> asked'][0] = asked'
    BY <1>1
  <2> QED
    BY <2>1
<1>3. Trail(0, c)'
  <2>1. \A i \in 0 .. 0 : i = 0 /\ ~(i < 0)
    OBVIOUS
  <2>2. \A i \in 0 .. 0 : c[i].host = Site
    BY <1>1, <1>2, <2>1
  <2> QED
    BY <1>2, <2>1, <2>2 DEF Trail
<1>4. OldAt(0, c[0])'
  BY <1>1, <1>2 DEF OldAt, Going
<1>5. at'["old"].end = "no"
  BY <1>1 DEF Going
<1> QED
  BY <1>1, <1>3, <1>4, <1>5 DEF TrailInv

\* Where the old edge has not ended it is at the end of the trail.
LEMMA OldGoing ==
  ASSUME NEW k, NEW u, OldAt(k, u), at["old"].end = "no"
  PROVE  at["old"] = Going(u) /\ hops["old"] = k
<1>1. \A v : at["old"] # Away(v)
  BY DEF Away
<1>2. at["old"] # Lost /\ at["old"] # Refused /\ at["old"] # Limited
  BY DEF Lost, Refused, Limited
<1>3. \A o, p : at["old"] # Served(o, p)
  BY DEF Served
<1> QED
  BY <1>1, <1>2, <1>3 DEF OldAt

\* The old edge's answer takes the trail further, or ends it.
LEMMA TrailOld ==
  ASSUME EdgeAssumption, TypeInv, TrailInv, HopOld
  PROVE  TrailInv'
<1>1. /\ Frame /\ at["old"].end = "no" /\ visits > 0
      /\ at'["new"] = at["new"] /\ hops'["new"] = hops["new"]
      /\ hops["old"] \in 0 .. MaxHops /\ MaxHops \in Nat
  BY HopOldDoes DEF TypeInv, Edges, EdgeAssumption
<1>2. PICK k, c : /\ Trail(k, c) /\ OldAt(k, c[k])
                  /\ at["new"] = Going(asked) /\ hops["new"] = 0
  BY <1>1 DEF TrailInv
<1> DEFINE u == c[k]
           r == Sent(u)
<1>3. /\ k \in Nat /\ u \in Url /\ u.host = Site /\ c \in [0 .. k -> Url]
      /\ at["old"] = Going(u) /\ hops["old"] = k
  <2>1. k \in Nat /\ c \in [0 .. k -> Url] /\ k \in 0 .. k /\ c[k].host = Site
    BY <1>2 DEF Trail
  <2>2. at["old"] = Going(c[k]) /\ hops["old"] = k
    BY <1>1, <1>2, OldGoing
  <2> QED
    BY <2>1, <2>2
<1>4. PICK answer \in OldAnswers(r, hits'["old"]) :
        /\ at'["old"] = Landed(answer, k)
        /\ answer.end = "no" /\ k < MaxHops => hops'["old"] = k + 1
        /\ k <= hops'["old"]
  BY <1>3, HopOldDoes DEF Going
<1>5. ASSUME NEW m, NEW d, Trail(m, d)
      PROVE  at'["new"] = Going(asked') /\ hops'["new"] = 0 /\ NewAt(m, d)' /\ Stopped(m, d)'
  <2>1. m \in Nat /\ d[0] = asked
    BY <1>5 DEF Trail
  <2>2. OnTrail(0, d)' /\ 0 \in 0 .. m
    BY <1>1, <1>2, <2>1 DEF OnTrail
  <2> QED
    BY <1>1, <1>2, <2>2 DEF NewAt, Stopped, Frame
<1>6. ASSUME OldAt(k, u)'
      PROVE  TrailInv'
  <2>1. Trail(k, c)'
    BY <1>1, <1>2, TrailStays
  <2> QED
    BY <1>2, <1>5, <1>6, <2>1 DEF TrailInv
<1> HIDE DEF r
<1>7. CASE OldRedirects(r) = {}
  <2>1. \/ answer = Refused /\ OldBlocks(OldRewritten(r))
        \/ answer = Limited /\ OldCounts(r)
        \/ /\ answer = Served(OldOrigin(OldRewritten(r)), OldRewritten(r).path)
           /\ OldBlocks(OldRewritten(r)) => Exempt(OldRewritten(r))
    BY <1>4, <1>7, OldAnswerIs
  <2>2. at'["old"] = answer
    BY <1>4, <2>1 DEF Landed, Refused, Limited, Served
  <2>3. OldAt(k, u)'
    <3> HIDE DEF u
    <3> QED
      BY <1>1, <1>4, <1>7, <2>1, <2>2, SentStays DEF OldAt, r
  <2> QED
    BY <1>6, <2>3
<1>8. CASE OldRedirects(r) # {}
  <2>1. PICK v \in OldRedirects(r) : answer = Going(v)
    BY <1>4, <1>8 DEF OldAnswers
  <2>2. v \in Url /\ v \in OldRedirects(Sent(u))'
    <3>1. v \in Url
      BY <1>3, RedirectIsUrl, ZonesOK DEF r
    <3> HIDE DEF u
    <3> QED
      BY <1>1, <3>1, SentStays DEF r
  <2>3. CASE v.host # Site
    <3>1. at'["old"] = Away(v)
      BY <1>4, <2>1, <2>3 DEF Landed, Going
    <3>2. OldAt(k, u)'
      BY <1>4, <2>2, <2>3, <3>1 DEF OldAt
    <3> QED
      BY <1>6, <3>2
  <2>4. CASE v.host = Site /\ k = MaxHops
    <3>1. at'["old"] = Lost
      BY <1>4, <2>1, <2>4 DEF Landed, Going
    <3>2. OldAt(k, u)'
      BY <2>2, <2>4, <3>1 DEF OldAt
    <3> QED
      BY <1>6, <3>2
  <2>5. CASE v.host = Site /\ k # MaxHops
    <3>1. at'["old"] = Going(v) /\ hops'["old"] = k + 1
      BY <1>1, <1>3, <1>4, <2>1, <2>5 DEF Landed, Going
    <3> DEFINE d == [i \in 0 .. k + 1 |-> IF i = k + 1 THEN v ELSE c[i]]
    <3>2. /\ d \in [0 .. k + 1 -> Url] /\ d[k + 1] = v
          /\ \A i \in 0 .. k : d[i] = c[i]
      BY <1>3, <2>2
    <3> HIDE DEF d
    <3>3. Trail(k + 1, d)
      <4>1. \A i \in 0 .. k + 1 : i = k + 1 \/ i \in 0 .. k
        BY <1>3
      <4>2. \A i \in 0 .. k + 1 : d[i].host = Site
        BY <1>2, <2>5, <3>2, <4>1 DEF Trail
      <4>3. ASSUME NEW i \in 0 .. k + 1, i < k + 1
            PROVE  d[i + 1] \in OldRedirects(Sent(d[i]))
        <5>1. i \in 0 .. k /\ d[i] = c[i]
          BY <1>3, <3>2, <4>3
        <5>2. CASE i < k
          <6>1. i + 1 \in 0 .. k /\ c[i + 1] \in OldRedirects(Sent(c[i]))
            BY <1>2, <1>3, <5>1, <5>2 DEF Trail
          <6> QED
            BY <3>2, <5>1, <6>1
        <5>3. CASE i = k
          BY <2>1, <3>2, <5>1, <5>3 DEF r
        <5> QED
          BY <1>3, <5>1, <5>2, <5>3
      <4>4. d[0] = asked /\ k + 1 \in Nat
        BY <1>2, <1>3, <3>2 DEF Trail
      <4> QED
        BY <3>2, <4>2, <4>3, <4>4 DEF Trail
    <3>4. Trail(k + 1, d)'
      BY <1>1, <3>3, TrailStays
    <3>5. OldAt(k + 1, d[k + 1])'
      BY <3>1, <3>2 DEF OldAt
    <3> QED
      BY <1>5, <3>3, <3>4, <3>5 DEF TrailInv
  <2> QED
    BY <2>3, <2>4, <2>5
<1> QED
  BY <1>7, <1>8

\* Where it has, it has lost the visitor or followed the whole trail.
LEMMA OldEnded ==
  ASSUME NEW k, NEW u, OldAt(k, u), at["old"].end # "no"
  PROVE  /\ at["old"] = Lost \/ k <= hops["old"]
         /\ OldRedirects(Sent(u)) # {} =>
              \/ \E v \in OldRedirects(Sent(u)) : v.host # Site /\ at["old"] = Away(v)
              \/ \E v \in OldRedirects(Sent(u)) : v.host = Site /\ at["old"] = Lost /\ k = MaxHops
         /\ OldRedirects(Sent(u)) = {} /\ at["old"].end \notin {"refused", "limited"} =>
              LET s == OldRewritten(Sent(u)) IN
              at["old"] = Served(OldOrigin(s), s.path) /\ (OldBlocks(s) => Exempt(s))
<1>1. at["old"] # Going(u)
  BY DEF Going
<1>2. Refused.end = "refused" /\ Limited.end = "limited"
  BY DEF Refused, Limited
<1> QED
  BY <1>1, <1>2 DEF OldAt

\* A rate limit that counts no more than it says limits nobody it did not limit before.
LEMMA NotLimited ==
  ASSUME EdgeAssumption, TypeInv, FewerInv, HopNew,
         NEW k, NEW c, Trail(k, c), OldAt(k, c[k]), Fits(k, c),
         at["new"] = Going(Https(c[k])), OldRedirects(Sent(c[k])) = {}
  PROVE  ~(NewCounts(Sent(Https(c[k]))) /\ NewOver(hits'["new"]))
<1> SUFFICES ASSUME NewCounts(Sent(Https(c[k]))), NewOver(hits'["new"])
             PROVE  FALSE
  OBVIOUS
<1>1. Exact /\ Unredirected
  BY DEF NewCounts, RateLimits, Fits, Exact
<1>2. k = 0 /\ c[k] = asked
  <2>1. k \in Nat /\ c[0] = asked
    BY DEF Trail
  <2>2. 0 < k => c[0 + 1] \in OldRedirects(Sent(c[0]))
    BY <2>1 DEF Trail
  <2>3. OldRedirects(Sent(c[0])) = {}
    BY <1>1, NoRedirects
  <2> QED
    BY <2>1, <2>2, <2>3
<1>3. visits > 0 /\ at["old"].end # "no" /\ at["new"].end = "no" /\ ZoneOK
  BY HopNewDoes, ZonesOK
<1>4. OldCounts(Asked) /\ Sent(Https(asked)).scheme = "https"
  BY <1>1, <1>2, <1>3, AskedAlike, CountsIfExact, HttpsIs
<1>5. Due /\ DueCount = 1
  BY <1>3, <1>4 DEF Due, DueCount
<1>6. at["old"].end = "served"
  <2> DEFINE s == OldRewritten(Sent(c[k]))
  <2>1. at["old"] = Served(OldOrigin(s), s.path)
    BY <1>3, OldEnded DEF Fits
  <2> HIDE DEF s
  <2> QED
    BY <2>1 DEF Served
<1>7. hits["new"] + 1 <= hits["old"] /\ ~OldOver(hits["old"])
  BY <1>1, <1>4, <1>5, <1>6 DEF FewerInv
<1>8. hits'["new"] = hits["new"] + 1
  BY <1>2, <1>4, HopNewDoes DEF Going
<1>9. hits["old"] \in Nat /\ hits["new"] \in Nat
  BY DEF TypeInv, Edges
<1> QED
  BY <1>1, <1>3, <1>7, <1>8, <1>9, OverAlike

\* The new edge keeps to the trail.
LEMMA KeepsTo ==
  ASSUME EdgeAssumption, TypeInv, FewerInv, HopNew,
         NEW k, NEW c, Trail(k, c), OldAt(k, c[k]), Fits(k, c), NewAt(k, c)
  PROVE  NewAt(k, c)'
<1>1. /\ at["old"].end # "no" /\ at["new"].end = "no" /\ at'["old"] = at["old"]
      /\ hops["new"] \in 0 .. MaxHops /\ hops["old"] \in 0 .. MaxHops /\ MaxHops \in Nat
  BY HopNewDoes DEF TypeInv, Edges, EdgeAssumption
<1>2. PICK j \in 0 .. k : OnTrail(j, c)
  BY <1>1 DEF NewAt
<1> DEFINE u == c[j]
           t == Sent(Https(u))
<1>3. /\ k \in Nat /\ j \in Nat /\ j <= k /\ u \in Url /\ u.host = Site /\ j <= hops["new"]
      /\ j < k => c[j + 1] \in OldRedirects(Sent(u)) /\ c[j + 1].host = Site /\ j + 1 \in 0 .. k
  <2>1. k \in Nat /\ c \in [0 .. k -> Url]
    BY DEF Trail
  <2>2. j < k => j + 1 \in 0 .. k
    BY <2>1
  <2> QED
    BY <1>2, <2>1, <2>2 DEF Trail, OnTrail
<1>4. Agree(u) /\ ~NotCarried
  BY DEF Fits
<1>5. PICK answer \in NewAnswers(Sent(at["new"].url), hits'["new"]) :
        /\ at'["new"] = Landed(answer, hops["new"])
        /\ answer.end = "no" /\ hops["new"] < MaxHops => hops'["new"] = hops["new"] + 1
  BY HopNewDoes
<1>6. at["old"] = Lost \/ (k <= hops["old"] /\ 2 * hops["old"] < MaxHops)
  <2>1. at["old"] = Lost \/ k <= hops["old"]
    BY <1>1, OldEnded
  <2>2. at["old"].end = "lost" => at["old"] = Lost
    <3>1. \A v : Away(v).end = "away"
      BY DEF Away
    <3>2. \A o, p : Served(o, p).end = "served"
      BY DEF Served
    <3> QED
      BY <1>1, <3>1, <3>2, OldEnded DEF Fits
  <2>3. ~(at["old"].end # "lost" /\ 2 * hops["old"] >= MaxHops)
    BY DEF Fits, TooFar
  <2> QED
    BY <1>1, <2>1, <2>2, <2>3
<1>7. ASSUME NEW w, w.host = Site, answer = Going(w)
      PROVE  /\ hops["new"] = MaxHops => at'["new"] = Lost
             /\ hops["new"] # MaxHops => at'["new"] = Going(w) /\ hops'["new"] = hops["new"] + 1
  BY <1>1, <1>5, <1>7 DEF Landed, Going
<1>8. CASE at["new"] = Going(u) /\ hops["new"] <= 2 * j /\ u.scheme = "http"
  <2>1. answer = Going(Https(u)) /\ Https(u).host = Site
    BY <1>3, <1>5, <1>8, AnswerByHTTP, HttpsIs DEF Going
  <2>2. CASE hops["new"] = MaxHops
    <3>1. at["old"] = Lost
      BY <1>1, <1>3, <1>6, <1>8, <2>2
    <3> QED
      BY <1>1, <1>7, <2>1, <2>2, <3>1 DEF NewAt
  <2>3. CASE hops["new"] # MaxHops
    <3>1. at'["new"] = Going(Https(u)) /\ hops'["new"] = hops["new"] + 1
      BY <1>7, <2>1, <2>3
    <3>2. OnTrail(j, c)'
      BY <1>1, <1>3, <1>8, <3>1 DEF OnTrail, Https
    <3> QED
      BY <3>2 DEF NewAt
  <2> QED
    BY <2>2, <2>3
<1>9. CASE at["new"] = Going(Https(u)) /\ hops["new"] <= 2 * j + 1
  <2>1. /\ t.scheme = "https" /\ ~NewRefuses(t) /\ NewRedirects(t) = OldRedirects(Sent(u))
        /\ answer \in NewAnswers(t, hits'["new"])
    BY <1>3, <1>4, <1>5, <1>9, HttpsIs DEF Agree, Going
  <2>2. CASE OldRedirects(Sent(u)) = {}
    <3>1. j = k
      BY <1>3, <2>2
    <3>2. ~(NewCounts(t) /\ NewOver(hits'["new"]))
      BY <1>9, <2>2, <3>1, NotLimited
    <3>3. answer = Served(NewOrigin(NewRewritten(t)), NewRewritten(t).path)
      BY <1>3, <2>1, <2>2, <3>2, NewAnswerIs
    <3> DEFINE s == OldRewritten(Sent(u))
    <3>4. SameBut(s, NewRewritten(t))
      BY <1>4, RewrittenAlike
    <3>5. s.path = NewRewritten(t).path /\ OldOrigin(s) = NewOrigin(NewRewritten(t))
      BY <1>4, <3>4, OriginAlike DEF SameBut
    <3>6. at["old"] = Served(OldOrigin(s), s.path)
      BY <1>1, <2>2, <3>1, OldEnded DEF Fits
    <3>7. at'["new"] = answer
      BY <1>5, <3>3 DEF Landed, Served
    <3> QED
      BY <1>1, <3>3, <3>5, <3>6, <3>7 DEF NewAt
  <2>3. CASE OldRedirects(Sent(u)) # {}
    <3>1. PICK v \in OldRedirects(Sent(u)) : answer = Going(v)
      BY <1>4, <2>1, <2>3 DEF NewAnswers, Agree
    <3>2. \A w \in OldRedirects(Sent(u)) : w = v
      BY <1>4 DEF Agree
    <3>3. CASE j < k
      <4>1. v = c[j + 1] /\ v.host = Site /\ j + 1 \in 0 .. k
        BY <1>3, <3>2, <3>3
      <4>2. CASE hops["new"] = MaxHops
        <5>1. at["old"] = Lost
          BY <1>1, <1>3, <1>6, <1>9, <3>3, <4>2
        <5> QED
          BY <1>1, <1>7, <3>1, <4>1, <4>2, <5>1 DEF NewAt
      <4>3. CASE hops["new"] # MaxHops
        <5>1. at'["new"] = Going(c[j + 1]) /\ hops'["new"] = hops["new"] + 1
          BY <1>7, <3>1, <4>1, <4>3
        <5>2. OnTrail(j + 1, c)'
          BY <1>1, <1>3, <1>9, <5>1 DEF OnTrail
        <5> QED
          BY <4>1, <5>2 DEF NewAt
      <4> QED
        BY <4>2, <4>3
    <3>4. CASE j = k
      <4>1. \/ v.host # Site /\ at["old"] = Away(v)
            \/ v.host = Site /\ at["old"] = Lost /\ k = MaxHops
        BY <1>1, <2>3, <3>2, <3>4, OldEnded
      <4>2. CASE v.host # Site /\ at["old"] = Away(v)
        <5>1. at'["new"] = Away(v)
          BY <1>5, <3>1, <4>2 DEF Landed, Going
        <5> QED
          BY <1>1, <4>2, <5>1 DEF NewAt
      <4>3. CASE v.host = Site /\ at["old"] = Lost /\ k = MaxHops
        <5>1. hops["new"] = MaxHops
          BY <1>1, <1>3, <3>4, <4>3
        <5>2. at'["new"] = Lost
          BY <1>7, <3>1, <4>3, <5>1
        <5> QED
          BY <1>1, <4>3, <5>2 DEF NewAt
      <4> QED
        BY <4>1, <4>2, <4>3
    <3> QED
      BY <1>3, <3>3, <3>4
  <2> QED
    BY <2>2, <2>3
<1>10. CASE at["new"] = Going(u) /\ hops["new"] <= 2 * j /\ u.scheme # "http"
  <2>1. at["new"] = Going(Https(u)) /\ hops["new"] <= 2 * j + 1
    BY <1>1, <1>3, <1>10, HttpsIs
  <2> QED
    BY <1>9, <2>1
<1> QED
  BY <1>2, <1>8, <1>9, <1>10 DEF OnTrail

\* Whom the new edge's WAF has a rule for at the end of the trail does not leave it before.
LEMMA StaysDoomed ==
  ASSUME EdgeAssumption, TypeInv, HopNew,
         NEW k, NEW c, Trail(k, c), OldAt(k, c[k]), Doomed(k, c), Stopped(k, c)
  PROVE  Stopped(k, c)'
<1>1. /\ at["old"].end # "no" /\ at["new"].end = "no"
      /\ hops["new"] \in 0 .. MaxHops /\ hops["old"] \in 0 .. MaxHops /\ MaxHops \in Nat
  BY HopNewDoes DEF TypeInv, Edges, EdgeAssumption
<1>2. PICK j \in 0 .. k : OnTrail(j, c)
  BY <1>1 DEF Stopped
<1> DEFINE u == c[j]
           t == Sent(Https(u))
<1>3. /\ k \in Nat /\ j \in Nat /\ j <= k /\ u \in Url /\ u.host = Site /\ j <= hops["new"]
      /\ j < k => c[j + 1] \in OldRedirects(Sent(u)) /\ c[j + 1].host = Site /\ j + 1 \in 0 .. k
  <2>1. k \in Nat /\ c \in [0 .. k -> Url]
    BY DEF Trail
  <2>2. j < k => j + 1 \in 0 .. k
    BY <2>1
  <2> QED
    BY <1>2, <2>1, <2>2 DEF Trail, OnTrail
<1>4. PICK answer \in NewAnswers(Sent(at["new"].url), hits'["new"]) :
        /\ at'["new"] = Landed(answer, hops["new"])
        /\ answer.end = "no" /\ hops["new"] < MaxHops => hops'["new"] = hops["new"] + 1
  BY HopNewDoes
<1>5. 2 * k < MaxHops
  <2>1. k <= hops["old"]
    BY <1>1, OldEnded DEF Doomed, Refused, Lost
  <2>2. 2 * hops["old"] < MaxHops
    BY <1>1 DEF Doomed, TooFar, Refused
  <2> QED
    BY <1>1, <1>3, <2>1, <2>2
<1>6. ASSUME NEW w, w.host = Site, answer = Going(w), hops["new"] < MaxHops
      PROVE  at'["new"] = Going(w) /\ hops'["new"] = hops["new"] + 1
  BY <1>1, <1>4, <1>6 DEF Landed, Going
<1>7. CASE at["new"] = Going(u) /\ hops["new"] <= 2 * j /\ u.scheme = "http"
  <2>1. answer = Going(Https(u)) /\ Https(u).host = Site
    BY <1>3, <1>4, <1>7, AnswerByHTTP, HttpsIs DEF Going
  <2>2. at'["new"] = Going(Https(u)) /\ hops'["new"] = hops["new"] + 1
    BY <1>1, <1>3, <1>5, <1>6, <1>7, <2>1
  <2>3. OnTrail(j, c)'
    BY <1>1, <1>3, <1>7, <2>2 DEF OnTrail, Https
  <2> QED
    BY <2>3 DEF Stopped
<1>8. CASE at["new"] = Going(Https(u)) /\ hops["new"] <= 2 * j + 1
  <2>1. t.scheme = "https" /\ answer \in NewAnswers(t, hits'["new"])
    BY <1>3, <1>4, <1>8, HttpsIs DEF Going
  <2>2. CASE answer = Refused \/ answer = Limited
    BY <1>4, <2>2 DEF Landed, Refused, Limited, Stopped
  <2>3. CASE ~(answer = Refused \/ answer = Limited)
    <3>1. ~NewRefuses(t) /\ ~(NewCounts(t) /\ NewOver(hits'["new"]))
      BY <2>1, <2>3 DEF NewAnswers
    <3>2. j < k
      BY <1>3, <3>1 DEF Doomed
    <3>3. PICK v : OldRedirects(Sent(u)) = {v} /\ NewRedirects(t) = {v}
      BY <3>2 DEF Doomed, SameWay
    <3>4. v = c[j + 1] /\ v.host = Site /\ j + 1 \in 0 .. k
      BY <1>3, <3>2, <3>3
    <3>5. answer = Going(v)
      BY <2>1, <3>1, <3>3 DEF NewAnswers
    <3>6. at'["new"] = Going(c[j + 1]) /\ hops'["new"] = hops["new"] + 1
      BY <1>1, <1>3, <1>5, <1>6, <1>8, <3>2, <3>4, <3>5
    <3>7. OnTrail(j + 1, c)'
      BY <1>1, <1>3, <1>8, <3>6 DEF OnTrail
    <3> QED
      BY <3>4, <3>7 DEF Stopped
  <2> QED
    BY <2>2, <2>3
<1>9. CASE at["new"] = Going(u) /\ hops["new"] <= 2 * j /\ u.scheme # "http"
  <2>1. at["new"] = Going(Https(u)) /\ hops["new"] <= 2 * j + 1
    BY <1>1, <1>3, <1>9, HttpsIs
  <2> QED
    BY <1>8, <2>1
<1> QED
  BY <1>2, <1>7, <1>8, <1>9 DEF OnTrail

\* Every step keeps TrailInv.
LEMMA TrailStep ==
  ASSUME EdgeAssumption, TypeInv, FewerInv, TrailInv, [EdgeNext]_edgeVars
  PROVE  TrailInv'
<1>1. CASE \E scheme \in {"http", "https"}, path \in Paths : Visit(scheme, path)
  BY <1>1, TrailVisit
<1>2. CASE HopOld
  BY <1>2, TrailOld
<1>3. CASE HopNew
  <2>1. /\ Frame /\ visits > 0 /\ at["old"].end # "no"
        /\ at'["old"] = at["old"] /\ hops'["old"] = hops["old"]
    BY <1>3, HopNewDoes
  <2>2. PICK k, c : /\ Trail(k, c) /\ OldAt(k, c[k])
                    /\ Fits(k, c) => NewAt(k, c)
                    /\ Doomed(k, c) => Stopped(k, c)
    BY <2>1 DEF TrailInv
  <2>3. Trail(k, c)' /\ OldAt(k, c[k])'
    BY <2>1, <2>2, TrailStays, OldAtStays
  <2>4. Fits(k, c)' => NewAt(k, c)'
    BY <1>3, <2>1, <2>2, FitsStays, KeepsTo
  <2>5. Doomed(k, c)' => Stopped(k, c)'
    BY <1>3, <2>1, <2>2, DoomedStays, StaysDoomed
  <2> QED
    BY <2>1, <2>3, <2>4, <2>5 DEF TrailInv
<1>4. CASE Window \/ UNCHANGED edgeVars
  <2>1. Frame /\ at' = at /\ hops' = hops
    BY <1>4, WindowDoes, StutterFrames
  <2> SUFFICES ASSUME visits > 0
               PROVE  TrailInv'
    BY <2>1 DEF TrailInv, Frame
  <2>2. PICK k, c : /\ Trail(k, c) /\ OldAt(k, c[k])
                    /\ at["old"].end = "no" => at["new"] = Going(asked) /\ hops["new"] = 0
                    /\ at["old"].end # "no" /\ Fits(k, c) => NewAt(k, c)
                    /\ at["old"].end # "no" /\ Doomed(k, c) => Stopped(k, c)
    BY DEF TrailInv
  <2>3. /\ Trail(k, c)' /\ OldAt(k, c[k])'
        /\ (Fits(k, c)' <=> Fits(k, c)) /\ (Doomed(k, c)' <=> Doomed(k, c))
    BY <2>1, <2>2, TrailStays, OldAtStays, FitsStays, DoomedStays
  <2>4. (NewAt(k, c)' <=> NewAt(k, c)) /\ (Stopped(k, c)' <=> Stopped(k, c))
    BY <2>1 DEF NewAt, Stopped, OnTrail, Https
  <2> QED
    BY <2>1, <2>2, <2>3, <2>4 DEF TrailInv, Frame
<1> QED
  BY <1>1, <1>2, <1>3, <1>4, NextIs

\* Where the properties ask for it, what the trail asks for holds.
LEMMA KnownFits ==
  ASSUME EdgeAssumption, TypeInv, visits > 0, NoKnownDifference,
         NEW k, NEW c, Trail(k, c), OldAt(k, c[k])
  PROVE  Fits(k, c)
<1>1. \A i \in 0 .. k : Agree(c[i])
  BY KnownAgree
<1>2. On("rate") # {} => Exact
  <2> SUFFICES ASSUME On("rate") # {}
               PROVE  Exact
    OBVIOUS
  <2>1. Unredirected /\ Refusing = {} /\ On("rewrite") = {}
    BY DEF NoKnownDifference, RedirectedFirst, RefusedFirst, RewrittenFirst, Unredirected
  <2>2. \A e \in On("rate") : e.expr.of \in {"true", "has"} /\ (IsPerIPRateLimit(e.chars) => e.action = "block")
    BY DEF NoKnownDifference, ScopeLost, LimitHardened
  <2> QED
    BY <2>1, <2>2 DEF Exact
<1> QED
  BY <1>1, <1>2 DEF NoKnownDifference, Fits

\* When the gate passes, the new edge has to keep to the trail.
LEMMA GateFits ==
  ASSUME EdgeAssumption, TypeInv, visits > 0, GateAgrees, at["old"].end # "no",
         NEW k, NEW c, Trail(k, c), OldAt(k, c[k])
  PROVE  Fits(k, c)
<1>1. \A i \in 0 .. k : Agree(c[i])
  BY GateAgree
<1>2. On("rate") = {} /\ \A r : ~OldBlocks(r) /\ ~OldCounts(r)
  BY OnlyPageRules DEF GateAgrees
<1>3. at["old"].end \notin {"refused", "limited"}
  <2>1. /\ \A v : Away(v).end = "away"
        /\ \A o, p : Served(o, p).end = "served"
        /\ Lost.end = "lost" /\ Going(c[k]).end = "no"
    BY DEF Away, Served, Lost, Going
  <2> QED
    BY <1>2, <2>1 DEF OldAt
<1> QED
  BY <1>1, <1>2, <1>3 DEF GateAgrees, Fits

\* A visit that has ended at both edges on the trail ended alike.
LEMMA EndedAlike ==
  ASSUME Ended, NEW k, NEW c, NewAt(k, c)
  PROVE  at["new"] = at["old"]
<1>1. at["new"].end # "no"
  BY DEF Ended, Edges
<1>2. \A u : at["new"] # Going(u)
  BY <1>1 DEF Going
<1> QED
  BY <1>2 DEF NewAt, OnTrail

\* Both properties about where visitors arrive follow from TrailInv.
LEMMA AlikeFollows ==
  ASSUME EdgeAssumption, TypeInv, TrailInv
  PROVE  ArrivesAlike /\ GateSeesRedirects
<1> SUFFICES ASSUME visits > 0, Ended, NoKnownDifference \/ GateAgrees
             PROVE  at["new"] = at["old"]
  BY DEF ArrivesAlike, GateSeesRedirects
<1>1. at["old"].end # "no"
  BY DEF Ended, Edges
<1>2. PICK k, c : Trail(k, c) /\ OldAt(k, c[k]) /\ (Fits(k, c) => NewAt(k, c))
  BY <1>1 DEF TrailInv
<1>3. Fits(k, c)
  BY <1>1, <1>2, KnownFits, GateFits
<1> QED
  BY <1>2, <1>3, EndedAlike

\* Where the zone's block rules are AUTO and its redirects survive, whom the old edge
\* refuses somewhere on the trail is doomed.
LEMMA RefusedIsDoomed ==
  ASSUME EdgeAssumption, TypeInv, visits > 0, BlockedOnTheWay,
         NEW k, NEW c, Trail(k, c), OldAt(k, c[k])
  PROVE  Doomed(k, c)
<1> DEFINE u == c[k]
           r == Sent(u)
           s == OldRewritten(r)
<1>1. /\ k \in Nat /\ u \in Url
      /\ \A i \in 0 .. k : c[i] \in Url /\ c[i].host = Site
      /\ \A i \in 0 .. k : i < k => c[i + 1] \in OldRedirects(Sent(c[i]))
  BY DEF Trail
<1>2. ZoneOK /\ client \in Client
  BY ZonesOK DEF TypeInv
<1>3. at["old"] = Refused /\ OldBlocks(s)
  <2>1. /\ \A v : Away(v).end = "away"
        /\ \A o, p : Served(o, p).end = "served"
        /\ Lost.end = "lost" /\ Limited.end = "limited" /\ Going(u).end = "no"
    BY DEF Away, Served, Lost, Limited, Going
  <2> QED
    BY <2>1 DEF OldAt, BlockedOnTheWay
<1>4. OldBlocks(r)
  <2>1. CASE On("rewrite") = {}
    BY <1>3, <2>1, Unrewritten
  <2>2. CASE On("firewall") = {}
    <3>1. s.country = r.country /\ s.agent = r.agent
      BY DEF OldRewritten, Sent, Request
    <3> HIDE DEF s, r
    <3> QED
      BY <1>3, <2>2, <3>1 DEF OldBlocks
  <2> QED
    BY <2>1, <2>2 DEF BlockedOnTheWay, RewrittenFirst
<1>5. NewRefuses(Sent(Https(u)))
  <2>1. SameBut(r, Sent(Https(u))) /\ r.country = client.country /\ r.agent = client.agent
    BY <1>1, HttpsIs DEF Sent, Request
  <2> HIDE DEF u
  <2>2. ASSUME NEW e \in On("firewall"), e.action = "block", Holds(e.expr, r)
        PROVE  e \in Translated /\ ~Untargeted(e)
    BY <2>2 DEF BlockedOnTheWay, Translated, Allowed
  <2>3. \/ \E e \in Translated   : e.action = "block" /\ Holds(e.expr, r) /\ ~Untargeted(e)
        \/ \E e \in On("access") : e.mode = "block" /\ e.country = client.country
        \/ \E e \in On("agent")  : e.mode = "block" /\ e.agent = client.agent
    BY <1>4, <2>1, <2>2 DEF OldBlocks
  <2> QED
    BY <1>1, <1>2, <2>1, <2>3, BlockIsRefusal
<1>6. ASSUME NEW i \in 0 .. k, i < k
      PROVE  SameWay(c[i])
  <2> DEFINE q == Sent(c[i])
             t == Sent(Https(c[i]))
  <2>1. q.host = Site /\ q.path \in Path /\ t.path = q.path
    BY <1>1 DEF Sent, Https, Request, Url
  <2>2. OldRedirects(q) # {}
    BY <1>1, <1>6
  <2> HIDE DEF q, t
  <2>3. {x \in On("redirect") : x.to # Dynamic /\ Holds(x.expr, q)} = {}
    BY <2>1, RuleIsRedirect DEF BlockedOnTheWay
  <2>4. PICK p \in OldForwards(q) : TRUE
    BY <2>2, <2>3 DEF OldRedirects
  <2>5. ~IsCatchAll(p.glob)
    BY <2>1, ForwardIsRedirect DEF OldForwards, BlockedOnTheWay, PathAppended
  <2>6. OldRedirects(q) = {To(p, q)} /\ NewRedirects(t) = {To(p, q)}
    BY <1>2, <2>1, <2>5, PatternRedirects DEF BlockedOnTheWay
  <2> QED
    BY <2>6 DEF SameWay, q, t
<1> QED
  BY <1>3, <1>5, <1>6 DEF Doomed, BlockedOnTheWay

\* BlockedStaysBlocked follows from the invariants about refusals, limits and the trail.
LEMMA BlockedFollows ==
  ASSUME EdgeAssumption, TypeInv, RefusedInv, MoreInv, TrailInv
  PROVE  BlockedStaysBlocked
<1> SUFFICES ASSUME visits > 0, Ended, at["old"].end \in {"refused", "limited"},
                    BlockedAsAsked \/ BlockedOnTheWay \/ LimitedInScope
             PROVE  at["new"].end \in {"refused", "limited"}
  BY DEF BlockedStaysBlocked
<1>1. at["new"].end # "no" /\ at["old"].end # "no"
  BY DEF Ended, Edges
<1>2. CASE BlockedAsAsked
  <2>1. client \in Client /\ ZoneOK /\ Sent(asked) = Asked
    BY ZonesOK DEF TypeInv, Sent, Asked
  <2>2. NewRefuses(Sent(Https(asked)))
    BY <1>2, <2>1, AskedAlike, BlockIsRefusal DEF BlockedAsAsked
  <2>3. at["new"].end = "refused"
    BY <1>1, <2>2 DEF RefusedInv, Going
  <2> QED
    BY <2>3
<1>3. CASE BlockedOnTheWay
  <2>1. PICK k, c : Trail(k, c) /\ OldAt(k, c[k]) /\ (Doomed(k, c) => Stopped(k, c))
    BY <1>1 DEF TrailInv
  <2>2. Stopped(k, c)
    BY <1>3, <2>1, RefusedIsDoomed
  <2>3. \A v : at["new"] # Going(v)
    BY <1>1 DEF Going
  <2> QED
    BY <2>2, <2>3 DEF Stopped, OnTrail
<1>4. CASE LimitedInScope
  <2>1. Covered
    BY <1>4 DEF LimitedInScope, Covered, Unredirected, RewrittenFirst, RedirectedFirst, Contested
  <2>2. at["new"].end \in {"refused", "limited"}
    BY <1>1, <1>4, <2>1 DEF MoreInv, LimitedInScope
  <2> QED
    BY <2>2
<1> QED
  BY <1>2, <1>3, <1>4

-----------------------------------------------------------------------------
(* The properties of the edges.                                            *)

EdgeInv == TypeInv /\ RefusedInv /\ PlainInv /\ FewerInv /\ MoreInv /\ TrailInv

\* The edges start where the invariant holds.
LEMMA InitEdgeInv == EdgeInit => EdgeInv
<1> SUFFICES ASSUME EdgeInit
             PROVE  EdgeInv
  OBVIOUS
<1>1. visits = 0 /\ hits["old"] = 0 /\ hits["new"] = 0
  BY DEF EdgeInit, Edges
<1>2. ~Due /\ DueCount = 0
  BY <1>1 DEF Due, DueCount
<1> QED
  BY <1>1, <1>2, TypeInit, EdgeAssumption
     DEF EdgeInv, RefusedInv, PlainInv, FewerInv, MoreInv, TrailInv

\* Every step keeps the invariant, its parts in the order they need each other.
LEMMA StepEdgeInv == EdgeInv /\ [EdgeNext]_edgeVars => EdgeInv'
BY EdgeAssumption, TypeStep, RefusedStep, PlainStep, FewerStep, MoreStep, TrailStep DEF EdgeInv

\* The inductive invariant holds of every zone: who is refused, how the rate limits of the
\* two edges count, and that the new edge keeps to the way the old one went.
THEOREM EdgeInvariant == EdgeSpec => []EdgeInv
<1> QED
  BY InitEdgeInv, StepEdgeInv, PTL DEF EdgeSpec

\* A client is at one URL or has ended at each edge, and follows no more than MaxHops
\* redirects of a visit.
THEOREM EdgeTypeCorrect == EdgeSpec => []TypeInv
<1>1. EdgeInv => TypeInv
  BY DEF EdgeInv
<1> QED
  BY <1>1, EdgeInvariant, PTL

\* For all zones, names and paths: whom the old edge refuses by AUTO rules, at the URL asked
\* for or after any redirects that survive, or limits, the configuration buildWAF generates
\* refuses, however many visits there are.
THEOREM EdgeBlockedStaysBlocked == EdgeSpec => []BlockedStaysBlocked
<1>1. EdgeInv => BlockedStaysBlocked
  BY EdgeAssumption, BlockedFollows DEF EdgeInv
<1> QED
  BY <1>1, EdgeInvariant, PTL

\* For all zones, names and paths: where none of the named differences is in the way, a
\* visitor arrives at the new edge where the old one brings it, through any redirects.
THEOREM EdgeArrivesAlike == EdgeSpec => []ArrivesAlike
<1>1. EdgeInv => ArrivesAlike
  BY EdgeAssumption, AlikeFollows DEF EdgeInv
<1> QED
  BY <1>1, EdgeInvariant, PTL

\* For all zones of Page Rules, rewrites and origins: a gate that passes on one probe of
\* each pattern speaks for every path, scheme and chain of redirects.
THEOREM EdgeGateSeesRedirects == EdgeSpec => []GateSeesRedirects
<1>1. EdgeInv => GateSeesRedirects
  BY EdgeAssumption, AlikeFollows DEF EdgeInv
<1> QED
  BY <1>1, EdgeInvariant, PTL
=============================================================================
