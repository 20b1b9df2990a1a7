--------------------------------- MODULE Edge ---------------------------------
(***************************************************************************)
(* One site at the old edge and at the one generated for it.  plan.Build   *)
(* and the Caddy and caddy-waf generators turn the zone's rules into       *)
(* configuration; clients then visit both edges, follow the redirects they *)
(* get, and arrive at the origin, at another site, or are refused.  The    *)
(* parity gate compares the two edges on the probes the plan yields.       *)
(*                                                                         *)
(* A path is a sequence of segments, a name a client sends a model value:  *)
(* what occurs in it, and what does when case is ignored, are relations.   *)
(* A zone is a set of rules: where the order of two of them decides, and   *)
(* for a second rate limit, the properties make an exception.              *)
(***************************************************************************)
EXTENDS Naturals, SequencesExt

CONSTANTS
  Site,       \* the host of the site
  Elsewhere,  \* a host that is not served here
  Origin,     \* the origin answered for the site
  Agents,     \* User-Agent values
  Countries,  \* where clients come from
  Clients,    \* the clients explored
  Within,     \* <<v, w>>: the name v occurs in the name w
  WithinFold, \* the same when case is ignored
  Segments,   \* what paths are made of
  Probe,      \* the segment the gate puts in place of a wildcard
  Capture,    \* the text $1
  Dynamic,    \* a value computed from the request
  Nothing,    \* no value
  Paths,      \* the paths clients visit
  Zones,      \* the zones explored: sets of rules
  MaxVisits,  \* bound: visits of a client
  MaxHops     \* the redirects a client follows before it gives up

VARIABLES
  zone,   \* the rules, the same at Cloudflare and in the snapshot
  yes,    \* the challenges answered yes in decisions.lock
  client, \* who visits
  asked,  \* the URL of the present visit
  at,     \* where the visit is at each edge
  hops,   \* redirects followed
  hits,   \* requests counted by each edge's rate limit in this window
  visits

edgeVars == <<zone, yes, client, asked, at, hops, hits, visits>>

Edges == {"old", "new"}

\* A country stands for any group of addresses, a referer for the host that Referer or
\* Origin names.
Client == [agent: Agents, country: Countries, referer: {Nothing, Site, Elsewhere}]
Challenges == {"managed_challenge", "challenge", "js_challenge"}

\* An expression: of says which field is compared and how.  "starts" is the
\* starts_with function, "and" joins two simple ones, its value.
Fields == {"host", "is", "has", "agentIs", "agentHas"}
Shapes == Fields \cup {"true", "starts", "country", "and"}

Path == Seq(Segments)
Url == [scheme: {"http", "https"}, host: {Site, Elsewhere}, path: Path]

\* What the rules of a zone are made of.  A comparison is never with nothing, and a
\* target that is not computed is a URL.
RuleOK(e) ==
  /\ e.kind = "forward" => /\ e.glob \in [prefix: Path, star: BOOLEAN] /\ e.to \in Url
                            /\ e.priority \in Nat
  /\ e.kind = "redirect" => e.to = Dynamic \/ e.to \in Url
  /\ e.kind \in {"firewall", "rate"} /\ e.expr.of \in {"is", "has", "starts"} => e.expr.value \in Path
  /\ e.kind = "rate" => e.limit \in Nat /\ (e.expr.of \in Fields => e.expr.value # Nothing)

ASSUME EdgeAssumption ==
  /\ Site # Elsewhere
  /\ Within \subseteq Agents \X Agents /\ WithinFold \subseteq Agents \X Agents
  /\ Within \subseteq WithinFold
  /\ \A a \in Agents : <<a, a>> \in Within
  /\ Clients \subseteq Client
  /\ Paths \subseteq Path /\ Probe \notin Segments
  /\ \A z \in Zones : \A e \in z : RuleOK(e)
  /\ MaxVisits \in Nat /\ MaxHops \in Nat \ {0}

Request(url, c) == [scheme |-> url.scheme, host |-> url.host, path |-> url.path,
                    agent |-> c.agent, country |-> c.country, referer |-> c.referer]

\* Of several elements, the one whose turn it is.
FirstOf(E) == CHOOSE x \in E : TRUE

Occurs(p, q) == \E i \in 1 .. Len(q) + 1 : IsPrefix(p, SubSeq(q, i, Len(q)))

-----------------------------------------------------------------------------
(* cfexpr: what the generators can express.                                *)

SimpleWAFMatch(e) == e.of \in Fields \cup {"country"}
TransformScope(e) == e.of \in {"true", "host", "starts", "is"}
OriginScope(e)    == e.of \in {"host", "starts", "is"}
IsPerIPRateLimit(chars) == "ip.src" \in chars /\ chars \subseteq {"ip.src", "cf.colo.id"}

-----------------------------------------------------------------------------
(* The old edge.                                                           *)

HoldsSimple(e, r) ==
  CASE e.of = "true"     -> TRUE
    [] e.of = "host"     -> r.host = e.value
    [] e.of = "is"       -> r.path = e.value
    [] e.of = "has"      -> Occurs(e.value, r.path)
    [] e.of = "starts"   -> IsPrefix(e.value, r.path)
    [] e.of = "agentIs"  -> r.agent = e.value
    [] e.of = "agentHas" -> <<e.value, r.agent>> \in Within
    [] e.of = "country"  -> r.country = e.value

Holds(e, r) == IF e.of = "and" THEN \A f \in e.value : HoldsSimple(f, r) ELSE HoldsSimple(e, r)

On(kind) == {e \in zone : e.kind = kind /\ e.on}

\* /* matches every path, /old/* what is below /old.
Below(p, q) == IsPrefix(p, q) /\ p # q
GlobMatches(glob, path) ==
  IF glob.star THEN glob.prefix = << >> \/ Below(glob.prefix, path) ELSE path = glob.prefix
Behind(glob, path) == SubSeq(path, Len(glob.prefix) + 1, Len(path))

\* What a rule of the zone does to a request; a visitor passes a challenge.  Whom a skip
\* rule or an allow is for may pass what blocks, or not: the order decides.
OldBlocks(r) ==
  \/ \E e \in On("firewall") : e.action = "block" /\ Holds(e.expr, r)
  \/ \E e \in On("access")   : e.mode = "block" /\ e.country = r.country
  \/ \E e \in On("agent")    : e.mode = "block" /\ e.agent = r.agent

Exempt(r) ==
  \/ \E e \in On("firewall") : e.action = "skip" /\ Holds(e.expr, r)
  \/ \E e \in On("access")   : e.mode = "whitelist" /\ e.country = r.country

OldRewritten(r) ==
  LET e == {x \in On("rewrite") : Holds(x.expr, r) /\ x.to # Dynamic} IN
  IF e = {} THEN r ELSE [r EXCEPT !.path = FirstOf(e).to]

\* An origin rule without an upstream changes the Host header or the SNI only.
OldOrigin(r) ==
  LET e == {x \in On("origin") : Holds(x.expr, r) /\ x.upstream # Nothing} IN
  IF e = {} THEN Origin ELSE FirstOf(e).upstream

\* A redirect rule sends its target as it is, a Page Rule with what * stood for; of the
\* Page Rules that match, the first by priority.
OldForwards(r) ==
  {e \in On("forward") : /\ e.host = r.host /\ e.scheme \in {"any", r.scheme}
                         /\ GlobMatches(e.glob, r.path)}
OldRedirects(r) ==
  {e.to : e \in {x \in On("redirect") : x.to # Dynamic /\ Holds(x.expr, r)}}
    \cup {[e.to EXCEPT !.path = @ \o IF e.capture THEN Behind(e.glob, r.path) ELSE << >>] :
            e \in {x \in OldForwards(r) : \A y \in OldForwards(r) : x.priority <= y.priority}}

\* The rate limit counts what was neither redirected nor refused.
OldCounts(r) ==
  /\ OldRedirects(r) = {} /\ ~OldBlocks(OldRewritten(r))
  /\ \E e \in On("rate") : Holds(e.expr, OldRewritten(r))

\* Over the limit a request is refused if that is the rule's action: one that logs lets it
\* pass, and a visitor passes a challenge.
OldOver(n) == \E e \in On("rate") : e.action = "block" /\ n > e.limit

\* mitigation_timeout: over the limit, a rule may refuse for longer than its period.
OldOutlasts(n) == \E e \in On("rate") : e.action = "block" /\ e.lasts /\ n > e.limit

-----------------------------------------------------------------------------
(* plan.Build and the generators.                                          *)

\* buildWAF's two guards: a challenge only when it was answered yes, and an expression
\* the generator can express.
AllowedAnyway(e, action) == action = "block" \/ action \in Challenges
Allowed(e, action) == action = "block" \/ (action \in Challenges /\ e \in yes)

Translated ==
  {e \in On("firewall") : (e.action = "log" \/ Allowed(e, e.action)) /\ SimpleWAFMatch(e.expr)}

TargetUnknown(field) == "headers"

\* wafTargetForField: which part of a request a rule looks at.
WAFTarget(field) ==
  CASE field \in {"agentIs", "agentHas"} -> "agent"
    [] field \in {"is", "has"}           -> "url"
    [] OTHER                             -> "headers"

\* The rules of rules.json: only a firewall rule can be one that logs.
CustomRules ==
  {[target |-> WAFTarget(e.expr.of), value |-> e.expr.value,
    action |-> IF e.action = "log" THEN "log" ELSE "block"] :
      e \in {x \in Translated : x.expr.of # "country"}}
  \cup {[target |-> "agent", value |-> e.agent, action |-> "block"] :
          e \in {x \in On("agent") : Allowed(x, x.mode)}}

\* A country goes to block_countries, whatever the action of its rule.
BlockCountries ==
  {e.expr.value : e \in {x \in Translated : x.expr.of = "country"}}
    \cup {e.country : e \in {x \in On("access") : Allowed(x, x.mode)}}

\* ratelimitPath: the value of a single comparison, of whatever field; else everything.
RatePath(e) == IF e.of \in Fields THEN e.value ELSE Nothing

\* Neither the action of a rate limit nor its mitigation_timeout is looked at.
RateLimits ==
  {[path |-> RatePath(e.expr), of |-> e.expr.of, limit |-> e.limit] :
     e \in {x \in On("rate") : IsPerIPRateLimit(x.chars)}}

\* redirectsForHost: a redirect rule of the host with a target of its own matches
\* everything, a Page Rule what its pattern says; the scheme of the pattern is dropped.
Everything == [prefix |-> << >>, star |-> TRUE]
Redirects ==
  {[glob |-> Everything, to |-> e.to, capture |-> FALSE, probe |-> << >>] :
     e \in {x \in On("redirect") : x.expr.of = "host" /\ x.expr.value = Site /\ x.to # Dynamic}}
  \cup {[glob |-> e.glob, to |-> e.to, capture |-> e.capture,
         probe |-> e.glob.prefix \o IF e.glob.star THEN <<Probe>> ELSE << >>] :
          e \in {x \in On("forward") : x.host = Site}}

Rewrites == {e \in On("rewrite") : TransformScope(e.expr) /\ e.to # Dynamic}

\* A rule on the whole host replaces the upstream, one on a path is matched before it and
\* must have one.
Proxies == {e \in On("origin") : OriginScope(e.expr) /\ e.upstream # Nothing}

-----------------------------------------------------------------------------
(* The new edge: what the generated Caddyfile makes Caddy do.              *)

\* A pattern is an unanchored regular expression that ignores case.  Among the headers is
\* not Host, but there are those that may name one.
Fires(rule, r) ==
  CASE rule.target = "agent"   -> <<rule.value, r.agent>> \in WithinFold
    [] rule.target = "url"     -> Occurs(rule.value, r.path)
    [] rule.target = "headers" -> rule.value = r.referer

NewRefuses(r) ==
  \/ \E rule \in CustomRules : rule.action = "block" /\ Fires(rule, r)
  \/ r.country \in BlockCountries

\* rate_limit with paths looks for them in the request's path.
NewCounts(r) ==
  \E l \in RateLimits :
    l.path = Nothing \/ (l.of \in {"is", "has"} /\ Occurs(l.path, r.path))
NewOver(n) == \E l \in RateLimits : n > l.limit

IsCatchAll(glob) == glob = Everything

\* renderRedirect: a catch-all appends the request's URI to its target, which keeps its
\* $1; any other pattern with a $1 becomes a path_regexp.
Rendered(red, r) ==
  [red.to EXCEPT !.path =
     IF IsCatchAll(red.glob)
     THEN @ \o (IF red.capture THEN <<Capture>> ELSE << >>) \o r.path
     ELSE @ \o IF red.capture THEN Behind(red.glob, r.path) ELSE << >>]

\* orderRedirects: patterns before catch-alls.
NewRedirects(r) ==
  LET match == {red \in Redirects : GlobMatches(red.glob, r.path)}
      first == {red \in match : ~IsCatchAll(red.glob)}
  IN {Rendered(red, r) : red \in IF first # {} THEN first ELSE match}

NewRewritten(r) ==
  LET e == {x \in Rewrites : HoldsSimple(x.expr, r)} IN
  IF e = {} THEN r ELSE [r EXCEPT !.path = FirstOf(e).to]

NewOrigin(r) ==
  LET e == {x \in Proxies : HoldsSimple(x.expr, r)} IN
  IF e = {} THEN Origin ELSE FirstOf(e).upstream

-----------------------------------------------------------------------------
(* One request at one edge.                                                *)

Refused  == [end |-> "refused"]
Limited  == [end |-> "limited"]
Lost     == [end |-> "lost"]
Going(url) == [end |-> "no", url |-> url]
Served(origin, path) == [end |-> "served", origin |-> origin, path |-> path]
Away(url) == [end |-> "away", url |-> url]

\* What each edge may answer a request that is the n-th its rate limit counts.
OldAnswers(r, n) ==
  LET s == OldRewritten(r) IN
  IF OldRedirects(r) # {} THEN {Going(url) : url \in OldRedirects(r)}
  ELSE (IF OldBlocks(s) THEN {Refused} ELSE {}) \cup
       (IF OldBlocks(s) /\ ~Exempt(s) THEN {}
        ELSE IF OldCounts(r) /\ OldOver(n) THEN {Limited} ELSE {Served(OldOrigin(s), s.path)})

\* Caddy sends what arrives by HTTP to HTTPS; then the WAF, first of all.
NewAnswers(r, n) ==
  LET s == NewRewritten(r) IN
  IF r.scheme = "http" THEN {Going([scheme |-> "https", host |-> r.host, path |-> r.path])}
  ELSE IF NewRefuses(r) THEN {Refused}
  ELSE IF NewCounts(r) /\ NewOver(n) THEN {Limited}
  ELSE IF NewRedirects(r) # {} THEN {Going(url) : url \in NewRedirects(r)}
  ELSE {Served(NewOrigin(s), s.path)}

EdgeInit ==
  /\ zone \in Zones
  /\ yes \in SUBSET {e \in zone : \/ e.kind = "firewall" /\ e.action \in Challenges
                                  \/ e.kind \in {"access", "agent"} /\ e.mode \in Challenges}
  /\ client \in Clients
  /\ asked = Nothing
  /\ at = [e \in Edges |-> Lost]
  /\ hops = [e \in Edges |-> 0]
  /\ hits = [e \in Edges |-> 0]
  /\ visits = 0

Ended == \A e \in Edges : at[e].end # "no"

\* A client opens a URL of the site, at both edges.
Visit(scheme, path) ==
  LET url == [scheme |-> scheme, host |-> Site, path |-> path] IN
  /\ Ended /\ visits < MaxVisits
  /\ visits' = visits + 1
  /\ asked' = url
  /\ at' = [e \in Edges |-> Going(url)]
  /\ hops' = [e \in Edges |-> 0]
  /\ UNCHANGED <<zone, yes, client, hits>>

Arrive(e, answer) ==
  /\ at' = [at EXCEPT ![e] =
       IF answer.end = "no" /\ answer.url.host # Site THEN Away(answer.url)
       ELSE IF answer.end = "no" /\ hops[e] = MaxHops THEN Lost ELSE answer]
  /\ hops' = [hops EXCEPT ![e] = IF answer.end = "no" /\ @ < MaxHops THEN @ + 1 ELSE @]

\* The client sends its next request to an edge; the rate limit counts what it matches.
HopOld ==
  /\ at["old"].end = "no"
  /\ LET r == Request(at["old"].url, client)
         n == hits["old"] + IF OldCounts(r) THEN 1 ELSE 0 IN
     /\ hits' = [hits EXCEPT !["old"] = n]
     /\ \E answer \in OldAnswers(r, n) : Arrive("old", answer)
  /\ UNCHANGED <<zone, yes, client, asked, visits>>

HopNew ==
  /\ at["new"].end = "no" /\ at["old"].end # "no"
  /\ LET r == Request(at["new"].url, client)
         n == hits["new"] + IF r.scheme = "https" /\ NewCounts(r) THEN 1 ELSE 0 IN
     /\ hits' = [hits EXCEPT !["new"] = n]
     /\ \E answer \in NewAnswers(r, n) : Arrive("new", answer)
  /\ UNCHANGED <<zone, yes, client, asked, visits>>

\* A window of the rate limits ends, perhaps not that of a refusal at the old edge.
Window ==
  /\ Ended /\ hits # [e \in Edges |-> 0]
  /\ \/ hits' = [e \in Edges |-> 0]
     \/ OldOutlasts(hits["old"]) /\ hits' = [hits EXCEPT !["new"] = 0]
  /\ UNCHANGED <<zone, yes, client, asked, at, hops, visits>>

EdgeNext ==
  \/ \E scheme \in {"http", "https"}, path \in Paths : Visit(scheme, path)
  \/ HopOld \/ HopNew \/ Window

EdgeSpec == EdgeInit /\ [][EdgeNext]_edgeVars

-----------------------------------------------------------------------------
(* The parity gate.                                                        *)

\* ProbesFromPlan: the site's root, and a path for each redirect; where the gate is asked
\* below, the WAF has no rule to exercise.
Probes == {<< >>} \cup {red.probe : red \in Redirects}

StatusOnly(a, b) == a.end = b.end

\* diff, on the hard signals: the status, and where a redirect goes.
HardSame(a, b) == a.end = b.end /\ (a.end = "no" => a.url = b.url)

\* The gate's requests come by HTTPS from a client no rule is about.
GatePasses ==
  \A path \in Probes :
    LET r == Request([scheme |-> "https", host |-> Site, path |-> path],
                     [agent |-> Nothing, country |-> Nothing, referer |-> Nothing]) IN
    \A a \in OldAnswers(r, 0), b \in NewAnswers(r, 0) : HardSame(a, b)

-----------------------------------------------------------------------------
(* Where the two edges are known to part.                                  *)

\* The present visit's request, before any redirect.
Asked == Request(asked, client)

\* Routing the report leaves to the operator, or calls AUTO although redirectsForHost
\* passes over it.
RedirectNotCarried == \E e \in On("redirect") : e.expr.of # "host" \/ e.to = Dynamic
NotCarried ==
  \/ \E e \in On("rewrite")  : ~TransformScope(e.expr) \/ e.to = Dynamic
  \/ \E e \in On("origin")   : ~OriginScope(e.expr)
  \/ RedirectNotCarried

\* A rule on a field that has no target of its own looks at the headers instead.
Untargeted(e) == e.expr.of = "host"

\* It fires where one of them holds what the field does not.
Misled ==
  \E e \in Translated : Untargeted(e) /\ ~Holds(e.expr, Asked) /\ e.expr.value = client.referer

\* The WAF of the old edge sees the rewritten path, that of the new one the original.
RewrittenFirst == On("rewrite") # {} /\ On("firewall") \cup On("rate") # {}

\* The old edge redirects, then refuses, then counts; the new one has it the other way round.
Refusing == On("firewall") \cup On("access") \cup On("agent")
RedirectedFirst == On("redirect") \cup On("forward") # {} /\ Refusing \cup On("rate") # {}
RefusedFirst == Refusing # {} /\ On("rate") # {}

\* Of two rewrites, or two origins, for one request the order decides; two rate limits
\* would need a counter each.
Contested(kind) == \E e, f \in On(kind) : e # f

\* eq became contains, and case is ignored: the rule fires beyond what it says.
Loosely ==
  \/ \E e \in Translated : /\ e.expr.of \in {"is", "agentIs", "agentHas"}
                            /\ ~Holds(e.expr, Asked)
                            /\ IF e.expr.of = "is" THEN Occurs(e.expr.value, asked.path)
                               ELSE <<e.expr.value, client.agent>> \in WithinFold
  \/ \E e \in On("agent") : e.agent # client.agent /\ <<e.agent, client.agent>> \in WithinFold

\* A country rule that only logs refuses.
LoggedCountry == \E e \in Translated : e.action = "log" /\ e.expr.of = "country"

\* A challenge answered yes is a refusal.
AskedFor ==
  \E e \in yes : /\ e.on
                 /\ CASE e.kind = "firewall" -> Holds(e.expr, Asked)
                      [] e.kind = "access"   -> e.country = client.country
                      [] e.kind = "agent"    -> e.agent = client.agent

\* Nothing is made of a skip rule, nor of an allow for a country.
Exempted == OldBlocks(Asked) /\ Exempt(Asked)

\* A rate limit on anything but a single comparison limits the whole site; one on a path
\* also counts the paths that contain it, and one on another field counts nothing.
ScopeLost == \E e \in On("rate") : e.expr.of \notin {"true", "has"}

\* A rate limit that logs, or challenges, limits.
LimitHardened == \E e \in On("rate") : IsPerIPRateLimit(e.chars) /\ e.action # "block"

\* A catch-all sends visitors to another path than the zone did, and a pattern that was
\* for one scheme is for both.
PathAppended == \E red \in Redirects : IsCatchAll(red.glob)
SchemeDropped == \E e \in On("forward") : e.scheme # "any"

\* What matches everything comes last here: a catch-all Page Rule of higher priority, and
\* a redirect rule, which comes before every Page Rule.
Pattern(e) == e.host = Site /\ ~IsCatchAll(e.glob)
OrderLost ==
  \E f \in On("forward") :
    /\ Pattern(f)
    /\ \/ \E e \in On("forward") : e.host = Site /\ IsCatchAll(e.glob) /\ e.priority <= f.priority
       \/ On("redirect") # {}

\* Two patterns for one path: redirectsForHost does not look at their priorities.
Overlap(g, h) ==
  \/ ~g.star /\ GlobMatches(h, g.prefix)
  \/ ~h.star /\ GlobMatches(g, h.prefix)
  \/ g.star /\ h.star /\ (IsPrefix(g.prefix, h.prefix) \/ IsPrefix(h.prefix, g.prefix))
Overlapping == \E e, f \in On("forward") : e # f /\ Pattern(e) /\ Pattern(f) /\ Overlap(e.glob, f.glob)

\* The new edge redirects to HTTPS first, which may double the redirects to follow.
TooFar == at["old"].end # "lost" /\ 2 * hops["old"] >= MaxHops

-----------------------------------------------------------------------------
(* Properties.                                                             *)

\* A block rule called AUTO is about the visitor, or about the URL that was asked for.
BlockedAsAsked ==
  \/ \E e \in Translated   : e.action = "block" /\ Holds(e.expr, Asked) /\ ~Untargeted(e)
  \/ \E e \in On("access") : e.mode = "block" /\ e.country = client.country
  \/ \E e \in On("agent")  : e.mode = "block" /\ e.agent = client.agent

\* The zone's block rules are AUTO and its redirects survive, so that a rule about a URL the
\* visitor is redirected to is met on the way.  A rule about what a URL is rewritten to is not.
BlockedOnTheWay ==
  /\ at["old"].end = "refused"
  /\ \A e \in On("firewall") : e.action = "block" => SimpleWAFMatch(e.expr) /\ ~Untargeted(e)
  /\ ~RewrittenFirst
  /\ ~RedirectNotCarried /\ ~PathAppended /\ ~Overlapping /\ ~TooFar

\* A rate limit per address whose scope is no less than it was, with nothing before it.
LimitedInScope ==
  /\ at["old"].end = "limited"
  /\ ~RewrittenFirst /\ ~RedirectedFirst /\ ~Contested("rate")
  /\ \E e \in On("rate") : /\ IsPerIPRateLimit(e.chars) /\ ~e.lasts
                           /\ e.expr.of \in {"true", "is", "has", "starts"}

\* A visitor the old edge refuses, at the URL that was asked for or at one it was redirected
\* to, or limits, over several visits and windows, does not get through at the new one:
\* nothing of what the zone blocks is lost between expression, plan, rules.json and
\* Caddyfile, but for what the three premises leave out.
BlockedStaysBlocked ==
  /\ visits > 0 /\ Ended
  /\ at["old"].end \in {"refused", "limited"}
  /\ BlockedAsAsked \/ BlockedOnTheWay \/ LimitedInScope
  => at["new"].end \in {"refused", "limited"}

\* The old edge brings the visitor somewhere, and nothing named above is in the way.
NoKnownDifference ==
  /\ at["old"].end \in {"served", "away"}
  /\ ~NotCarried /\ ~RewrittenFirst /\ ~RedirectedFirst /\ ~RefusedFirst
  /\ \A kind \in {"rewrite", "origin", "rate"} : ~Contested(kind)
  /\ ~Loosely /\ ~Misled /\ ~LoggedCountry /\ ~AskedFor /\ ~Exempted
  /\ ~ScopeLost /\ ~LimitHardened
  /\ ~SchemeDropped /\ ~OrderLost /\ ~Overlapping /\ ~TooFar
  /\ PathAppended => \E f \in OldForwards(Asked) : ~IsCatchAll(f.glob) /\ f.to.host # Site

\* A visitor the old edge brings somewhere, through however many redirects, is brought to
\* the same place by the new one: it is not refused for a challenge nobody answered, not
\* redirected elsewhere or in circles, and reaches the same origin by the same path.
ArrivesAlike == visits > 0 /\ Ended /\ NoKnownDifference => at["new"] = at["old"]

\* The capture syntax of a Page Rule never reaches a visitor: what the generator's test
\* asks of the Caddyfile.  The catch-all is rendered before captures are looked for.
NoCaptureSent ==
  at["new"].end \in {"no", "away"} => Capture \notin ToSet(at["new"].url.path)

\* A pattern for HTTPS is asked for by HTTP, by the visitor or by a redirect.
AskedByHTTP ==
  \E e \in On("forward") :
    e.scheme = "https" /\ (asked.scheme = "http" \/ \E f \in On("forward") : f.to.scheme = "http")

\* Every probe agrees, for a zone of Page Rules.
GateAgrees ==
  /\ \A e \in zone : e.kind \in {"forward", "rewrite", "origin"}
  /\ \A kind \in {"rewrite", "origin"} : ~Contested(kind)
  /\ ~NotCarried /\ ~Overlapping /\ ~AskedByHTTP /\ ~TooFar
  /\ GatePasses

\* Of the redirects that do not survive, the gate sees those of Page Rules: when every
\* probe agrees, every visit arrives alike.  A redirect rule is only probed at /, where
\* it agrees, and a pattern for HTTPS only when it is asked by HTTP is not probed at all.
GateSeesRedirects == visits > 0 /\ Ended /\ GateAgrees => at["new"] = at["old"]
=============================================================================
