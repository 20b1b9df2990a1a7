-------------------------------- MODULE MCEdge --------------------------------
(* One rule of every kind and shape, and the pairs of rules that meet. *)
EXTENDS Edge

CONSTANTS bot, Bot, bots, IT, DE, Other, old, new, a, x

MCSegments == {old, new, a, x}
MCPaths == {<< >>, <<old>>, <<old, x>>, <<a, old>>}
MCWithin == {<<bot, bot>>, <<Bot, Bot>>, <<bots, bots>>, <<bot, bots>>}
MCWithinFold == MCWithin \cup {<<Bot, bot>>, <<bot, Bot>>, <<Bot, bots>>}

\* Some visitors come from a page that names a host.
MCClients == [agent: Agents, country: Countries, referer: {Nothing}]
               \cup [agent: {bots}, country: {DE}, referer: {Site, Elsewhere}]

Expr(of, value) == [of |-> of, value |-> value]
OldHere(path) == [scheme |-> "https", host |-> Site, path |-> path]
There(path) == [scheme |-> "https", host |-> Elsewhere, path |-> path]

PathExprs == {Expr("is", <<old>>), Expr("has", <<old>>), Expr("starts", <<old>>)}
Scopes == PathExprs \cup {Expr("true", Nothing), Expr("host", Site), Expr("host", Elsewhere)}
Joined == Expr("and", {Expr("starts", <<old>>), Expr("country", IT)})
Exprs == Scopes \cup {Expr("agentIs", bot), Expr("agentHas", bot), Expr("country", IT), Joined}

Firewall == [kind: {"firewall"}, on: BOOLEAN, action: {"block", "log", "managed_challenge", "skip"},
             expr: Exprs]
Access == [kind: {"access"}, on: {TRUE}, mode: {"block", "challenge", "whitelist"}, country: {IT}]
Agent == [kind: {"agent"}, on: {TRUE}, mode: {"block", "js_challenge"}, agent: {bot}]
Rate == [kind: {"rate"}, on: {TRUE}, expr: Exprs, limit: {1}, action: {"block"}, lasts: {FALSE},
         chars: {{"ip.src"}, {"ip.src", "cf.colo.id"}, {"cookie"}}]
Lenient == [kind: {"rate"}, on: {TRUE}, expr: Scopes, limit: {1}, action: {"log", "managed_challenge"},
            lasts: BOOLEAN, chars: {{"ip.src"}, {"cookie"}}]
Lasting == [kind: {"rate"}, on: {TRUE}, expr: Scopes, limit: {1}, action: {"block"}, lasts: {TRUE},
            chars: {{"ip.src"}}]
Redirect == [kind: {"redirect"}, on: BOOLEAN, expr: {Expr("host", Site), Expr("starts", <<old>>)},
             to: {There(<< >>), There(<<new>>), Dynamic}]
Globs == {Everything, [prefix |-> <<old>>, star |-> TRUE], [prefix |-> <<old>>, star |-> FALSE]}
Forward == [kind: {"forward"}, on: BOOLEAN, scheme: {"any", "http", "https"},
            host: {Site, Elsewhere}, glob: Globs, to: {There(<<new>>), OldHere(<<new>>), OldHere(<< >>)},
            capture: BOOLEAN, priority: {1}]
Rewrite == [kind: {"rewrite"}, on: BOOLEAN, expr: Scopes \cup {Joined}, to: {<<new>>, <<old>>, Dynamic}]
OriginRule == [kind: {"origin"}, on: BOOLEAN, expr: Scopes, upstream: {Other, Nothing}]

Under(p, S) == {[e EXCEPT !.priority = p] : e \in S}
Patterns == {e \in Forward : e.on /\ e.host = Site /\ ~IsCatchAll(e.glob)}
CatchAll == {e \in Forward : e.on /\ e.host = Site /\ e.scheme = "any" /\ IsCatchAll(e.glob)}

Pairs(S, T) == {{e, f} : e \in S, f \in T}

\* Patterns that lead to one another, or to themselves, and the rules that stand beside others.
Exact(path) == [prefix |-> path, star |-> FALSE]
Chained == [kind: {"forward"}, on: {TRUE}, scheme: {"any", "https"}, host: {Site},
            glob: {Exact(<<old>>), Exact(<<old, x>>), [prefix |-> <<a>>, star |-> TRUE],
                   [prefix |-> <<old>>, star |-> TRUE]},
            to: {There(<<new>>), OldHere(<<old>>),
                 [scheme |-> "http", host |-> Site, path |-> <<a, x>>]},
            capture: {FALSE}, priority: {1}]
Blocking == {e \in Firewall : /\ e.on /\ e.action \in {"block", "skip"}
                               /\ e.expr \in {Expr("has", <<old>>), Expr("agentIs", bot)}}
Limiting == {e \in Rate : e.expr.of \in {"true", "has"} /\ e.chars = {"ip.src"}}

\* A visitor is redirected, once, twice or three times, to what is blocked; or was, and is
\* taken elsewhere by the generated edge.
Exactly(path, to, priority) ==
  [kind |-> "forward", on |-> TRUE, scheme |-> "any", host |-> Site, glob |-> Exact(path), to |-> to,
   capture |-> FALSE, priority |-> priority]
ByHTTP(path) == [scheme |-> "http", host |-> Site, path |-> path]
Leading == {e \in Forward : /\ e.on /\ e.host = Site /\ e.to = OldHere(<<new>>) /\ ~e.capture
                             /\ IsCatchAll(e.glob) => e.scheme = "http"}
Behinds == [kind: {"firewall"}, on: {TRUE}, action: {"block"},
            expr: {Expr("is", <<new>>), Expr("has", <<new>>), Expr("starts", <<new>>)}]
Ways ==
  {{e} : e \in Leading}
  \cup {{Exactly(<<a, old>>, OldHere(<<old>>), 1), e} : e \in Leading}
  \cup {{Exactly(<<old, x>>, There(<<new>>), 2), e} : e \in Leading}
  \cup {{Exactly(<<a, old>>, ByHTTP(<<old, x>>), 1), Exactly(<<old, x>>, ByHTTP(<<old>>), 1),
         Exactly(<<old>>, ByHTTP(<<new>>), 1)}}
  \cup {{[kind |-> "redirect", on |-> TRUE, expr |-> Expr("starts", <<old>>), to |-> OldHere(<<new>>)]}}
Leads == {w \cup {e} : w \in Ways, e \in Behinds}

Beside == Blocking \cup Limiting \cup Access
            \cup {e \in Redirect : e.on /\ e.expr.of = "host" /\ e.to # Dynamic}
            \cup {e \in Rewrite : e.on /\ e.expr.of = "is" /\ e.to # Dynamic}
            \cup {e \in OriginRule : e.on /\ e.expr.of \in {"is", "host"} /\ e.upstream = Other}

\* An exact pattern has nothing to capture; a redirect onto the site itself ends there.
Sane(z) ==
  \A e \in z :
    /\ e.kind = "forward" => /\ e.capture => e.glob.star
                             /\ (IsCatchAll(e.glob) /\ e.to.host = Site) => (e.scheme = "http" /\ e.capture /\ e.to.path = << >>)
    /\ e.kind = "origin" /\ e.upstream = Nothing => e.on

MCZones ==
  {z \in {{e} : e \in Firewall \cup Access \cup Agent \cup Rate \cup Lenient
                        \cup Lasting \cup Redirect \cup Forward
                        \cup Rewrite \cup OriginRule}
         \cup Pairs(Patterns, Under(2, CatchAll)) \cup Pairs(Under(2, Patterns), CatchAll)
         \cup Pairs({e \in Rewrite : e.on}, {e \in OriginRule : e.on})
         \cup Pairs({e \in Rewrite : e.on}, {e \in Firewall : e.on /\ e.expr \in PathExprs})
         \cup Pairs(Access, Agent)
         \cup Pairs(Chained, Chained) \cup Pairs(Beside, Beside) \cup Pairs(Chained, Beside)
     : Sane(z)} \cup Leads

\* One Page Rule that takes along what its * stood for.
MCCaptures ==
  {{e} : e \in {f \in Forward : /\ f.on /\ f.host = Site /\ f.scheme = "any"
                               /\ f.capture /\ f.glob.star /\ f.to.host = Elsewhere}}
=============================================================================
