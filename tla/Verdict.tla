------------------------------- MODULE Verdict -------------------------------
(***************************************************************************)
(* Two traversals of one snapshot.  classify.Classify calls every element  *)
(* AUTO, ASK or MANUAL; plan.Build emits configuration from the elements   *)
(* and the answers in decisions.lock.  Nothing but the shared predicates   *)
(* of cfexpr keeps the two in step.                                        *)
(*                                                                         *)
(* An element is what it is, where it applies, whether the predicate for   *)
(* its kind accepts it, and the name its question is keyed by.             *)
(***************************************************************************)
EXTENDS FiniteSets

CONSTANTS
  Hosts,     \* host names of the zone
  Apex,      \* the zone's own name
  Elements   \* what the zones considered are made of

\* Kinds every element of which has the same verdict, whatever its details.
AlwaysAsk == {"proxied", "dnssec", "sslStrict", "sslFlexible", "sslOff",
              "ipChallenge", "uaChallenge", "r2"}
AlwaysAuto == {"grey", "sslFull", "certificate", "setting", "forwarding", "pageHTTPS",
               "pageSSL", "pageTTL", "cacheRule", "owasp", "managed", "uaBlock", "loadBalancer"}
\* Kinds whose predicate decides, and what no case of classify maps: workers,
\* snippets, config rules, skip actions, e-mail routing, provider-only features.
ByPredicate == {"wafBlock", "wafChallenge", "rateLimit", "redirect", "ipBlock", "ipAllow",
                "header", "rewrite", "originRule"}
Others == {"sslOther", "access", "accessPath", "byHand", "cacheLevel"}

\* "wildcard" is an Access application on *.<zone>; one on a path of a host is "accessPath".
Scopes == Hosts \cup {"zone", "path", "compound", "wildcard"}

ASSUME VerdictAssumption ==
  /\ Hosts \cap {"zone", "path", "compound", "wildcard"} = {} /\ Apex \in Hosts
  /\ \A e \in Elements :
       /\ e.what \in AlwaysAsk \cup AlwaysAuto \cup ByPredicate \cup Others
       /\ e.scope \in Scopes /\ e.fits \in BOOLEAN
       /\ e.what = "proxied" => e.scope \in Hosts

Of(S, what) == {e \in S.elements : e.what = what}

\* The one that comes first in the snapshot, whichever that is.
FirstOf(E) == CHOOSE e \in E : TRUE

Proxied(S) == {e.scope : e \in Of(S, "proxied")}

-----------------------------------------------------------------------------
(* classify *)

Asks(e) ==
  \/ e.what \in AlwaysAsk
  \/ e.what = "wafChallenge" /\ e.fits
  \/ e.what \in {"rateLimit", "redirect"} /\ ~ e.fits

\* Questions about the zone, asked once.
Single == {"dnssec", "sslStrict", "sslFlexible", "sslOff"}

\* The key of an element's question in decisions.lock.
Key(e) ==
  <<e.what, IF e.what = "proxied" THEN e.scope ELSE IF e.what \in Single THEN "zone" ELSE e.name>>

Keys == {Key(e) : e \in {e \in Elements : Asks(e)}}

\* "up" stands for a well-formed origin address, "" for no or a blank answer.
Answers == {"", "yes", "no", "verify", "skip", "http", "https", "up", "malformed"}

Decisions == [Keys -> Answers]

\* A host-scoped transform needs a proxied record to hang on.
IsAuto(e, S) ==
  \/ e.what \in AlwaysAuto
  \/ e.what \in {"wafBlock", "rateLimit", "redirect", "ipBlock", "ipAllow"} /\ e.fits
  \/ e.what = "originRule" /\ e.fits /\ e.scope \in Hosts \cup {"path"}
  \/ /\ e.what \in {"header", "rewrite"} /\ e.fits
     /\ e.scope \in Proxied(S) \cup {"zone", "path"}

\* There is no finding for the zone's cache level.
Manual(e, S) == ~ Asks(e) /\ ~ IsAuto(e, S) /\ e.what # "cacheLevel"

DefaultUpgrade(e) == IF e.what = "proxied" THEN "" ELSE IF e.what = "sslFlexible" THEN "https" ELSE "no"

\* The answer `resolve --defaults` records.
Default(e) ==
  CASE e.what = "proxied"     -> ""
    [] e.what = "sslStrict"   -> "verify"
    [] e.what = "sslFlexible" -> "http"
    [] e.what = "sslOff"      -> "yes"
    [] OTHER                  -> "no"

\* The other answer a person can choose at the prompt, given an address for an origin.
Choice(e, address) ==
  CASE e.what = "proxied"     -> address
    [] e.what = "sslStrict"   -> "skip"
    [] e.what = "sslFlexible" -> "https"
    [] e.what = "sslOff"      -> "no"
    [] OTHER                  -> "yes"

\* The exit code of assess and prepare for a snapshot: 10, 11 or 0.
ExitOf(S) ==
  IF S.stale \/ S.gaps # {} \/ \E e \in S.elements : Manual(e, S) THEN "manual"
  ELSE IF \E e \in S.elements : Asks(e) THEN "ask" ELSE "ok"

-----------------------------------------------------------------------------
(* plan *)

\* Hosts behind a Cloudflare Access application.
Gated(S) ==
  {h \in Hosts : \E a \in Of(S, "access") \cup Of(S, "accessPath") :
                   a.scope = h \/ (a.scope = "wildcard" /\ h # Apex)}

SitesUngated(S, d) == {h \in Proxied(S) : d[<<"proxied", h>>] # ""}

\* buildSites: the hosts Caddy serves.
Sites(S, d) == {h \in Proxied(S) \ Gated(S) : d[<<"proxied", h>>] # ""}

\* buildDNS: the hosts whose A record names the new edge.
EdgeRecords(S, d) == {h \in Proxied(S) : d[<<"proxied", h>>] # "" /\ h \notin Gated(S)}

\* How the edge talks to an origin, <<scheme, verified>>.  A mode that is neither of the
\* three reads as off, and an address has no scheme of its own here.
Scheme(S, d) ==
  LET answer(what) == d[<<what, "zone">>] IN
  IF Of(S, "sslStrict") # {} THEN <<"https", answer("sslStrict") # "skip">>
  ELSE IF Of(S, "sslFull") # {} THEN <<"https", FALSE>>
  ELSE IF Of(S, "sslFlexible") # {}
       THEN <<IF answer("sslFlexible") = "" THEN "http" ELSE answer("sslFlexible"), FALSE>>
  ELSE <<IF answer("sslOff") = "no" THEN "http" ELSE "https", FALSE>>

\* The one cache policy of the zone is that of its cache level, else of the first page
\* rule with a TTL, else of the first cache rule.
CachedBy(S) ==
  LET rules == IF Of(S, "pageTTL") # {} THEN Of(S, "pageTTL") ELSE Of(S, "cacheRule") IN
  IF Of(S, "cacheLevel") # {} THEN Of(S, "cacheLevel")
  ELSE IF rules # {} THEN {FirstOf(rules)} ELSE {}

\* A host takes the first origin rule scoped to it.  It overrides the
\* Host header or the SNI here, so that the upstream is the answered origin.
OriginRuleOf(S, h) == FirstOf({e \in Of(S, "originRule") : e.fits /\ e.scope = h})

SiteSettings == {"sslStrict", "sslFull", "sslFlexible", "sslOff", "certificate", "setting"}

\* What goes into a site block, for a site there is.
OnSite(e, S, sites) ==
  /\ e.scope \in Hosts => e.scope \in sites
  /\ sites # {}
  /\ \/ e.what \in SiteSettings \/ e \in CachedBy(S)
     \/ e.what \in {"header", "rewrite"} /\ e.fits /\ e.scope \in Hosts \cup {"zone", "path"}
     \/ e.what = "redirect" /\ e.fits /\ e.scope \in Hosts
     \/ e.what = "forwarding" /\ e.scope \in Hosts
     \/ e.what = "originRule" /\ e.fits
        /\ (e.scope = "path" \/ (e.scope \in Hosts /\ e = OriginRuleOf(S, e.scope)))

InWAFUnasked(e, d) ==
  \/ e.what \in {"wafBlock", "wafChallenge", "rateLimit", "ipBlock", "ipChallenge", "ipAllow"} /\ e.fits
  \/ e.what \in {"uaBlock", "uaChallenge", "owasp"}

InWAF(e, d) ==
  \/ e.what \in {"wafBlock", "rateLimit", "ipBlock", "ipAllow"} /\ e.fits
  \/ e.what \in {"wafChallenge", "ipChallenge"} /\ e.fits /\ d[Key(e)] = "yes"
  \/ e.what = "uaBlock" \/ (e.what = "uaChallenge" /\ d[Key(e)] = "yes")
  \/ e.what = "owasp"

\* plan.Build has something for this element.
Emits(e, S, d) ==
  \/ e.what = "grey"
  \/ e.what = "proxied" /\ e.scope \in Sites(S, d)
  \/ e.what = "dnssec" /\ d[Key(e)] = "yes"
  \/ OnSite(e, S, Sites(S, d))
  \/ InWAF(e, d)

\* Plan.Validate, on what came from decisions.lock.
Valid(S, d) ==
  Sites(S, d) # {} =>
    /\ \A h \in Sites(S, d) : d[<<"proxied", h>>] # "malformed"
    /\ Scheme(S, d)[1] \in {"http", "https"}

-----------------------------------------------------------------------------
(* Where the two part. *)

\* Called AUTO, and nothing in plan.Build answers to it: of the cache rules of a zone,
\* and of the origin rules of a host, all but the first.
Unbacked(e, S) ==
  \/ e.what \in {"pageHTTPS", "pageSSL", "managed", "loadBalancer"}
  \/ e.what \in {"redirect", "forwarding"} /\ e.scope \notin Proxied(S)
  \/ e.what \in {"pageTTL", "cacheRule"} /\ e \notin CachedBy(S)
  \/ /\ e.what = "originRule" /\ e.fits /\ e.scope \in Hosts
     /\ e.scope \notin Proxied(S) \/ e # OriginRuleOf(S, e.scope)

\* Acted on before, or without, an answer: the SSL modes take their default, and the
\* cache level is in no report.
Assumed == {"sslStrict", "sslFlexible", "sslOff", "cacheLevel"}
=============================================================================
