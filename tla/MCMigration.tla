----------------------------- MODULE MCMigration -----------------------------
(* Seven zones that between them have every kind of element, and two old snapshots. *)
EXTENDS Migration

El(what, scope, fits, name) == [what |-> what, scope |-> scope, fits |-> fits, name |-> name]
Plain(what) == El(what, "zone", TRUE, "n")

MCHosts == {"apex", "app"}
App == El("proxied", "app", TRUE, "n")
Root == El("proxied", "apex", TRUE, "n")
MCOffMode == Plain("sslOff")

\* Two sites, one behind a login, headers on a host, on the zone and on a host with no
\* record, and two cache rules.
Gates == {App, Root, Plain("sslStrict"), Plain("dnssec"), El("access", "app", TRUE, "n"),
          El("accessPath", "apex", TRUE, "n"), El("header", "app", TRUE, "n"), El("header", "zone", TRUE, "n"),
          El("rewrite", "compound", TRUE, "n"), Plain("setting"), Plain("cacheRule"),
          El("cacheRule", "zone", TRUE, "m")}
Open == {e \in Gates : e.what # "access"}
\* One site, behind a wildcard login; what it is hard to bind to a site.
Site == {App, Plain("sslFull"), Plain("cacheLevel"), Plain("pageTTL"), Plain("cacheRule"),
         El("forwarding", "app", TRUE, "n"), El("redirect", "path", TRUE, "n"),
         El("redirect", "app", TRUE, "n"), El("redirect", "app", FALSE, "n"),
         El("originRule", "app", TRUE, "n"), El("originRule", "app", TRUE, "m"),
         El("originRule", "path", TRUE, "n"), El("originRule", "compound", FALSE, "n"),
         El("rateLimit", "zone", FALSE, "m")}
Wild == {App, Root, Plain("sslOff"), El("access", "wildcard", TRUE, "n"), Plain("r2"),
         Plain("loadBalancer"), El("header", "apex", TRUE, "n"), Plain("ipChallenge")}
\* Rules that block, challenge and count, with and without a match that can be kept.
Wall == {Plain("grey"), Root, Plain("sslFlexible"), Plain("wafBlock"),
         El("wafBlock", "zone", FALSE, "m"), Plain("wafChallenge"),
         El("wafChallenge", "zone", FALSE, "m"), Plain("rateLimit"), Plain("ipBlock"),
         El("ipAllow", "zone", FALSE, "m"), Plain("uaBlock"), Plain("uaChallenge"), Plain("byHand")}
\* Nothing proxied, nothing to ask.
Quiet == {Plain("grey"), Plain("sslFull"), Plain("certificate"), Plain("setting"),
          Plain("owasp"), Plain("managed"), Plain("pageHTTPS"), Plain("ipBlock")}
\* No SSL mode that classify knows; two page rules with a TTL.
Odd == {Plain("grey"), App, Plain("sslOther"), Plain("pageSSL"), Plain("pageTTL"),
        El("pageTTL", "zone", TRUE, "m"), Plain("uaBlock")}

MCZones == {Gates, Open, Site, Wild, Wall, Quiet, Odd}
MCElements == UNION MCZones
MCOldFiles ==
  {[elements |-> z \ {e \in z : e.what = "access"}, gaps |-> {}, stale |-> TRUE] : z \in {Gates, Wild}}
=============================================================================
