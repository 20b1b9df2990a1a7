-------------------------------- MODULE Parity --------------------------------
(***************************************************************************)
(* What the parity package computes: the probes a plan yields, the         *)
(* divergences between two responses, and the gate over all of them.       *)
(* A response is what diff looks at: the two hard signals, status and      *)
(* redirect Location, and one value for everything soft.                   *)
(***************************************************************************)
EXTENDS Naturals

CONSTANTS
  Sites,      \* the sites a plan may have, in the plan's order
  Statuses,   \* HTTP status codes
  Locations,  \* normalised Location headers
  Softs,      \* significant headers and body hash, as one value
  Down,       \* the edge does not answer: refused, bad TLS, timed out
  Error       \* fetch returned an error

ASSUME SitesAssumption == Sites \subseteq Nat

Reply   == [status: Statuses, location: Locations, soft: Softs]
ASSUME NoReplyAssumption == Down \notin Reply /\ Error \notin Reply

Fetched == Reply \cup {Error}

\* How an endpoint is asked: the scheme, and over https whether its certificate is
\* verified.  An edge answers a probe in each of these ways; not to verify spares an
\* error and changes nothing else.
Ways == {"https", "http", "insecure"}
Behaviours ==
  {f \in [Ways -> Reply \cup {Down}] : f["https"] \in {f["insecure"], Down}}

\* A migration as far as the gate depends on it: the plan's sites, those with a
\* redirect, whether a WAF rule can be exercised by a header, whether the plan
\* validates, and whether the report has MANUAL findings.
Plans == [sites: SUBSET Sites, redirects: SUBSET Sites, waf: BOOLEAN,
          valid: BOOLEAN, manual: BOOLEAN]

Probe == [site: Sites, kind: {"root", "redirect", "waf"}]

\* Each site's root and redirects; the WAF rules against the first site only.
ProbesFromPlan(plan) ==
  [site: plan.sites, kind: {"root"}]
    \cup [site: plan.sites \cap plan.redirects, kind: {"redirect"}]
    \cup (IF plan.waf
          THEN {[site |-> s, kind |-> "waf"] :
                  s \in {t \in plan.sites : \A u \in plan.sites : t <= u}}
          ELSE {})

\* The hard fields in which two responses differ.
HardDiff(b, a) ==
  {f \in {"status", "redirect"} :
     IF f = "status" THEN b.status # a.status ELSE b.location # a.location}

OneErrorIsSoft(o) ==
  o.before # Error /\ o.after # Error /\ HardDiff(o.before, o.after) # {}

\* A probe fails hard when exactly one edge failed to answer, or when both did
\* and a hard field differs.  Two errors make one soft divergence.
HardFail(o) ==
  \/ o.before = Error /\ o.after # Error
  \/ o.before # Error /\ o.after = Error
  \/ o.before # Error /\ o.after # Error /\ HardDiff(o.before, o.after) # {}

\* The cutover is allowed: no probe has a hard divergence.
Gate(results) == \A p \in DOMAIN results : ~HardFail(results[p])

-----------------------------------------------------------------------------
(* What the gate is for.                                                   *)

\* Both edges answered, alike on the hard signals.
SameBehaviour(o) ==
  /\ o.before # Error /\ o.after # Error
  /\ o.before.status = o.after.status
  /\ o.before.location = o.after.location

\* Neither edge answered.
Blind(o) == o.before = Error /\ o.after = Error
=============================================================================
