------------------------------ MODULE MCCutover ------------------------------
(* execute and present on plans of two probes, one site with a redirect and  *)
(* one with a WAF rule, on a plan with no site and on an invalid one.  The    *)
(* source answers alike or is down; the staged edge may also differ in status *)
(* or have a certificate that nobody trusts, and behind it a soft difference. *)
(* Over http both send a visitor elsewhere.                                   *)
EXTENDS Cutover

MCSites == 1 .. 2
MCPlan(sites, redirects, waf, valid, manual) ==
  [sites |-> sites, redirects |-> redirects, waf |-> waf, valid |-> valid,
   manual |-> manual]
MCPlans ==
  { MCPlan({1}, {1}, FALSE, TRUE, TRUE),
    MCPlan({2}, {}, TRUE, TRUE, FALSE), MCPlan({}, {}, TRUE, TRUE, TRUE),
    MCPlan({1}, {}, FALSE, FALSE, FALSE) }

MCReply(status, location, soft) ==
  [status |-> status, location |-> location, soft |-> soft]
MCSame == MCReply(200, "", "x")
MCMoved == MCReply(200, "/moved", "x")
MCSays(reply) == [https |-> reply, insecure |-> reply, http |-> MCMoved]
MCUntrusted == [https |-> Down, insecure |-> MCReply(200, "", "y"), http |-> MCMoved]
MCDown == [w \in Ways |-> Down]
MCSourceReplies == {MCSays(MCSame), MCDown}
MCStagedReplies ==
  {MCSays(MCSame), MCSays(MCReply(500, "", "x")), MCUntrusted, MCDown}

MCEndpoints ==
  {[before |-> "https", after |-> "https"], [before |-> "https", after |-> "insecure"],
   [before |-> "http", after |-> "https"]}
=============================================================================
