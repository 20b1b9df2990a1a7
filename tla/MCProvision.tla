----------------------------- MODULE MCProvision -----------------------------
(* A plan, the same with other records and one more rrset, and certificates only. *)
EXTENDS Provision

MCValues == {"a", "b", "b."}
MCBare == [v \in MCValues |-> IF v = "b." THEN "b" ELSE v]
MCBackends == {"powerdns", "scaleway", "route53", "gandi", "azure", "clouddns", "hetzner"}

\* Hetzner may give back a name with a dot that was sent without one.
MCInitial == <<Once({"a"}), Once({"b."}), Once({})>>

MCAsks == {
  [dns |-> TRUE, signed |-> FALSE, certs |-> {"c"}, zone |-> <<{"a"}, {"b"}, {}>>],
  [dns |-> TRUE, signed |-> TRUE, certs |-> {"c", "d"}, zone |-> <<{"a", "b", "b."}, {"a"}, {"b"}>>],
  [dns |-> FALSE, signed |-> FALSE, certs |-> {"c"}, zone |-> <<{"a"}, {}, {}>>]}
=============================================================================
