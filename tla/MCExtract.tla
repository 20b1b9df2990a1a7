------------------------------ MODULE MCExtract ------------------------------
(* Two listings of two pages, and an item on each of the other surfaces. *)
EXTENDS Extract

CONSTANTS d1, d2, d3, s1, r1, p1, p2, a1

MCReads == <<"zone", "settings", "dns", "rulesets", "ipaccess">>
MCAccountReads == <<"access">>
MCItems == {d1, d2, d3, s1, r1, p1, p2, a1}
MCHome ==
  [i \in MCItems |-> CASE i \in {d1, d2, d3} -> "dns" [] i = s1 -> "settings"
                       [] i = r1 -> "rulesets" [] i \in {p1, p2} -> "ipaccess" [] i = a1 -> "access"]
MCListed ==
  [s \in ToSet(MCReads \o MCAccountReads) |->
     CASE s = "dns" -> <<d1, d2>> [] s = "settings" -> <<s1>> [] s = "rulesets" -> <<r1>>
       [] s = "ipaccess" -> <<p1, p2>> [] s = "access" -> <<a1>> [] OTHER -> <<>>]
=============================================================================
