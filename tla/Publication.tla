----------------------------- MODULE Publication -----------------------------
(***************************************************************************)
(* What a DNS backend that stages its changes promises of a zone: what     *)
(* resolvers see goes from one whole zone to another, the one that was     *)
(* there or one some run was asked for, and a run says it succeeded only   *)
(* when resolvers see what it was asked for.  Of an rrset the run could    *)
(* not read, they may see records of earlier plans beside the plan's.      *)
(***************************************************************************)
CONSTANTS Zones, Initial

VARIABLES
  live,    \* the zone resolvers see
  wish,    \* the zone the current run was asked for
  missed,  \* the rrsets it could not read
  told     \* none, ok, failed: what the last run said

vars == <<live, wish, missed, told>>

\* The records of an rrset anybody ever asked for.
Asked(s) == UNION {zone[s] : zone \in Zones \cup {Initial}}

Whole(zone) ==
  \A s \in DOMAIN wish :
    /\ wish[s] \subseteq zone[s]
    /\ s \notin missed => zone[s] = wish[s]
    /\ zone[s] \subseteq Asked(s)

Init == live = Initial /\ wish = Initial /\ missed = {} /\ told = "none"

Ask == wish' \in Zones /\ missed' = {} /\ told' = "none" /\ UNCHANGED live

Miss == told = "none" /\ missed \subseteq missed' /\ UNCHANGED <<live, wish, told>>

Publish == Whole(live') /\ told' \in {"none", "ok", "failed"} /\ UNCHANGED <<wish, missed>>

Fail == told = "none" /\ told' = "failed" /\ UNCHANGED <<live, wish, missed>>

Next == Ask \/ Miss \/ Publish \/ Fail

Spec == Init /\ [][Next]_vars
=============================================================================
