-------------------------------- MODULE MCOvh --------------------------------
(* Two rrsets, a plan for them, and the plan with one answer changed. *)
EXTENDS Ovh

MCInitial == <<{"old"}, {}>>
MCZones == {<<{"new", "old"}, {"new"}>>, <<{"fixed"}, {"new", "fixed"}>>}
MCValues == {"old", "new", "fixed"}
=============================================================================
