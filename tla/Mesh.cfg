\* Named edges: two runners, three runs, one lost key.
CONSTANTS
  r1 = r1
  r2 = r2
  Runners = {r1, r2}
  Names <- MCNames
  Hosts <- MCHosts
  Origin = "origin"
  Single = "edge"
  Numbered <- MCNumbered
  Unnamed = "unnamed"
  EdgeLists <- MCNamedLists
  Absent = Absent
  NoKey = NoKey
  BadKey = BadKey
  MaxRuns = 3
  MaxDamage = 1
SPECIFICATION Spec
SYMMETRY MCSymmetry
INVARIANTS CompletedMeshAuthenticates DeployedTunnelsSurvive
PROPERTIES RunsKeepKeys RerunsAreIdentical
\* A behaviour ends when its runs are used up.
CHECK_DEADLOCK FALSE
