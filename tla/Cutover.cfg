\* Two runs of a verb, one change of an edge, plans of up to two probes.
CONSTANTS
  Sites <- MCSites
  Statuses = {200, 500}
  Locations = {"", "/moved"}
  Softs = {"x", "y"}
  PlansExplored <- MCPlans
  SourceReplies <- MCSourceReplies
  StagedReplies <- MCStagedReplies
  Endpoints <- MCEndpoints
  Down = Down
  Error = Error
  Pending = Pending
  NoProbe = NoProbe
  MaxChanges = 1
  MaxRuns = 2
SPECIFICATION FairSpec
INVARIANTS
  AuthorisedOnlyWithoutHardDivergence VerdictMatchesEdges
  NothingToFindAfterFlip
PROPERTIES RunEnds
\* A behaviour ends when its runs and changes are used up.
CHECK_DEADLOCK FALSE
