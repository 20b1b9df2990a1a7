\* One extraction of a rule that is disabled, or filters by more than a prefix.
CONSTANTS
  b1 = b1
  b2 = b2
  ver = ver
  crs = crs
  expire = expire
  tagged = tagged
  tier = tier
  pol = pol
  pub = pub
  Buckets = {b1, b2}
  Rank <- MCRank
  Settings <- MCSettings
  Facet <- MCFacet
  Tiering = {tier}
  Expiring <- MCExpiring
  Covers <- MCCovers
  Reproduced <- MCReproduced
  Initial <- MCInitial
  Width = 2
  None = None
  Answers <- MCAnswers
  Changing = {}
  MaxRuns = 0
  MaxExtractions = 1
  MaxScripts = 1
  MaxChanges = 0
  MaxFailures = 0
SPECIFICATION Spec
INVARIANTS ExpiresNothingMore
CHECK_DEADLOCK FALSE
