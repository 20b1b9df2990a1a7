\* Two buckets read by two workers, two runs of storage and two of its script.
CONSTANTS
  b1 = b1
  b2 = b2
  ver = ver
  crs = crs
  expire = expire
  tagged = tagged
  tier = tier
  pol = pol
  pub = pub
  Buckets = {b1, b2}
  Rank <- MCRank
  Settings <- MCSettings
  Facet <- MCFacet
  Tiering = {tier}
  Expiring <- MCExpiring
  Covers <- MCCovers
  Reproduced <- MCReproduced
  Initial <- MCInitial
  Width = 2
  None = None
  Answers <- MCAnswers
  Changing = {crs, expire, tier, pol}
  MaxRuns = 2
  MaxExtractions = 1
  MaxScripts = 2
  MaxChanges = 1
  MaxFailures = 1
SPECIFICATION Spec
INVARIANTS NothingSilentlyDropped OnlyWhatTheSourceHad ProvisionedMatchesReport
\* A behaviour ends when its runs are used up.
CHECK_DEADLOCK FALSE
