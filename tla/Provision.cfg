\* Seven backends, three rrsets, three asks, three faults, three runs besides reruns.
CONSTANTS
  N = 3
  Values <- MCValues
  Bare <- MCBare
  Certs = {"c", "d"}
  Asks <- MCAsks
  Initial <- MCInitial
  Unmapped = {3}
  Backends <- MCBackends
  MaxFaults = 3
  MaxRuns = 3
SPECIFICATION FairSpec
INVARIANTS TypeOK SuccessIsThePlan
PROPERTIES NoWindow RerunsConverge
\* Nothing is left to do when the runs are used up.
CHECK_DEADLOCK FALSE
