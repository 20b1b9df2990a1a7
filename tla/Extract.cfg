\* Six reads, two pages, two attempts, two changes, one run.
CONSTANTS
  d1 = d1
  d2 = d2
  d3 = d3
  s1 = s1
  r1 = r1
  p1 = p1
  p2 = p2
  a1 = a1
  None = None
  Items <- MCItems
  Home <- MCHome
  Listed <- MCListed
  Reads <- MCReads
  AccountReads <- MCAccountReads
  PageSize = 1
  MaxAttempts = 2
  MaxChanges = 2
  MaxRuns = 1
SPECIFICATION Spec
INVARIANTS TypeOK NothingSilentlyMissing ExactWhenQuiet
PROPERTIES ExtractEnds
\* The last extraction may be over.
CHECK_DEADLOCK FALSE
