\* Every combination of flags, thresholds 1 to 3, one kill, with fairness.
CONSTANTS
  Thresholds = {1, 2, 3}
  MaxKills = 1
SPECIFICATION FairSpec
INVARIANTS ExitTellsOutcome HookFinishes
PROPERTIES FiresOnlyOnOutage OutageActedOn SupervisedNeverGivesUp StopEnds
