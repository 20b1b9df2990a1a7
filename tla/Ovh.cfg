\* Two rrsets, two plans, three runs, three faults.
CONSTANTS
  N = 2
  Values <- MCValues
  Zones <- MCZones
  Initial <- MCInitial
  MaxFaults = 3
  MaxRuns = 3
SPECIFICATION FairSpec
PROPERTIES PublishesWholeZones RerunsPublish
\* Nothing is left to do when the runs are used up.
CHECK_DEADLOCK FALSE
