\* Three rrsets, each absent or not at first; three faults, one run after a success.
CONSTANTS
  N = 3
  Absent = Absent
  MaxFaults = 3
  MaxReruns = 1
SPECIFICATION FairSpec
INVARIANTS OneRecordAtRisk SuccessIsComplete RestoredIsWhatWasThere OneFailureIsCovered
PROPERTIES RerunsConverge
\* Nothing is left to do after a success.
CHECK_DEADLOCK FALSE
