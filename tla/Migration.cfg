\* Seven zones, one unread surface, two changes.
CONSTANTS
  Hosts <- MCHosts
  Apex = "apex"
  Elements <- MCElements
  Zones <- MCZones
  OldFiles <- MCOldFiles
  OffMode <- MCOffMode
  None = None
  Typed = {"", "yes"}
  MaxGaps = 1
  MaxChanges = 2
SPECIFICATION Spec
INVARIANTS NothingDroppedSilently EmittedIsDecided LoginKept DefaultsChangeNothing
PROPERTIES NoRecordBeforeItsSite
\* The operator may stop anywhere.
CHECK_DEADLOCK FALSE
