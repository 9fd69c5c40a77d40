SPECIFICATION FairSpec
CONSTANTS
  Port <- MCPort
  MaxTime = 2
  MaxEdit = 3
  MaxStart = 2
INVARIANTS
  TypeOK
  PortPinned
  UpToDateOrDue
PROPERTIES
  NoRollback
  EditPickedUp
  PickedUpSoon
  WatcherEnds
CHECK_DEADLOCK FALSE
