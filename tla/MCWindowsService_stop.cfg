SPECIFICATION FairSpec
CONSTANTS
  c1 = c1
  c2 = c2
  Call <- MCCall
  MaxControl = 2
INVARIANTS
  TypeOK
  StoppedIsQuiet
  NoCallCut
PROPERTIES
  StoppedIsLast
  StopEnds
CHECK_DEADLOCK FALSE
