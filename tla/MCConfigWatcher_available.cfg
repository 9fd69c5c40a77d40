SPECIFICATION Spec
CONSTANTS
  Port <- MCPort
  MaxTime = 2
  MaxEdit = 2
  MaxStart = 1
PROPERTY
  AvailableAgainIsTrue
CHECK_DEADLOCK FALSE
