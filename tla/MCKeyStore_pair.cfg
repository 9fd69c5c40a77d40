SPECIFICATION Spec
CONSTANTS
  c1 = c1
  c2 = c2
  c3 = c3
  Client <- MCClient
  HalfStored = FALSE
SYMMETRY RunSymmetry
INVARIANT
  StoredPairMatches
CHECK_DEADLOCK FALSE
