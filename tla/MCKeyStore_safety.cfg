SPECIFICATION Spec
CONSTANTS
  c1 = c1
  c2 = c2
  c3 = c3
  Client <- MCClient
  HalfStored = TRUE
SYMMETRY RunSymmetry
INVARIANTS
  TypeOK
  OneIdentity
  PairIfUndisturbed
PROPERTY
  IdentityStable
CHECK_DEADLOCK FALSE
