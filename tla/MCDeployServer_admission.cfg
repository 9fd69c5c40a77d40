SPECIFICATION Spec
CONSTANTS
  r1 = r1
  r2 = r2
  k1 = k1
  k2 = k2
  f1 = f1
  f2 = f2
  d1 = d1
  d2 = d2
  b1 = b1
  Request <- MCRequest
  Package <- MCPackage
  Key <- MCKey
  File <- OneFile
  Dir <- MCDir
  BackupDir <- MCBackupDir
  Config <- AdmissionConfigs
  Body <- AdmissionBodies
  MaxSecond = 0
  MaxCrash = 1
SYMMETRY CallSymmetry
INVARIANTS
  TypeOK
  OnlyVettedContent
  AnsweredIsQuiet
PROPERTY
  Implements
