SPECIFICATION Spec
CONSTANTS
  r1 = r1
  r2 = r2
  k1 = k1
  k2 = k2
  f1 = f1
  f2 = f2
  d1 = d1
  d2 = d2
  b1 = b1
  Request <- MCRequest
  Package <- MCPackage
  Key <- MCKey
  File <- MCFile
  Dir <- OneDir
  BackupDir <- MCBackupDir
  Config <- DiskConfigs
  Body <- DiskBodies
  MaxSecond = 1
  MaxCrash = 0
PROPERTY
  FailureLogsCollected
