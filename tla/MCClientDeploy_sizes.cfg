SPECIFICATION Spec
CONSTANTS
  r1 = r1
  r2 = r2
  s1 = s1
  s2 = s2
  f1 = f1
  f2 = f2
  d1 = d1
  DefaultLimit = 6
  UsizeMax = 9
  Overhead = 1
  Run <- OneRun
  Package <- MCPackage
  Host <- MCHost
  Source <- MCSource
  Built = {}
  Dir <- MCDir
  File <- MCFile
  Entries <- MCEntries
  ClientConfig <- MCClientConfig
  ServerLimit = {4, 8}
  Size = {5}
  Line <- MCLine
  MaxNames = 3
  MaxEvent = 1
PROPERTY
  AllowedSizeAccepted
CHECK_DEADLOCK FALSE
