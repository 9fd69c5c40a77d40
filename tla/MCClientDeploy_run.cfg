SPECIFICATION FairSpec
CONSTANTS
  r1 = r1
  r2 = r2
  s1 = s1
  s2 = s2
  f1 = f1
  f2 = f2
  d1 = d1
  DefaultLimit = 6
  UsizeMax = 9
  Overhead = 1
  Run <- MCRun
  Package <- MCPackage
  Host <- MCHost
  Source <- MCSource
  Built = {s2}
  Dir <- MCDir
  File <- MCFile
  Entries <- MCEntries
  ClientConfig <- MCClientConfig
  ServerLimit = {0, 4}
  Size = {5, 7}
  Line <- MCLine
  MaxNames = 3
  MaxEvent = 1
INVARIANTS
  TypeOK
  SuccessMeansDeployed
  NamesDeployed
  PrefixDeployed
  EndedIsOver
PROPERTIES
  FittingIsNotTooLarge
  RunsGoForward
  RunEnds
CHECK_DEADLOCK FALSE
