SPECIFICATION FairSpec
CONSTANTS
  Version = {v1, v2}
  Script = {s1, s2}
  MaxReleases = 1
  MaxInstalls = 1
  MaxFaults = 1
INVARIANTS
  TypeOK
  WholeExe
  ServiceReturns
PROPERTIES
  ComesUp
