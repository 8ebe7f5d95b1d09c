SPECIFICATION FairSpec
CONSTANTS
  PC = {p1}
  Handler = {h1}
  Checker = checker
  MaxEvents = 4
  MaxFaults = 3
INVARIANTS
  TypeOK
  DuplicatesBounded
PROPERTIES
  LostOutagesExplained
  GoneIsOffline
  AliveIsOnline
