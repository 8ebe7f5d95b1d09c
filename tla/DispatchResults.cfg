SPECIFICATION Spec
CONSTANTS
  PC = {p1, p2}
  Handler = {h1, h2}
  Admin = {a1}
  Priority = {5}
  DefaultPriority = 5
  CommandType = {"reboot", "execute"}
  MaxCommands = 1
  MaxFaults = 1
  MaxTries = 2
SYMMETRY MCSymmetry
INVARIANTS
  ExecutingIsInHand
  TruthfulStatus
  FoundRowStays
PROPERTIES
  DeliverySpec
