SPECIFICATION Spec
CONSTANTS
  PC = {p1}
  Handler = {h1, h2}
  Admin = {a1}
  Priority = {1, 5}
  DefaultPriority = 5
  CommandType = {"execute"}
  MaxCommands = 2
  MaxFaults = 1
  MaxTries = 1
SYMMETRY MCSymmetry
INVARIANTS
  TypeOK
  RepeatsAreUnmarked
  ReceivedLeftQueue
  NoOvertaking
  ClearedStayCleared
PROPERTIES
  DeadStayDead
