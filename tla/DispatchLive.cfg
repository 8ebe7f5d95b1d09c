SPECIFICATION FairSpec
CONSTANTS
  PC = {p1}
  Handler = {h1}
  Admin = {a1}
  Priority = {5}
  DefaultPriority = 5
  CommandType = {"restart"}
  MaxCommands = 2
  MaxFaults = 1
  MaxTries = 1
PROPERTIES
  PendingIsTaken
