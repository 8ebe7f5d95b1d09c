SPECIFICATION Spec
CONSTANTS
  PC = {p1}
  Handler = {h1}
  Admin = {a1}
  Priority = {5}
  DefaultPriority = 5
  CommandType = {"restart", "reboot"}
  MaxCommands = 1
  MaxFaults = 1
  MaxTries = 1
PROPERTIES
  NoPowerCommandAfterBoot
