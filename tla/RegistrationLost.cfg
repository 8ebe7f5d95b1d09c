SPECIFICATION FairSpec
CONSTANTS
  Machine = {m1}
  Pin = {k1}
  Handler = {h1}
  MaxRows = 2
  MaxFaults = 1
  MaxTries = 2
PROPERTIES
  SinglePinRegisters
