SPECIFICATION FairSpec
CONSTANTS
  Machine = {m1}
  Pin = {k1}
  Handler = {h1, h2}
  MaxRows = 3
  MaxFaults = 2
  MaxTries = 3
INVARIANTS
  TypeOK
  UsesBounded
  VerifiedIsComplete
  FlagIsHonest
PROPERTIES
  AdmissionSpec
  MultiPinRegisters
  RegistrationEnds
