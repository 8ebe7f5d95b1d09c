SPECIFICATION Spec
CONSTANTS
  PC = {p1}
  Handler = {h1, h2}
  Checker = checker
  MaxEvents = 6
  MaxFaults = 1
SYMMETRY MCSymmetry
PROPERTIES
  NoComebackAfterBye
