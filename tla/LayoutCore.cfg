SPECIFICATION Spec
CONSTANTS
  Room = {r1, r2}
  PC = {p1, p2}
  Seat = {s1}
  Handler = {h1, h2}
  None = None
  MaxIds = 4
SYMMETRY MCSymmetry
INVARIANTS
  TypeOK
  PlacesHaveSeats
PROPERTIES
  SaveReplacesMap
  RenameMovesAll
  OnlyEmptyRoomsGo
  ConflictsExplained
  SeatPlanSpec
