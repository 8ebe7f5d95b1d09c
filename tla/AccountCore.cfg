SPECIFICATION FairSpec
CONSTANTS
  Command = {c1, c2, c3}
  User = {u1}
  Language = {l1, l2}
  None = None
  MaxFaults = 2
INVARIANTS
  TypeOK
  LanguageNeedsPack
  LanguageKept
PROPERTIES
  CreateSucceeds
CHECK_DEADLOCK FALSE
