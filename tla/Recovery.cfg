CONSTANTS
  Old = o
  Profiles = {o, q}
  Linked = {x}
  None = none
  MaxSeq = 3
  MaxRestores = 1
SPECIFICATION FairSpec
INVARIANTS RevokedKeptOut LostStayOut ScreenTruthful
PROPERTY EventuallySettled
CHECK_DEADLOCK FALSE
