CONSTANTS
  People = {a, b}
  Known = {a}
  Me = me
  Chats = {g, h}
  Shared = {h}
  Codes = {k}
  None = none
SPECIFICATION FairSpec
INVARIANTS VerifiedTruthful JoinedByChoice
PROPERTY EventuallyVerified
CHECK_DEADLOCK FALSE
