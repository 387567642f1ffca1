SPECIFICATION FairSpec
CONSTANTS
  a = a  b = b
  k1 = k1  k2 = k2
  e1 = e1  e2 = e2
  Mailboxes = {a, b}
  Envelopes = {e1, e2}
  Bodies = {e1, e2}
  Contents = {k1, k2}
  Author <- OneWayAuthor
  Requires <- ApartRequires
  Content <- OneWayContent
  To <- OneWayTo
  MaxMailboxQueue = 2
  DefaultEnvelopeTTL = 2
  Day = 4  Hour = 2  Minute = 1
  FetchLimit = 1
  EnvelopeTtl = 0
  MaxTime = 0
  MaxInterrupts = 1
  p = p
  Commands = {p}
  Runs <- OnA
  CanRevoke = {}
INVARIANT InOrder
PROPERTY EventuallyProcessed
