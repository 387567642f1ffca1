SPECIFICATION Spec
CONSTANTS
  a = a  b = b
  k1 = k1  k2 = k2
  e1 = e1  e2 = e2
  Mailboxes = {a, b}
  Envelopes = {e1, e2}
  Bodies = {e1, e2}
  Contents = {k1, k2}
  Author <- OneWayAuthor
  Requires <- OneWayRequires
  Content <- OneWayContent
  To <- OneWayTo
  MaxMailboxQueue = 1
  DefaultEnvelopeTTL = 2
  Day = 4  Hour = 2  Minute = 1
  FetchLimit = 1
  EnvelopeTtl = 0
  MaxTime = 2
  MaxInterrupts = 2
  p = p
  Commands = {}
  Runs <- Nobody
  CanRevoke = {b}
INVARIANTS NoSilentLoss AppliedOnce NothingSkipped
PROPERTIES CustodyUntilCommit ImplementsCausalDelivery
