SPECIFICATION FairSpec
CONSTANTS
  None = None  Member = Member
  Mailboxes = {a}
  Envelopes = {e1}
  Bodies = {e1}
  MaxMailboxQueue = 2
  DefaultEnvelopeTTL = 2
  Day = 4  Hour = 2  Minute = 1
  Sessions = {s1, s2}
  Keys = {w1}
  FetchLimit = 2
  CanRevoke = {a}
INVARIANTS ToldOnceMore HubSound
PROPERTY MailAnnounced
CHECK_DEADLOCK FALSE
