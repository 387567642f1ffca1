SPECIFICATION FairSpec
CONSTANTS
  None = None  NoFile = NoFile
  Files = {x1}
  Blobs = {b1, b2, b3, b4}
  Size = 2
  QuotaPerIdentity = 3
  DefaultBlobTTL = 2
  StagingTTL = 2
  BlobTtl = 0
  Day = 4  Hour = 1  Minute = 1
  MaxTime = 2
  MaxFaults = 2
  LastFault = 0
INVARIANTS ServedVerified ReadyComplete
PROPERTIES CommittedStays CancelFinal EventuallySent
CHECK_DEADLOCK FALSE
