SPECIFICATION FairSpec
CONSTANTS
  m1 = m1
  m2 = m2
  a1 = a1
  a2 = a2
  b1 = b1
  Messages = {m1, m2}
  Attachments <- ThreeAttachments
  MessageOf <- TwoMessages
  Parallelism = 2
  MaxKills = 1
CHECK_DEADLOCK FALSE
INVARIANT TypeOK
INVARIANT NothingLeftBehind
PROPERTY DownloadedStays
PROPERTY EveryJobLeaves
