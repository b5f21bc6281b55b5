CONSTANTS
  deal = deal
  left = left
  right = right
  k1 = k1
  k2 = k2
  n1 = n1
  None = None
  w1 = w1
  w2 = w2
  c1 = c1
  c2 = c2
  Subjects = {deal, left}
  Below <- OneDeal
  Sows = {left}
  Keys = {k1, k2}
  InitFiles <- OwnFiles
  Notes = {n1}
  Source <- AboutSow
  Senders = {w1, w2}
  Cleaners = {c1, c2}
  MaxAttempts = 2
  MaxCrashes = 1
  MaxRetries = 1
SPECIFICATION FairSpec
INVARIANTS
  TypeOK
  NothingPendingOfDeleted
  MailsAccountedFor
  ParentsFinishLast
PROPERTIES
  OnlyPendingMailed
  NotesSettle
  JobsSettle
CHECK_DEADLOCK FALSE
