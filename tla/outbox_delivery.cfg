SPECIFICATION FairSpec

CONSTANTS
  Entries <- MCEntries
  Workers = {w1, w2}
  MaxAttempts = 2
  Threshold = 2
  MaxFaults = 2

INVARIANTS
  TypeOK
  OneHolder
  SentIsPaid
  FailedIsExhausted
PROPERTIES
  Delivers
  PendingSettles
