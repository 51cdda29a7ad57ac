SPECIFICATION FairSpec

CONSTANTS
  Sessions = {s1}
  Calls = {c1, c2, c3}
  MaxFaults = 2

\* A settled session is asked for nothing more.
CHECK_DEADLOCK FALSE

INVARIANTS
  TypeOK
  OneUnlessTakenOver
  AttachmentsAreVerified
PROPERTIES
  SettledStaysSettled
  SessionSettles
