SPECIFICATION Spec

CONSTANTS
  Sessions = {s1}
  Calls = {c1, c2}
  MaxFaults = 0

\* A settled session is asked for nothing more.
CHECK_DEADLOCK FALSE

PROPERTIES
  SameAttachment
