SPECIFICATION Spec

CONSTANTS
  TicksPerMinute = 2
  DayLength = 10
  Opens = 2
  Closes = 8
  Week = 3
  Lookahead = 8
  Calendars <- MCCalendars
  Starts <- MCStarts
  Durations <- MCDurations

\* A computed due date is the end.
CHECK_DEADLOCK FALSE

INVARIANTS
  TypeOK
  NothingLost
  DueInBusiness
PROPERTIES
  Terminates
