SPECIFICATION SpecCron

CONSTANTS
  None = None
  Users = {u1, u2}
  Handlers = {h1, cron}
  Ops = {"Pend", "ReopenDue", "EmailReopen", "Deactivate", "Move", "Reassign"}
  MaxVersion = 2
  MaxV = 2
  u1 = u1
  u2 = u2
  cron = cron
  h1 = h1
  Cron = cron

\* A docket that nothing more happens to, or that has used up its versions, stops.
CHECK_DEADLOCK FALSE

PROPERTIES
  DueIsReopened
