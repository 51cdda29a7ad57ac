SPECIFICATION SpecAlone

CONSTANTS
  None = None
  Users = {u1, u2}
  Handlers = {h1, h2}
  Ops = {"Pend", "File", "Close", "Unpend", "AutoReopen", "Unassign",
         "Reassign", "ReassignCase", "QcPass", "QcFail", "Move", "ReopenDue",
         "EmailReopen", "Deactivate", "Pull", "BulkPull", "Transition"}
  MaxVersion = 2
  MaxV = 2
  u1 = u1
  u2 = u2
  cron = cron
  h1 = h1
  h2 = h2
  Cron = cron

SYMMETRY Symmetry
\* A docket that nothing more happens to, or that has used up its versions, stops.
CHECK_DEADLOCK FALSE

INVARIANTS
  TypeOK
  PersonalHasOwner
  FiledAgrees
PROPERTIES
  KeepsWorklist
  ReopenKeepsOwner
