SPECIFICATION Spec

CONSTANTS
  None = None
  Users = {u1, u2}
  Handlers = {h1, h2}
  Ops = {"Reassign", "ReassignCase", "QcPass", "QcFail", "Transition"}
  MaxVersion = 2
  MaxV = 3
  u1 = u1
  u2 = u2
  cron = cron
  h1 = h1
  h2 = h2
  Cron = cron

SYMMETRY Symmetry
\* A docket that nothing more happens to, or that has used up its versions, stops.
CHECK_DEADLOCK FALSE

PROPERTIES
  QcDecidesOnQc
  QcReturnsToSubmitter
