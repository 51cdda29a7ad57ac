SPECIFICATION Spec

CONSTANTS
  None = None
  u1 = u1
  u2 = u2
  t1 = t1
  t2 = t2
  h1 = h1
  h2 = h2
  Users = {u1, u2}
  Teams = {t1, t2}
  TeamOf <- MCTeamOf
  Admins = {}
  Managers = {u2}
  Handlers = {h1, h2}
  Ops = {"Route", "Accept", "Pend", "Submit", "Move", "Ask", "Decide"}
  MaxV = 3

SYMMETRY MCSymmetry
\* A docket that has used up its versions stops.
CHECK_DEADLOCK FALSE

INVARIANTS
  TypeOK
  DecidedOnce
PROPERTIES
  SubmitFromHolder
  SubmitGoesToRouter
