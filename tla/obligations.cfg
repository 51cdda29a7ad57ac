SPECIFICATION Spec

CONSTANTS
  Templates = {1, 2}
  Clients = {1, 2}
  Applies <- MCApplies
  Settings <- MCSettings
  Initial <- MCInitial
  Requests <- MCRequests
  Runs = {r1, r2}
  MaxEdits = 1
  MaxFaults = 1

SYMMETRY MCSymmetry

\* Every call has been answered.
CHECK_DEADLOCK FALSE

INVARIANTS
  TypeOK
  OncePerObligation
  FinishedRunCovers
  PeriodsDisjoint
  DueAfterPeriod
