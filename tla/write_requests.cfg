SPECIFICATION Spec

CONSTANTS
  Attempts = {r1, r2}
  Styles = {"returns", "direct"}
  MaxRetries = 1
  MaxMishaps = 2
  r1 = r1
  r2 = r2

SYMMETRY Symmetry
\* When every request is over, nothing more happens.
CHECK_DEADLOCK FALSE

INVARIANTS
  TypeOK
  ExecutedOnce
  AnswersAreEarned
  EffectsAwaitTransaction
  NoEffectLost
