\* Three threads and three values, each recorded at most twice.
CONSTANTS
  Recorders = {t1, t2, t3}
  Limit = 3
  U64Max = 9
  MaxFreq = 2
SPECIFICATION Spec
INVARIANTS
  TypeOK
  CountExactWhenQuiet
  BoundsExactWhenQuiet
PROPERTIES
  WindowOnlyWidens
CHECK_DEADLOCK FALSE
