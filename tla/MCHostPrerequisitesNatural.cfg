CONSTANTS
  Shells = {s1}
  Attempts = {t1}
  None = none
  MaxMishaps = 2
SPECIFICATION Spec
INVARIANT NaturalValuesRemain
CHECK_DEADLOCK FALSE
