CONSTANTS
  Shells = {s1, s2}
  Attempts = {a1}
  None = none
  MaxMishaps = 0
  MaxSharedMishaps = 0
SPECIFICATION Spec
INVARIANT NoPassBeneathRollback
CHECK_DEADLOCK FALSE
