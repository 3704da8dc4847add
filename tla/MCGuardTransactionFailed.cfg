CONSTANTS
  Shells = {s1}
  Attempts = {a1, a2}
  None = none
  MaxMishaps = 1
  MaxSharedMishaps = 0
SPECIFICATION FairSpec
PROPERTIES FailureRollsBack EarlyFailureRollsBack
CHECK_DEADLOCK FALSE
