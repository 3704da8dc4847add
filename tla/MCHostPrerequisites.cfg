CONSTANTS
  Shells = {s1, s2}
  Attempts = {t1, t2}
  None = none
  MaxMishaps = 2
SPECIFICATION FairSpec
INVARIANTS RecordsHold BridgeRestored
PROPERTY PendingEnds
CHECK_DEADLOCK FALSE
