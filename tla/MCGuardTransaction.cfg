CONSTANTS
  Shells = {s1, s2}
  Attempts = {a1, a2}
  None = none
  MaxMishaps = 3
  MaxSharedMishaps = 1
SPECIFICATION FairSpec
INVARIANTS PassIsBinding RolledBackIsPrestate KubeletGuarded
PROPERTIES ClosedIsFinal TransactionEnds
CHECK_DEADLOCK FALSE
