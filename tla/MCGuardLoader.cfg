CONSTANTS
  Attempts = {a1, a2, a3, a4}
  None = none
  MaxMishaps = 3
  Foreign = TRUE
SPECIFICATION FairSpec
INVARIANTS ReceiptsAgree TableAgrees
PROPERTIES ClosedIsFinal GuardLoads
