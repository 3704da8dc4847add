CONSTANTS
  Attempts = {a1, a2, a3}
  None = none
  MaxMishaps = 2
  Foreign = FALSE
SPECIFICATION FairSpec
PROPERTIES FailedLoadLeavesNoTable LoaderReconciles
