CONSTANTS
  Procs = {timer, operator}
  None = none
  Keep = 2
  MaxTime = 4
  MaxMishaps = 2
SPECIFICATION Spec
SYMMETRY Symmetry
INVARIANT LatestRetained
PROPERTIES UndisturbedRunsPass RetentionSparesNewest
