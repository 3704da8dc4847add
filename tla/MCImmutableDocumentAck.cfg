CONSTANTS
  Payloads = {p1, p2}
  Partial = partial
  Inodes = {i1, i2, i3}
  None = none
SPECIFICATION Spec
SYMMETRY Symmetry
INVARIANT AckedDurable
