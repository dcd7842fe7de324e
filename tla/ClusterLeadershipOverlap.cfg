\* Two instances whose checks may overlap.
SPECIFICATION Spec
CONSTANTS
  None = None
  Instance = {i1, i2}
  Check = {c1, c2}
  MaxLapses = 1
INVARIANTS OnlyLeaderRenews
CHECK_DEADLOCK FALSE
