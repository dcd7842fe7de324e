\* Two instances, checks that do not overlap, one fault.
SPECIFICATION FairSpec
CONSTANTS
  None = None
  Instance = {i1, i2}
  Check = {c1}
  MaxLapses = 1
INVARIANTS TypeOK RenewalFollowsLeadership
PROPERTIES RegistrySettles
CHECK_DEADLOCK FALSE
