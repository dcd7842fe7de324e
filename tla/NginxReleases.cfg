\* One reload at a time, with two faults.
SPECIFICATION Spec
CONSTANTS
  Reload = {t1}
  Retention = 1
  MaxRelease = 5
  MaxFaults = 2
INVARIANTS TypeOK SuccessIsReal RolledBackStaysOut
PROPERTY ImplementsRollout
