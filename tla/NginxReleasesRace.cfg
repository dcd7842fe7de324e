\* Two reloads that interleave, without faults.
SPECIFICATION Spec
CONSTANTS
  Reload = {t1, t2}
  Retention = 1
  MaxRelease = 3
  MaxFaults = 0
INVARIANT LinksAgree
