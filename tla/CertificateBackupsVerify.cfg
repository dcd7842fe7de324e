\* Any three sets of domains, one file.
SPECIFICATION Spec
CONSTANTS
  List <- MCList
  Sent <- MCSent
  Name = {n1}
  Request = {r1, r2}
  MaxChanges = 2
INVARIANT BackupsVerify
CHECK_DEADLOCK FALSE
