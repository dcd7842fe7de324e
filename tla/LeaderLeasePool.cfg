\* A pool of two connections: answers overtake each other.
SPECIFICATION Spec
CONSTANTS
  Instance = {i1, i2}
  None = None
  Connection = {c1, c2}
  Ttl = 2
  Skew <- MCNoSkew
  Lag = 0
  MaxGeneration = 2
  MaxWaiting = 1
INVARIANT SingleLeader
