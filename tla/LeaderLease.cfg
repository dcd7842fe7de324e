\* Two processes, one with a clock a tick behind, the default pool.
SPECIFICATION FairSpec
CONSTANTS
  Instance = {i1, i2}
  None = None
  Connection = {c1}
  Ttl = 2
  Skew <- MCOneLags
  Lag = 1
  MaxGeneration = 2
  MaxWaiting = 1
INVARIANTS TypeOK BeliefIsGrounded SingleLeader UniqueTokens
PROPERTIES ImplementsEpochs DeadOwnerReplaced
