\* Two callers on one node, the default pool.
SPECIFICATION Spec
CONSTANTS
  Process <- MCProcess
  Caller <- MCTwoCallers
  ProcessOf <- MCOneProcessOf
  Connection = {c1}
  MaxRetries = 1
  MaxLosses = 0
  MaxHolds = 2
INVARIANT Exclusive
CHECK_DEADLOCK FALSE
