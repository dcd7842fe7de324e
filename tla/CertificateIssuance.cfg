\* Two requests on two nodes, one fault.
SPECIFICATION FairSpec
CONSTANTS
  n1 = n1
  n2 = n2
  f1 = f1
  f2 = f2
  Nobody = Nobody
  Node <- MCNode
  Flow <- MCFlow
  NodeOf <- MCNodeOf
  Task <- MCTask
  Syncing = {n2}
  MaxEvents = 3
  MaxLate = 1
  Overlaps = FALSE
  MaxOrders = 2
  MaxArtifacts = 2
INVARIANTS TypeOK NoNeedlessIssuance CertificateIsCurrent NoOrderAbandoned ActivatesOwnArtifact
PROPERTIES NodesConverge
CHECK_DEADLOCK FALSE
