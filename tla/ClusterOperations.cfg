\* An initiator and up to two peers, under fairness of the initiator.
SPECIFICATION FairSpec
CONSTANTS
  Initiator = n0
  Peer = {n1, n2}
INVARIANTS TypeOK AcksAreTrue OutcomeMatchesAcks CallerCanRely
PROPERTIES ImplementsBroadcast ReachesOutcome
CHECK_DEADLOCK FALSE
