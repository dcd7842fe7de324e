\* Each component alone, on its own small instance.
SPECIFICATION Spec
CONSTANTS
  Actor = {u1, u2}
  Label = {"x", "a"}
  List <- MCList
  MaxLabels = 4
  MaxWrites = 3
  Hash = {"h1"}
  MaxStoredChanges = 4
  Config <- MCConfig
  Plain = "plain"
  MaxRenewals = 2
  Order = {o1, o2}
  Token = {t1, t2}
  Asking = {"k1"}
  MaxMishaps = 1
  Domains <- MCDomains
  Sent <- MCSent
  Name = {"n1"}
  MaxChanges = 2
  RestartMax = 3
  MaxSignals = 2
  Process = {1, 2}
  Caller <- MCCaller
  ProcessOf <- MCProcessOf
  Connection = {"c1", "c2"}
  MaxRetries = 2
  MaxLosses = 1
  MaxHolds = 3
SYMMETRY Symmetry
INVARIANTS
  TypeOK
  ConflictsOnlyByOverlap
  KeysMatch
  CompletedPassIsComplete
  WaitingIsServed
  NothingLeftPresented
  CleanImportIsComplete
  NothingCutOff
  ExcludesOthers
PROPERTIES
  UsedCertificatesStay
  ZeroMeansAsked
CHECK_DEADLOCK FALSE
