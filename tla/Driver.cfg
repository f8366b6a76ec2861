\* Two threads share a driver: scopes, nesting, verification, close; batches
\* of up to three operations and every answer of the executor.
CONSTANTS
  t1 = t1
  t2 = t2
  Threads = {t1, t2}
  NoThread = NoThread
  Model = "SPD3303X"
  Used = {"voltage", "network.settings", "voltage=", "sav"}
  RawTexts = {TRUE}
  MaxDepth = 3
  MaxOps = 3
  MaxFaults = 1
SPECIFICATION Spec
INVARIANTS
  TypeOK
  ScopesHoldTheLock
  BatchOfOneThread
  ListFilledOnSuccess
  SuccessMeansVerified
  FirstFaultRaised
  VerificationErrorAfterWrite
  SettledByItsRun
PROPERTIES
  VerificationFollowsScope
  NothingBesideTheBatch
SYMMETRY Symmetric
CHECK_DEADLOCK FALSE
