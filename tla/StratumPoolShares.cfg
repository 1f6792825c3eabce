SPECIFICATION Spec
CONSTANTS
  Nonces = {n1}
  ExtraNonces = {e1, e2}
  NoExtraNonce = NoExtraNonce
  PoolDifficulties <- MCPoolDifficulties
  InitialDifficulty = 1
  ShareDiffs <- MCShareDiffs
  NoShare = NoShare
  FirstJobIdCounter = 1
  DefaultJobId = 1
  MaxShares = 1
  MaxSuccessiveRejects = 1
  MaxReqRecords = 1
  MaxConnectionAttempts = 2
  ExitOnError = FALSE
  MaxWork = 2
  MaxInitialising = 0
  MaxRequests = 4
  MaxRestarts = 1
SYMMETRY MCSymmetry
INVARIANTS
  TypeOK
  QueueIsCurrent
  ServiceIsReady
  RecordsAreSound
PROPERTIES
  SubmitsAreGood
  ImplementsJobSource
CHECK_DEADLOCK FALSE
