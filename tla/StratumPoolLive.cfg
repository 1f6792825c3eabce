SPECIFICATION FairSpec
CONSTANTS
  Nonces = {}
  ExtraNonces = {e1, e2}
  NoExtraNonce = NoExtraNonce
  PoolDifficulties <- MCPoolDifficulties
  InitialDifficulty = 0
  ShareDiffs <- MCShareDiffs
  NoShare = NoShare
  FirstJobIdCounter = 1
  DefaultJobId = 1
  MaxShares = 1
  MaxSuccessiveRejects = 1
  MaxReqRecords = 1
  MaxConnectionAttempts = 1
  ExitOnError = FALSE
  MaxWork = 1
  MaxInitialising = 1
  MaxRequests = 3
  MaxRestarts = 0
PROPERTIES
  SetupResolves
  ServiceIsFed
CHECK_DEADLOCK FALSE
