SPECIFICATION FairSpec
CONSTANTS
  Main = Main
  MaxThreads = 3
INVARIANTS
  AtMostOneWorker
  StopMeansStopped
  RunningIsKnown
PROPERTIES
  StopReturns
CHECK_DEADLOCK FALSE
