SPECIFICATION FairSpec
CONSTANTS
  Main = Main
  MaxThreads = 1
PROPERTIES
  StartReturns
CHECK_DEADLOCK FALSE
