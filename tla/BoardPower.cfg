SPECIFICATION FairSpec
CONSTANTS
  NumBoards = 1
  LowPasses = 1
INVARIANTS
  TypeOK
  SwitchIsKnown
  PassLeavesSafe
PROPERTIES
  StartsCool
  BoardsStop
  TrippedReturns
