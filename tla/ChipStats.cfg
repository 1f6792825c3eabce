SPECIFICATION FairSpec
CONSTANTS
  NumChips = 2
  Parities = 1
  MaxItems = 1
  Word = 4
  MayRestart = {0}
  MaxTime = 1
  OtherCounters = {1}
  MaxWork = 2
  Watched = {0}
  MaxTotal = 3
  MaxFaults = 1
INVARIANTS
  TypeOK
  BlocksAreOwn
  CountsAreTrue
PROPERTIES
  EveryChipIsHeard
