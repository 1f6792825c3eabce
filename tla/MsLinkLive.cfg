SPECIFICATION FairSpec
CONSTANTS
  NumSlaves = 1
  Slots = 1
  Settings = {0, 1}
  TransfersThrow = TRUE
  MaxJobs = 2
  MaxFound = 1
  MaxEntries = 2
  MaxThrows = 1
  MaxRestarts = 1
  MaxResets = 1
  MaxEdits = 1
INVARIANTS
  NoncesAreAccounted
PROPERTIES
  NoncesArrive
  JobArrives
