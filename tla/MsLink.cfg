SPECIFICATION Spec
CONSTANTS
  NumSlaves = 2
  Slots = 2
  Settings = {0, 1}
  TransfersThrow = TRUE
  MaxJobs = 0
  MaxFound = 3
  MaxEntries = 1
  MaxThrows = 1
  MaxRestarts = 1
  MaxResets = 0
  MaxEdits = 0
INVARIANTS
  TypeOK
  NoncesAreAccounted
PROPERTIES
  OverrunTakesAWhole
