SPECIFICATION FairSpec
CONSTANTS
  NumSlaves = 2
  Slots = 1
  Settings = {0, 1}
  TransfersThrow = FALSE
  MaxJobs = 0
  MaxFound = 0
  MaxEntries = 1
  MaxThrows = 0
  MaxRestarts = 0
  MaxResets = 0
  MaxEdits = 1
PROPERTIES
  PowerDownArrives
