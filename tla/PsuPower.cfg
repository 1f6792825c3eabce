SPECIFICATION FairSpec
CONSTANTS
  Rectifiers = {r1, r2}
  DefaultConfig <- MCDefault
  Configs <- MCConfigs
  Volts = {0, 5}
  Tolerance = 1
  Width = 8
  Tries = 0
  MaxHold = 2
  Supplies = {0, 1, 2, 3}
INVARIANTS
  TypeOK
  VoltageInBounds
PROPERTIES
  OvercurrentLowers
  ImplementsContract
  BoardsGetPower
