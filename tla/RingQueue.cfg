SPECIFICATION Spec
CONSTANTS
  Elements = {a, b, c}
  Capacity = 3
  Blank = Blank
  Nothing = Nothing
INVARIANTS
  IndexesCoherent
PROPERTIES
  ImplementsQueue
