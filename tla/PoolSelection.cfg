SPECIFICATION FairSpec
CONSTANTS
  Addresses = {a1, a2}
  Outlooks <- MCOutlooks
  RetryNTimes = 1
  Hurried = FALSE
  MaxEdits = 2
INVARIANTS
  TypeOK
  ChoiceIsFresh
  ConfigIsInForce
PROPERTIES
  NotGivenUpEarly
  ServiceIsFound
