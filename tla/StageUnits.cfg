SPECIFICATION FairSpec
CONSTANTS
  UnitCount = 3
  NextUnit = 1
  Outputs = {a, b}
  Handlers = {g, h}
  MaxBreaks = 2
  Nobody = Nobody
INVARIANTS AddedOnce AcceptedStored DeliveredFolds
PROPERTY AttemptEnds
CHECK_DEADLOCK FALSE
