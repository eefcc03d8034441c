SPECIFICATION FairSpec
CONSTANTS
  UnitCount = 1
  NextUnit = 0
  Outputs = {a}
  Handlers = {g, h}
  MaxBreaks = 1
  Nobody = Nobody
INVARIANT RetriedUnitFolds
CHECK_DEADLOCK FALSE
