CONSTANTS
  Jobs = {1, 2, 3}
  Old = {2}
  Left <- MCLeft
  Reports = 1
  Stores = {"memory", "postgres"}
  MaxFaults = 1
  Limit = 1
  Filters = {""}
  MaxTime = 2
SPECIFICATION PagesSpec
PROPERTIES ProgressIsKept LocalImplementsLife PagesAreExact EveryJobEnds
CHECK_DEADLOCK FALSE
