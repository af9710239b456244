SPECIFICATION FairSpec
CONSTANTS
  Jobs = {j1, j2}
  RunIDs = {r1}
  RunID <- SameRunID
  Forced = {}
  MaxAttempts = 2
  Free = Free
  None = None
  Torn = Torn
  Mixed = Mixed
  Faults <- AllFaults
  MaxFaults = 1
INVARIANTS SectionIsHeld RepeatsNeedFaults
PROPERTIES CatalogedIsPublished NobodyWaitsForever
CHECK_DEADLOCK FALSE
