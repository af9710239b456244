SPECIFICATION FairSpec
CONSTANTS
  Jobs = {j1, j2}
  Requests = {}
  Corrupt = {j2}
  MaxAttempts = 1
  MaxFinalTries = 2
  Reports = 0
  BatchSize = 1
  Faults <- AllFaults
  MaxFaults = 1
PROPERTY SubmittedIsAnswered
