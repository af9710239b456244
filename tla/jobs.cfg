SPECIFICATION PatientSpec
CONSTANTS
  Jobs = {j1}
  Requests = {c1}
  Corrupt = {}
  MaxAttempts = 2
  MaxFinalTries = 2
  Reports = 1
  BatchSize = 1
  Faults <- AllFaults
  MaxFaults = 1
INVARIANT EndsAreJustified
PROPERTY RequestIsDelivered
