SPECIFICATION Spec
CONSTANTS
  Jobs = {j1}
  Requests = {c1}
  Corrupt = {}
  MaxAttempts = 2
  MaxFinalTries = 2
  Reports = 1
  BatchSize = 1
  Faults <- NoFaults
  MaxFaults = 0
PROPERTY TerminalIsFinal
