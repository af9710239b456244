SPECIFICATION FairSpec
CONSTANTS
  e1 = e1
  e2 = e2
  e3 = e3
  Events = {e1, e2, e3}
  NoEvent = none
  Transactions <- MCTransactions
  Partitions = {"processing", "lifecycle"}
  Partition <- MCPartition
  Relays = {r1, r2}
  BatchSize = 2
  Faults <- AllFaults
  MaxFaults = 2
INVARIANT DuplicatesNeedFaults
PROPERTIES ImplementsDelivery EveryEventIsDelivered
CHECK_DEADLOCK FALSE
