SPECIFICATION FairPipelineSpec
CONSTANTS
  e1 = e1
  e2 = e2
  Events = {e1, e2}
  NoEvent = none
  Transactions <- MCTransactions
  Partitions = {"processing"}
  Partition <- MCPartition
  Relays = {r1, r2}
  BatchSize = 1
  Faults <- RelayFaults
  MaxFaults = 1
  Sinks = {s1, s2}
  SinkFaults <- GroupFaults
  MaxSinkFaults = 2
INVARIANT PublishedIsNotForgotten
PROPERTY PipelineImplementsDelivery
PROPERTY EveryEventIsSettled
CHECK_DEADLOCK FALSE
