SPECIFICATION FairSpec
CONSTANTS
  Events = {good, bad}
  Invalid = {bad}
  Partitions = {p1}
  Sinks = {s1, s2}
  SinkFaults <- AllSinkFaults
  MaxSinkFaults = 3
  MaxLog = 3
INVARIANTS OnlyFailedAreSkipped RowsNeedFaults
PROPERTY EveryRecordIsSettled
CHECK_DEADLOCK FALSE
