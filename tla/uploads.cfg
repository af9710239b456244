SPECIFICATION FairSpec
CONSTANTS
  e1 = e1
  e2 = e2
  d1 = d1
  d2 = d2
  v1 = v1
  a1 = a1
  a2 = a2
  Creation = upload
  Edits = {e1}
  Deletes = {d1, d2}
  Views = {v1}
  Analyses = {a1}
  Hosts = {"web", "worker"}
  Web = "web"
  HostOf <- MCHostOf
  None = none
  Faults = {"error", "lost", "crash"}
  MaxFaults = 2
INVARIANTS VideoIsServed DeletionIsFinal ReportsHaveArtifacts
PROPERTIES EditsYieldOnlyToStaleness EveryRequestEnds
CHECK_DEADLOCK FALSE
