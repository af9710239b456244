SPECIFICATION MatchSpec
CONSTANTS
  Looks <- MCLooks
  Samples <- MCSamples
  Budgets = {2}
  LabelSets <- MCLabelSets
  TypeSets = {{}, {"death"}, {"unknown"}}
  Requested = {0, 12000}
  Annotated = {0, 3000}
INVARIANTS WindowsShareTheTimeline RoundsPartition OneDeathPerRound EvidenceIsNearest BlameIsConfirmed EvaluationIsComplete
PROPERTY VerdictsAreFair
CHECK_DEADLOCK FALSE
