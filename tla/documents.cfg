CONSTANTS
  a1 = a1
  a2 = a2
  f1 = f1
  c1 = c1
  l1 = l1
  review = review
  notes = notes
  w1 = w1
  None = None
  Documents = {review, notes}
  Slots = {w1}
  Requests = {a1, a2, f1, c1, l1}
  OpOf <- Ops
  DocOf <- Docs
  SlotOf <- Places
  MaxFaults = 1
SPECIFICATION FairSpec
INVARIANTS AcknowledgedChangesSurvive AnswersAreCurrent
PROPERTY EveryRequestEnds
CHECK_DEADLOCK FALSE
