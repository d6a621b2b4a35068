\* Every way a run can be disturbed that does not hang a worker for good, under fairness.
SPECIFICATION FairSpec
CONSTANTS
  p1 = p1  p2 = p2  p3 = p3  p4 = p4  w1 = w1  w2 = w2
  Pipelines = {p1, p2, p3, p4}
  Workers = {w1}
  MaxAdmitted = 4
  MaxAttempts = 2
  FailureBudget = 2
  Done = {p3, p4}
  MayStop = TRUE
  GraceExpires = TRUE
  CancelIn = {"admit", "handing", "complete", "shutdown", "sentinels", "draining", "cancelling"}
  Faults = {"source", "surprise", "afterCount", "afterPark", "death", "unrecorded", "conflict"}
  Never = Never  NoItem = NoItem  Sentinel = Sentinel
INVARIANTS OnePlace
PROPERTIES HistoryIsKept RunEnds
