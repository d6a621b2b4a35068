\* One worker behind a full queue; the run ends by itself or is asked to stop.
SPECIFICATION Spec
CONSTANTS
  p1 = p1  p2 = p2  p3 = p3  p4 = p4  w1 = w1  w2 = w2
  Pipelines = {p1, p2, p3, p4}
  Workers = {w1}
  MaxAdmitted = 4
  MaxAttempts = 2
  FailureBudget = 2
  Done = {p4}
  MayStop = TRUE
  GraceExpires = FALSE
  CancelIn = {}
  Faults = {"source", "surprise"}
  Never = Never  NoItem = NoItem  Sentinel = Sentinel
INVARIANTS CountersAgree CompletedMeansAll StoppedIsRecorded
