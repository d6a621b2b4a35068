\* Two workers, a shared admission limit, crashes, a failing store, tasks that cancel themselves
\* or outlast a cancellation, and an outer cancellation; a task that cancels itself may hang the run.
SPECIFICATION Spec
CONSTANTS
  p1 = p1  p2 = p2  p3 = p3  p4 = p4  w1 = w1  w2 = w2
  Pipelines = {p1, p2, p3}
  Workers = {w1, w2}
  MaxAdmitted = 2
  MaxAttempts = 2
  FailureBudget = 2
  Done = {}
  MayStop = TRUE
  GraceExpires = TRUE
  CancelIn = {"admit", "handing", "complete", "shutdown", "sentinels", "draining", "cancelling"}
  Faults = {"surprise", "death", "unrecorded", "selfCancel", "swallow"}
  Never = Never  NoItem = NoItem  Sentinel = Sentinel
SYMMETRY MCSymmetry
INVARIANTS AdmissionBounded RunningIsOwned
PROPERTIES HistoryIsKept
CHECK_DEADLOCK FALSE
