CONSTANTS
  a = a
  b = b
  p1 = p1
  p2 = p2
  Invocations = {1, 2}
  Experiments = {a, b}
  Source <- MCSource
  Layouts = {"combined", "by_experiment"}
  Concurrency = 1
  MaxCrashes = 1
  Broken = {b}
  Selections = {{a}, {a, b}}
  MaxOpen = 1
  Limits = {1, 3}
SPECIFICATION Spec
INVARIANTS OutcomesTold CompletedIsWhole
PROPERTY LiveUntouched
CHECK_DEADLOCK FALSE
