CONSTANTS
  Workers = {w1, w2, w3}
  Endpoints = {e1}
  Capacity = 2
  Offered = {1, 2}
  Metered = {e1}
  Algorithms = {"wait", "backoff", "immediate"}
  Jobs = 3
  CallsPerStep = 2
  StepsPerJob = 1
  Attempts = 2
  Horizon = 4
  Latencies = {1, 2}
  Delays = {0, 1}
  Cooldown = 1
  DegradeAfter = 1
  DeadAfter = 3
  IdleTicks = 3
SPECIFICATION Spec
INVARIANT CountsAgree
PROPERTIES SoundAdvance SimulationEnds
