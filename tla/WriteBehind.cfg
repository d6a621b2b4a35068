\* Four facts, two processes, two failing writes, both kinds of inner store.
SPECIFICATION FairSpec
CONSTANTS
    Facts = {1, 2, 3, 4}
    BatchSize = 3
    MaxProcesses = 1
    MaxFailures = 2
    Nothing = Nothing
INVARIANT CommitsBehindFacts
PROPERTIES ImplementsFactLog BufferDrains
CHECK_DEADLOCK FALSE
