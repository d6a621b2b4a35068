SPECIFICATION Spec
CONSTANTS
    Runs = {"r1", "r2"}
    Forward = "f"
    Backward = "b"
    Total = 2
    Journals = {"full", "summary"}
    LargeSeqs = {0}
    InlineLimit = 1
    StaleAfter = 0
    MaxTime = 2
    MaxAttempts = 2
    MaxHandoffs = 1
    MaxEvents = 1
    Batch = 1
INVARIANTS BackendsAgree PagesMissNothing
CHECK_DEADLOCK FALSE
