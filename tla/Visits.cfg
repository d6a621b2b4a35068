\* Two runs over one backward pipeline, alive at once or not.
SPECIFICATION Spec
CONSTANTS
    Runs = {r1, r2}
    N = 3
    Edges <- MCEdges
    Rewinds <- MCRewinds
    RetryAll <- MCRetryAll
    Limit = 1
    MaxVisits = 1
    MaxHops = 2
    MaxSpoils = 1
    MaxLosses = 1
    Nobody = Nobody
    NoTraversal = NoTraversal  NoEntry = NoEntry  NoArtifact = NoArtifact
SYMMETRY MCSymmetry
INVARIANTS OneOutcome FollowsTraversal BudgetKept
PROPERTY AddressesAreFresh
CHECK_DEADLOCK FALSE
