CONSTANTS
    N = 3
    Edges <- MCEdges
    MaxRuns = 3
    MaxFaults = 2
    MaxSpoils = 2
    MaxHops = 2
    Absent = Absent
SPECIFICATION Spec
INVARIANTS
    InputFits
    SuccessIsWhole
    CleanRunSucceeds
    FloorSeparates
PROPERTY NothingIsRepeated
CHECK_DEADLOCK FALSE
