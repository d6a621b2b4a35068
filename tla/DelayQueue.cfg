\* Three parked pipelines, room for two, delays below, at and above zero.
SPECIFICATION Spec
CONSTANTS
    Items = {i1, i2, i3}
    Delays <- MCDelays
    Room = 2
    MaxNow = 3
    MaxPushes = 5
    Nothing = Nothing  Fresh = Fresh
SYMMETRY MCSymmetry
INVARIANTS HandedOverOnce NeverOversleeps
CHECK_DEADLOCK FALSE
