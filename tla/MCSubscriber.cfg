\* Two workers, two rows, buffers of two, one fault, a second start.
SPECIFICATION Spec
CONSTANTS
    Row = {r1, r2}
    Worker = {w1, w2}
    InflightMax = 2
    FlushBatch = 2
    MaxClaims = 2
    MaxFaults = 1
    MaxStarts = 2
SYMMETRY Symmetric
INVARIANTS
    InflightFits
    TasksBalanced
    DrainLeavesNothing
    NoLostWakeup
    RoomWakesFetch
    EventsPaired
CHECK_DEADLOCK FALSE
