\* Liveness: no symmetry, one row, two workers, one fault, a second start.
SPECIFICATION FairSpec
CONSTANTS
    Row = {r1}
    Worker = {w1, w2}
    InflightMax = 1
    FlushBatch = 2
    MaxClaims = 3
    MaxFaults = 1
    MaxStarts = 2
PROPERTIES
    StopTerminates
    EveryRowDispatched
CHECK_DEADLOCK FALSE
