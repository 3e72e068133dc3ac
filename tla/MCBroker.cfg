\* Two subscribers, two starts, one fault.
SPECIFICATION FairSpec
CONSTANTS
    Subs = {s1, s2}
    MaxStarts = 2
    MaxFaults = 1
INVARIANTS
    StopStopsAll
    NoOrphanLoops
    PingReportsDeadLoops
PROPERTY
    StopReturnsEventually
CHECK_DEADLOCK FALSE
