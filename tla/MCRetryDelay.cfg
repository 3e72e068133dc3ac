\* Every strategy with small knobs, until its power has overflowed.
SPECIFICATION Spec
CONSTANTS
    Initial = 4
    Steps = {0, 4}
    Multipliers = {1, 2, 3}
    DelayCaps = {0, 20}
    Jitters = {0, 50, 200}
    AttemptLimits = {0, 3}
    TotalLimits = {0, 30}
    Ceiling = 40
    FloatMax = 64
    Lateness = 1
    MaxNacks = 8
INVARIANTS
    DelayInBand
    BudgetsDecide
CHECK_DEADLOCK FALSE
