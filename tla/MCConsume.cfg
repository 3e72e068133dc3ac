\* Every policy, strategy and dead-letter table, three attempts, two deliveries
\* where they are limited, one delivery cut off by a drain that timed out.
SPECIFICATION Spec
CONSTANTS
    MaxAttempts = 3
    MaxDeliveries = 2
    MaxCuts = 1
INVARIANTS
    FailedIsRetried
    RejectedByChoice
    AckedIsDone
    GaugeIsTrue
    VerdictCountedOnce
CHECK_DEADLOCK FALSE
