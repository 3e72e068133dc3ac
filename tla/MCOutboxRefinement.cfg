\* Two rows or timers claimed, retried, extended and deleted in batches, with
\* leases shorter than a tick: every tick may expire every lease.
SPECIFICATION Spec
CONSTANTS
    MaxRows = 2
    MaxClaims = 3
    MaxTime = 1
    MaxPayload = 2
    FetchLimit = 2
    LeaseTTL = 0
    MaxDeliveries = 2
    Timer = {t1}
    NoTimer = NoTimer
    Delay <- MCDelay
    HasDLQ = TRUE
INVARIANTS
    SingleHolder
    HolderIsCurrent
    InvocationsBounded
    NothingLost
    DeadLettersFaithful
PROPERTIES
    OnlyLatestClaimWrites
    DeadlineOnlyMovesLater
    ImplementsAtLeastOnce
CHECK_DEADLOCK FALSE
