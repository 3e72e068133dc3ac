\* Two contexts of either mode, three rows (two for a loop context), two tasks that publish, nested once;
\* every tick may expire every lease.
SPECIFICATION Spec
CONSTANTS
    MaxRows = 3
    MaxLoopRows = 2
    MaxClaims = 3
    MaxTime = 1
    LeaseTtl = 0
    Delay = {0}
    Queue = {q1, q2}
    Served = {q1}
    Timer = {t1}
    NoTimer = NoTimer
    HasDLQ = TRUE
    Task = {a, b}
    MaxDepth = 2
    MaxContexts = 2
    MaxWorkers = 1
    MaxDeliveries = 2
    QueueMax = 1
SYMMETRY Symmetric
INVARIANTS
    PublishRunsItsRows
    ContextStartsFresh
PROPERTY
    FakeImplementsAtLeastOnce
CHECK_DEADLOCK FALSE
