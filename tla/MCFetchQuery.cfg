\* Every table of three rows over two queues, two fetches of two rows each.
SPECIFICATION Spec
CONSTANTS
    MaxId = 3
    Queue = {q1, q2}
    Due <- MCDue
    Now = 1
    Fetcher = {f1, f2}
    Limit = 2
SYMMETRY Symmetric
INVARIANTS
    ClaimedOnce
    OldestFirst
    LagIsOfNextClaim
CHECK_DEADLOCK FALSE
