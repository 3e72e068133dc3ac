\* Two queues, a transaction with two levels of savepoints, five publishes.
SPECIFICATION Spec
CONSTANTS
    Queue = {q1, q2}
    MaxDepth = 3
    MaxSends = 5
INVARIANTS
    CommittedAreNotified
    NotifiedAreCommitted
CHECK_DEADLOCK FALSE
