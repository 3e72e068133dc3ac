\* A stop from a handler beside the application's stop and start.
SPECIFICATION Spec
CONSTANTS
    Subs = {s1}
    MaxStarts = 2
    MaxFaults = 0
INVARIANT StopStartFetchesAgain
CHECK_DEADLOCK FALSE
