\* Two subscribers with a worker each and a session: a pool one short, exact,
\* with a slot for the session, and larger.
SPECIFICATION FairSpec
CONSTANTS
    Fetchers = {f1, f2}
    Workers = {w1, w2}
    Sessions = {a1}
    Capacities = {3, 4, 5, 6}
    MaxFaults = 2
INVARIANTS
    NeverWaits
    OneSlotEach
PROPERTIES
    LoopsConnect
    SessionsServed
CHECK_DEADLOCK FALSE
