SPECIFICATION Spec
CONSTANTS
    Runs = {r1}
    Workers = {w1, w2}
    Docs = {d1, d2}
    StaleAfter = 1
    Ttl = 2
    MaxClock = 4
    MaxCrashes = 1
    Overrun = TRUE
    ConcurrentStartup = TRUE
INVARIANTS SingleProcessor
CHECK_DEADLOCK FALSE
