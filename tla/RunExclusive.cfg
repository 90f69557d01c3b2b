SPECIFICATION Spec
CONSTANTS
    Runs = {r1, r2}
    Workers = {w1, w2}
    Docs = {d1, d2}
    StaleAfter = 2
    Ttl = 2
    MaxClock = 5
    MaxCrashes = 2
    Overrun = FALSE
    ConcurrentStartup = FALSE
SYMMETRY Symmetric
INVARIANTS SingleProcessor RecoveryAvoidsOwned RowConsistent ChartsAreComplete
PROPERTIES ImplementsContract
CHECK_DEADLOCK FALSE
