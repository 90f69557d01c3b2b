SPECIFICATION Spec
CONSTANTS
    Runs = {r1, r2}
    Workers = {w1, w2, w3}
    Docs = {d1, d2}
    StaleAfter = 1
    Ttl = 2
    MaxClock = 3
    MaxCrashes = 1
    Overrun = TRUE
    ConcurrentStartup = TRUE
SYMMETRY Symmetric
INVARIANTS TypeOK ClaimsDisjoint WriterNotClaimed PublishedTogether
PROPERTIES ImplementsContract
CHECK_DEADLOCK FALSE
