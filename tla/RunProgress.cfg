SPECIFICATION FairSpec
CONSTANTS
    Runs = {r1, r2}
    Workers = {w1, w2}
    Docs = {d1}
    StaleAfter = 1
    Ttl = 2
    MaxClock = 4
    MaxCrashes = 1
    Overrun = TRUE
    ConcurrentStartup = TRUE
PROPERTIES EveryRunEnds StrandedIsRequeued
CHECK_DEADLOCK FALSE
