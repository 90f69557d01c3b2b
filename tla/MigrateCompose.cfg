SPECIFICATION FairSpec
CONSTANTS
    api = api
    worker = worker
    worker2 = worker2
    Procs = {api, worker, worker2}
    HostOf <- OwnHosts
    WaitsFor <- ComposeOrder
    Head = 4
    Schemas = {0, 1, 2, 3, 4}
    Unversioned = TRUE
    MaxCrashes = 2
INVARIANTS TypeOK VersionMatchesSchema ReadyMeansMigrated
PROPERTIES EveryProcessReady
CHECK_DEADLOCK FALSE
