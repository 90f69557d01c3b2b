SPECIFICATION FairSpec
CONSTANTS
    api = api
    worker = worker
    worker2 = worker2
    Procs = {api, worker}
    HostOf <- OneHost
    WaitsFor <- NoOrder
    Head = 4
    Schemas = {0}
    Unversioned = FALSE
    MaxCrashes = 0
INVARIANTS VersionMatchesSchema

CHECK_DEADLOCK FALSE
