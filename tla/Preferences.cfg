SPECIFICATION PrefFairSpec
CONSTANTS
    MaxRegistered = 2
    CallbacksCount = FALSE
    MaxCrashes = 1
    Ports = {3483, 9000}
    default_cfg_slim_port = 3483
    default_cfg_http_port = 9000
INVARIANTS TypeOK NothingElseMissing QuitClean ShownRuns
PROPERTY HostGetsBack
CHECK_DEADLOCK FALSE
