\* The whole life of one process.  It ends, so there is no deadlock to look for.
SPECIFICATION FairStartup
CONSTANTS
    c1 = c1
    c2 = c2
    Conns = {c1, c2}
    Configs <- EveryConfig
CHECK_DEADLOCK FALSE
INVARIANTS
    TypeOK
    ClosedOnlyWhenDrained
    NothingLeaks
    ServesAsConfigured
PROPERTIES
    ShutdownCompletes
    EnabledCacheStarts
