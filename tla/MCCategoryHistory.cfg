\* Overlapping requests, write_around, every fault: what answers show.
SPECIFICATION SpecHistory
CONSTANTS
    None = None
    i1 = i1
    t1 = t1
    n1 = n1
    n2 = n2
    r1 = r1
    r2 = r2
    Ids = {i1}
    Tenants = {t1}
    Names = {n1}
    Requests = {r1, r2}
    Inputs <- OneMove
    MaxClock = 1
    CacheEnabled = TRUE
    Strategy = "write_around"
    Faults = {"db_error", "lost_reply", "cache_error", "crash", "tenant_drop"}
SYMMETRY RequestSymmetry
INVARIANTS
    OnlyCommittedIsSeen
    NotFoundIsTrue
