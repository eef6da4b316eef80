\* Sequential requests of every kind against the atomic store.
SPECIFICATION Spec
CONSTANTS
    None = None
    i1 = i1
    t1 = t1
    n1 = n1
    n2 = n2
    r1 = r1
    r2 = r2
    Ids = {i1}
    Tenants = {t1}
    Names = {n1, n2}
    Requests = {r1}
    Inputs <- AllKinds
    MaxClock = 2
    CacheEnabled = TRUE
    Strategy = "write_through"
    Faults = {"db_error"}
PROPERTIES
    ServesAtomicStore
