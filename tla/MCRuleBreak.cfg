\* One PUT after another, without faults.
SPECIFICATION Spec
CONSTANTS
    None = None
    i1 = i1
    t1 = t1
    n1 = n1
    n2 = n2
    r1 = r1
    r2 = r2
    Ids = {i1}
    Tenants = {t1}
    Names = {n1}
    Requests = {r1}
    Inputs <- Moving
    MaxClock = 1
    CacheEnabled = FALSE
    Strategy = "write_around"
    Faults = {}
PROPERTIES
    RuleBreakIsClientError
