\* Walks of every kind over a table that changes, and answers that fail.
SPECIFICATION SpecWalk
CONSTANTS
    None = None
    NaN = NaN
    i1 = i1
    i2 = i2
    i3 = i3
    t1 = t1
    n1 = n1
    n2 = n2
    Ids = {i1, i2, i3}
    Tenants = {t1}
    Names = {n1, n2}
    MaxClock = 0
    MaxInt = 32767
    Collation <- SmallCollation
    Queries <- ListQueries
    Bodies <- Writes
INVARIANTS
    TypeOK
    NothingTwice
    NothingMissed
    AnswerConsistent
