\* Startups with the cache off: a valid configuration may still not start.
SPECIFICATION SpecStartup
CONSTANTS
    c1 = c1
    c2 = c2
    Conns = {c1}
    Configs <- CacheOff
CHECK_DEADLOCK FALSE
PROPERTIES
    ValidConfigStarts
