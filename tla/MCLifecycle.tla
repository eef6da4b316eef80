---------------------------- MODULE MCLifecycle ----------------------------
(***************************************************************************)
(* Two connections: one may hang while the other is answered.  For each    *)
(* setting of the configuration, values on both sides of its check.        *)
(***************************************************************************)
EXTENDS Startup

CONSTANTS c1, c2

Setting(port, tracing, tracer, cache, ttl, strategy) ==
    [port    |-> port,
     tracing |-> [enabled |-> tracing, tracer |-> tracer],
     cache   |-> [enabled |-> cache, ttl |-> ttl, strategy |-> strategy]]

EveryConfig ==
    {Setting(8080, FALSE, FALSE, cache, ttl, strategy) :
        cache \in BOOLEAN, ttl \in {-1, 0, 300}, strategy \in {"", "write_back"}}
    \cup {Setting(port, tracing, tracer, TRUE, 300, "write_through") :
        port \in {0, 1, 65535, 65536}, tracing \in BOOLEAN, tracer \in BOOLEAN}

\* The cache is off, with a strategy and a TTL that no enabled cache may have.
CacheOff ==
    {Setting(8080, FALSE, FALSE, FALSE, ttl, strategy) :
        ttl \in {0, 300}, strategy \in {"", "write_back"}}

=============================================================================
