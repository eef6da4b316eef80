------------------------------ MODULE Startup ------------------------------
(***************************************************************************)
(* Lifecycle with the configuration that main starts from: which step of   *)
(* the startup a configuration makes fail, and which repository the        *)
(* composition root builds from it.  Validation and wiring read the same   *)
(* configuration at different times, by different functions.               *)
(***************************************************************************)
EXTENDS Lifecycle

CONSTANT Configs   \* what config.yaml and the environment may say

\* tracer stands for the settings of go-sdk's tracer: do they pass its checks.
Config ==
    [port    : Int,
     tracing : [enabled : BOOLEAN, tracer : BOOLEAN],
     cache   : [enabled : BOOLEAN, ttl : Int, strategy : STRING]]

ASSUME ConfigsAssumption == Configs \subseteq Config

VARIABLES
    config,    \* cfg of main, once and for all
    repo       \* the category repository: "none" yet, "plain" or "cached"

wiring == <<config, repo>>
svars  == <<vars, wiring>>

InitStartup == Init /\ config \in Configs /\ repo = "none"

-----------------------------------------------------------------------------

Strategies == {"", "write_around", "write_through", "write_behind"}

\* CacheConfig.ResolveStrategy returns no error.
Resolves(cache) == cache.strategy \in Strategies

\* Mutants of the test below: zero is taken for a TTL, and the strategy is left
\* to ToOptions.
ZeroTTL(cache) == cache.enabled => cache.ttl >= 0 /\ Resolves(cache)
TTLOnly(cache) == cache.enabled => cache.ttl > 0

\* CacheConfig.Validate, through events.Config and FeatureConfig.
CacheValid(cache) == cache.enabled => cache.ttl > 0 /\ Resolves(cache)

ServerValid(port) == 0 < port /\ port <= 65535

TracingValid(tracing) == tracing.enabled => tracing.tracer

Validates ==
    /\ ServerValid(config.port)
    /\ CacheValid(config.cache)
    /\ TracingValid(config.tracing)

\* NewRepository, with the client that main opened.
NewRepository ==
    IF config.cache.enabled /\ resource["redis"] = "open" THEN "cached" ELSE "plain"

-----------------------------------------------------------------------------

Validated == LoadConfig /\ Validates /\ UNCHANGED wiring

Opens == OpenTracer \/ OpenDatabase \/ OpenRedis

\* ToOptions resolves the strategy, whether the cache is enabled or not.
Wired ==
    /\ Initialize /\ Resolves(config.cache)
    /\ repo' = NewRepository
    /\ UNCHANGED config

\* The files may be missing and the resources down.  A tracer that is disabled
\* does nothing that can fail, and Initialize fails only in ToOptions.
Panics ==
    /\ StartupFails
    /\ main = "tracer" => config.tracing.enabled
    /\ main = "init" => ~Resolves(config.cache)
    /\ UNCHANGED wiring

MainStartup ==
    \/ Validated \/ Wired \/ Panics
    \/ Opens /\ UNCHANGED wiring
    \/ Running /\ UNCHANGED wiring

NextStartup ==
    \/ MainStartup
    \/ ServeStep /\ UNCHANGED wiring
    \/ Environment /\ UNCHANGED wiring

SpecStartup == InitStartup /\ [][NextStartup]_svars

\* As in Lifecycle.
FairStartup ==
    /\ SpecStartup
    /\ WF_svars(MainStartup /\ ~Closing)
    /\ WF_svars(ServeStep /\ UNCHANGED wiring)

-----------------------------------------------------------------------------

\* A process that can take requests serves them from the repository that its
\* configuration asks for, and its cache, if it has one, forgets: what Validate
\* accepted at the beginning is what NewRepository builds at the end, so that a
\* cached category never outlives a positive TTL (cache_config.go:36-47,
\* base.go:53, main.go:52).
ServesAsConfigured ==
    bound =>
        /\ repo = IF config.cache.enabled THEN "cached" ELSE "plain"
        /\ repo = "cached" => config.cache.ttl > 0

\* Initialize never stops a startup whose cache is enabled: Validate has found
\* everything that ToOptions would, before any resource was opened
\* (main.go:52-54 and 106-108; cache_config.go:43).
EnabledCacheStarts ==
    [][main = "init" /\ outcome' = "panicked" => ~config.cache.enabled]_svars

\* No configuration that passed validation stops the startup in Initialize:
\* "It is a no-op when caching is disabled, since TTL/Strategy are meaningless
\* in that case" (cache_config.go:34-35).
ValidConfigStarts == [][~(main = "init" /\ outcome' = "panicked")]_svars

=============================================================================
