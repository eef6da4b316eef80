--------------------------- MODULE StartupProofs ---------------------------
(***************************************************************************)
(* Startup, proved for any set of configurations: it is a Lifecycle, so    *)
(* that what LifecycleProofs shows holds of it, and what validation        *)
(* accepted is what the wiring builds.                                     *)
(***************************************************************************)
EXTENDS Startup, LifecycleProofs

\* A step of Startup is one of Lifecycle.
LEMMA StartupStep == [NextStartup]_svars => [Next]_vars
<1> SUFFICES ASSUME [NextStartup]_svars
             PROVE  [Next]_vars
  OBVIOUS
<1>1. CASE Validated \/ Wired \/ Panics
  BY <1>1 DEF Validated, Wired, Panics, Next, MainStep
<1>2. CASE Opens
  BY <1>2 DEF Opens, Next, MainStep
<1>3. CASE Running
  BY <1>3 DEF Next, MainStep
<1>4. CASE ServeStep \/ Environment
  BY <1>4 DEF Next
<1>5. CASE UNCHANGED svars
  BY <1>5 DEF svars
<1> QED
  BY <1>1, <1>2, <1>3, <1>4, <1>5 DEF NextStartup, MainStartup

\* Whatever is configured, the process lives as Lifecycle says: the theorems
\* about Lifecycle's Spec are about main with its configuration.
THEOREM ImplementsLifecycle == SpecStartup => Spec
<1>1. InitStartup => Init
  BY DEF InitStartup
<1> QED
  BY <1>1, StartupStep, PTL DEF SpecStartup, Spec

-----------------------------------------------------------------------------

Starting == {"config", "tracer", "db", "redis", "init"}

\* What validation established stays true on the way to the wiring and after
\* it, and Redis is open when the repository is built.
WiringInv ==
    /\ main \in Starting \ {"config"} \/ serve # "none" => CacheValid(config.cache)
    /\ main \in Starting => serve = "none" /\ outcome = "none"
    /\ main = "init" => resource["redis"] = "open"
    /\ serve = "none" => ~bound
    /\ serve # "none" => repo = IF config.cache.enabled THEN "cached" ELSE "plain"

\* Each step keeps WiringInv: Validated and Wired establish it.
LEMMA WiringStep == TypeOK /\ WiringInv /\ [NextStartup]_svars => WiringInv'
<1> SUFFICES ASSUME TypeOK, WiringInv, [NextStartup]_svars
             PROVE  WiringInv'
  OBVIOUS
<1> USE DEF WiringInv, Starting, wiring, server
<1>1. CASE Validated
  BY <1>1 DEF Validated, Validates, LoadConfig, Advance, CacheValid, Resolves
<1>2. CASE Wired
  <2>1. repo' = IF config.cache.enabled THEN "cached" ELSE "plain"
    BY <1>2 DEF Wired, Initialize, NewRepository
  <2> QED
    BY <1>2, <2>1 DEF Wired, Initialize, CacheValid, Resolves
<1>3. CASE Panics
  BY <1>3 DEF Panics, StartupFails, CacheValid, Resolves
<1>4. CASE Opens /\ UNCHANGED wiring
  <2>1. CASE OpenTracer \/ OpenDatabase
    BY <1>4, <2>1 DEF OpenTracer, OpenDatabase, Advance, CacheValid, Resolves
  <2>2. CASE OpenRedis
    <3>1. resource'["redis"] = "open"
      BY <2>2 DEF OpenRedis, Opened, TypeOK, Resources
    <3> QED
      BY <1>4, <2>2, <3>1 DEF OpenRedis, Advance, CacheValid, Resolves
  <2> QED
    BY <1>4, <2>1, <2>2 DEF Opens
<1>5. CASE Running /\ UNCHANGED wiring
  <2> USE DEF CacheValid, Resolves
  <2>1. CASE StartFails \/ Started \/ Return \/ Close \/ Exit
    BY <1>5, <2>1 DEF StartFails, Started, Return, Close, Exit, Advance
  <2>2. CASE OnSignal \/ OnServerError \/ Drained \/ DrainTimeout
    BY <1>5, <2>2 DEF OnSignal, OnServerError, Shutdown, Drained, DrainTimeout, Advance
  <2> QED
    BY <1>5, <2>1, <2>2 DEF Running
<1>6. CASE ServeStep /\ UNCHANGED wiring
  BY <1>6 DEF ServeStep, Listen, ServerClosed, ReportError, RestOfServer,
              CacheValid, Resolves
<1>7. CASE Environment /\ UNCHANGED wiring
  <2> USE DEF CacheValid, Resolves
  <2>1. CASE AcceptFails \/ Interrupt \/ Kill
    BY <1>7, <2>1 DEF AcceptFails, RestOfServer, Interrupt, Kill
  <2>2. ASSUME NEW c \in Conns, Connect(c) \/ Request(c) \/ Answer(c) \/ Hangup(c)
        PROVE  WiringInv'
    BY <1>7, <2>2 DEF Connect, Request, Answer, Hangup, Moves
  <2> QED
    BY <1>7, <2>1, <2>2 DEF Environment
<1>8. CASE UNCHANGED svars
  BY <1>8 DEF svars, vars, CacheValid, Resolves
<1> QED
  BY <1>1, <1>2, <1>3, <1>4, <1>5, <1>6, <1>7, <1>8 DEF NextStartup, MainStartup

\* Before anything has started, nothing needs to be valid.
LEMMA WiringInit == InitStartup => WiringInv
  BY DEF InitStartup, Init, WiringInv, Starting

\* The types of Lifecycle and WiringInv hold in every state.
LEMMA WiringHolds == SpecStartup => [](TypeOK /\ WiringInv)
<1>1. TypeOK /\ [NextStartup]_svars => TypeOK'
  BY StartupStep, TypeStep
<1>2. InitStartup => TypeOK
  BY TypeInit DEF InitStartup
<1> QED
  BY <1>1, <1>2, WiringInit, WiringStep, PTL DEF SpecStartup

\* A process that takes requests serves them from the repository that its
\* configuration asks for, and a cache has a positive TTL.
THEOREM ServesAsConfiguredHolds == SpecStartup => []ServesAsConfigured
<1>1. WiringInv => ServesAsConfigured
  BY DEF WiringInv, ServesAsConfigured, CacheValid
<1> QED
  BY <1>1, WiringHolds, PTL

\* Initialize never stops a startup whose cache is enabled.
THEOREM EnabledCacheStartsHolds == SpecStartup => EnabledCacheStarts
<1>1. TypeOK /\ WiringInv /\ [NextStartup]_svars =>
          [main = "init" /\ outcome' = "panicked" => ~config.cache.enabled]_svars
  <2> SUFFICES ASSUME WiringInv, NextStartup, main = "init", outcome' = "panicked"
               PROVE  ~config.cache.enabled
    OBVIOUS
  <2>1. outcome = "none" /\ CacheValid(config.cache)
    BY DEF WiringInv, Starting
  <2>2. CASE Panics
    BY <2>1, <2>2 DEF Panics, CacheValid
  <2>3. CASE Validated \/ Wired \/ Opens
    BY <2>1, <2>3 DEF Validated, LoadConfig, Wired, Initialize, Opens, OpenTracer,
                      OpenDatabase, OpenRedis, Advance
  <2>4. CASE Running
    BY <2>1, <2>4 DEF Running, StartFails, Started, OnSignal, OnServerError, Drained,
                      DrainTimeout, Return, Close, Exit, Advance
  <2>5. CASE ServeStep
    BY <2>1, <2>5 DEF ServeStep, Listen, ServerClosed, ReportError, RestOfServer
  <2>6. CASE Environment
    <3>1. CASE AcceptFails \/ Interrupt \/ Kill
      BY <2>1, <3>1 DEF AcceptFails, RestOfServer, Interrupt, Kill
    <3>2. ASSUME NEW c \in Conns, Connect(c) \/ Request(c) \/ Answer(c) \/ Hangup(c)
          PROVE  FALSE
      BY <2>1, <3>2 DEF Connect, Request, Answer, Hangup, Moves
    <3> QED
      BY <2>6, <3>1, <3>2 DEF Environment
  <2> QED
    BY <2>2, <2>3, <2>4, <2>5, <2>6 DEF NextStartup, MainStartup
<1> QED
  BY <1>1, WiringHolds, PTL DEF SpecStartup, EnabledCacheStarts

=============================================================================
