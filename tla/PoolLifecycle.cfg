SPECIFICATION PoolFairSpec
CONSTANTS
    Stoppers = {s1, s2}
INVARIANTS
    OnlyDetachedSurvive
PROPERTIES
    ShutdownReturns ActorThreadEnds
\* start() and every shutdown() run once: the model comes to rest.
CHECK_DEADLOCK FALSE
