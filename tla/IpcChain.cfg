SPECIFICATION FairSpec
CONSTANTS
    Readers = {r1, r2}
    MaxVersion = 2
    Capacity = 1
    Triggers = 1
    None = None
INVARIANTS
    HeightRefreshPending
PROPERTIES
    SnapshotNeverRegresses
    EveryReadReachesDaemon
    HangUpFailsReads
    ActorDeathCancelsPool
\* Calls run once and the chain is bounded: the model may come to rest.
CHECK_DEADLOCK FALSE
