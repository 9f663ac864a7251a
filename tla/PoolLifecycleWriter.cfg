SPECIFICATION PoolFairSpec
CONSTANTS
    Stoppers = {s1}
PROPERTIES
    WriterJoins
\* Calls run once and the chain is bounded: the model may come to rest.
CHECK_DEADLOCK FALSE
