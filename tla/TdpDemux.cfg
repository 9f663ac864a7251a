\* The tasks and everyone they talk to may stop for good.
CHECK_DEADLOCK FALSE
SPECIFICATION DemuxSpec
CONSTANTS
    MaxSent = 2
    MaxManager = 2
    MaxEngine = 1
    NoMsg = NoMsg
INVARIANTS EngineSeesFirst CutsShortOneClosedLane
PROPERTIES ForwardsTheStream StreamIsDrained LanesKeepOrder NoLaneStalls LeavesWhenClosed
