SPECIFICATION HandleFairSpec
CONSTANTS
  Callers = {c1, c2, c3}
  Templates = {1, 2}
  None = None
INVARIANTS NoLostWaiter NoLeakedEntry ClosedByGivingUp
PROPERTY EveryRequestReturns
\* Every call runs once: the model ends when all have returned.
CHECK_DEADLOCK FALSE
