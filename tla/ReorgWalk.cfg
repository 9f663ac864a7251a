SPECIFICATION Spec
CONSTANTS
    g = g
    a1 = a1
    a2 = a2
    a3 = a3
    b1 = b1
    Shares <- MCShares
    Prev <- MCPrev
    Depth = 2
    Jobs = {j1}
    Walkers = {w1, w2}
    Zero = Zero
    None = None
INVARIANTS
    WalkCollectsAncestors
PROPERTIES
    SelectsByAncestry
\* Calls run once and the chain is bounded: the model may come to rest.
CHECK_DEADLOCK FALSE
