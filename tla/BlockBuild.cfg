\* Everything happens once.
CHECK_DEADLOCK FALSE
SPECIFICATION Spec
SYMMETRY MCSymmetry
CONSTANTS
    RequestIds = {r1, r2}
    Jobs <- MCJobs
    Misread <- MCMisread
    Extranonces <- MCExtranonces
    Txids = {"a", "b", "c", "d"}
    TxLists <- MCTxLists
    Pmts <- MCPmts
    Versions = {1, 2}
    None = None
INVARIANTS SolvedBlockIsTheMinedOne DeclaredJobRebuilds HeaderCommitsToBodies ProposalIsWhatIsSolved ProposedRootIsMinable PathIdentifiesTransactions
