\* Tokens run out.
CHECK_DEADLOCK FALSE
SPECIFICATION Spec
CONSTANTS
    alice = alice
    bob = bob
    carol = carol
    Tokens = {t1, t2, t3, t4}
    Users <- MCUsers
    Names <- MCNames
    Normalize <- MCNormalize
    Empty = Empty
    Known <- MCKnown
    Fitting <- MCFitting
    None = None
SYMMETRY MCSymmetry
INVARIANTS BindingMatchesReply EvictionIsComplete TwoBindingsOnlyByOverlap
