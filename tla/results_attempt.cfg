SPECIFICATION Spec
CONSTANTS
    a1 = a1
    a2 = a2
    a3 = a3
    g1 = g1
    g2 = g2
    None = None
    Pending = Pending
    Legacy = Legacy
    Scored = Scored
    Edited = Edited
    Attempts <- MCAttempts
    Gates <- MCGates
SYMMETRY AlikeSymmetry
INVARIANTS
    EvidenceIsNewest
    FinishedIsReadable
