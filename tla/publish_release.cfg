CONSTANTS
    Builds = {"build", "rebuild", "other"}
    Artifacts <- MCArtifacts
    DigestOf <- MCDigestOf
    MaxFaults = 4
    Corrupted = Corrupted
    None = None
SPECIFICATION FairSpec
INVARIANTS
    MarkedIsWhole
    PublishedStays
PROPERTY Resumed
