CONSTANTS
    None = None
    group = group
    Keys = {"k1", "k2"}
    Versions = {1, 2, 3}
    Source <- MCSource
    Specs = {"explore", "strict", "reprompt"}
    Declared <- MCDeclared
    Texts = {"t1", "t2", "u1"}
    Inferences = {"prompt 1", "prompt 2"}
    Fields = {"issuer"}
    Strata = {"standard", "scan"}
    Weighted = group
    Approvers = {"owner"}
    Plans <- MCPlans
    Jobs = {"job1", "job2", "job3"}
    RunIds = {"run1", "run2"}
    RunIdOf <- MCRunIdOf
    Simulated = {"job1", "job2"}
    MaxRestarts = 1
SPECIFICATION Spec
INVARIANTS
    Provenance
    GovernedRows
    SpendWithinCeiling
    LandsOnce
    NoRollback
CHECK_DEADLOCK FALSE
