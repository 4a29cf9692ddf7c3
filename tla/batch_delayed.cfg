CONSTANTS
    None = None
    group = group
    Keys = {"k1"}
    Versions = {1, 2, 3}
    Source <- RevertedSource
    Specs = {"explore", "strict", "reprompt"}
    Declared <- MCDeclared
    Texts = {"t1", "t2", "u1"}
    Inferences = {"prompt 1", "prompt 2"}
    Fields = {"issuer"}
    Strata = {"standard", "scan"}
    Weighted = group
    Approvers = {"owner"}
    Plans <- Exploring
    Jobs = {"job1", "job2", "job3"}
    RunIds = {"run1", "run2", "run3"}
    RunIdOf <- MCNightlyRunIdOf
    Simulated = {}
    MaxRestarts = 0
SPECIFICATION Spec
INVARIANT NoRollback
CHECK_DEADLOCK FALSE
