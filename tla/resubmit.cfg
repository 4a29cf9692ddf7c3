\* One version whose evidence changes between the request and its approval.
SPECIFICATION WorkflowSpec
CONSTANTS
    None = None
    alice = alice
    bob = bob
    AppIds = {app1}
    Environments = {dev, uat}
    Evidence = {e1}
    GitRepositories = {g1}
    VersionIds = {v1}
    EvaluationIds = {}
    PromotionIds = {p1}
    JobRunIds = {r1}
    Summaries = {}
    Decisions = {d1, d2}
    Principals = {alice, bob}
    Administrators = {bob}
    Casefold <- MCCasefold
    Times = {1}
    MaxRowVersion = 3
    Threads = {t1}
    ReadyDecisions = {d1, d2}
    Failures = FALSE
CHECK_DEADLOCK FALSE
INVARIANT NewRequestPossible
