\* Two requests at a time, to evaluate or to promote; the store may fail under them.
SPECIFICATION WorkflowSpec
CONSTANTS
    None = None
    alice = alice
    bob = bob
    AppIds = {app1}
    Environments = {dev, uat}
    Evidence = {e1, e2}
    GitRepositories = {g1}
    VersionIds = {v1, v2}
    EvaluationIds = {x1, x2}
    PromotionIds = {p1}
    JobRunIds = {r1, r2}
    Summaries = {}
    Decisions = {d1, d2, blocked}
    Principals = {alice, bob}
    Administrators = {alice, bob}
    Casefold <- MCCasefold
    Times = {1}
    MaxRowVersion = 3
    Threads = {t1, t2}
    ReadyDecisions = {d1, d2}
    Failures = TRUE
SYMMETRY ReviewSymmetry
CONSTRAINT OneWorkflow
CHECK_DEADLOCK FALSE
INVARIANTS LaunchedOnce RunsAccountedFor ApprovedOnSameEvidence
