\* Two versions of one environment, the second registered during an approval.
SPECIFICATION WorkflowSpec
CONSTANTS
    None = None
    alice = alice
    bob = bob
    AppIds = {app1}
    Environments = {dev, uat}
    Evidence = {e1, e2}
    GitRepositories = {g1}
    VersionIds = {v1, v2}
    EvaluationIds = {}
    PromotionIds = {p1}
    JobRunIds = {r1}
    Summaries = {}
    Decisions = {d1}
    Principals = {alice, bob}
    Administrators = {bob}
    Casefold <- MCCasefold
    Times = {1}
    MaxRowVersion = 3
    Threads = {t1}
    ReadyDecisions = {d1}
    Failures = FALSE
CHECK_DEADLOCK FALSE
PROPERTY ApprovedVersionIsCurrent
