\* One evaluation and one promotion while the store answers: both get launched.
SPECIFICATION FairWorkflowSpec
CONSTANTS
    None = None
    alice = alice
    bob = bob
    AppIds = {app1}
    Environments = {dev, uat}
    Evidence = {e1}
    GitRepositories = {g1}
    VersionIds = {v1}
    EvaluationIds = {x1}
    PromotionIds = {p1}
    JobRunIds = {r1, r2}
    Summaries = {}
    Decisions = {d1}
    Principals = {alice, bob}
    Administrators = {bob}
    Casefold <- MCCasefold
    Times = {1}
    MaxRowVersion = 3
    Threads = {t1, t2}
    ReadyDecisions = {d1}
    Failures = FALSE
CHECK_DEADLOCK FALSE
INVARIANT NothingStranded
PROPERTIES EvaluationsLaunched PromotionsLaunched
