\* Registrations of up to four versions of two applications in two environments, three
\* evaluations of two versions, or two promotions reviewed by two administrators.
SPECIFICATION Spec
CONSTANTS
    None = None
    alice = alice
    Alice = Alice
    bob = bob
    app1 = app1
    g1 = g1
    d1 = d1
    AppIds = {app1, app2}
    Environments = {"dev", "uat"}
    Evidence = {e1, e2}
    GitRepositories = {g1, g2}
    VersionIds = {1, 2, 3, 4}
    EvaluationIds = {1, 2, 3}
    PromotionIds = {1, 2}
    JobRunIds = {}
    Summaries = {}
    Decisions = {d1, d2}
    Principals = {alice, Alice, bob}
    Administrators = {Alice, bob}
    Casefold <- MCCasefold
    Times = {1, 2}
    MaxRowVersion = 4
SYMMETRY Symmetry
CONSTRAINT OneWorkflow
CHECK_DEADLOCK FALSE
INVARIANTS
    CurrentVersionsAgree
    EvidenceRegisteredOnce
    RegistrationHistory
    OneActiveEvaluation
    EvaluationTrail
    OneActivePromotion
    OutcomeFinal
    PromotionTrail
    FourEyes
    
PROPERTIES
    SupersededForGood
    
