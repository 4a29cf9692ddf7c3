CONSTANTS
    app = app
    alice = alice
    admin = admin
    release1 = release1
    release2 = release2
    thread1 = thread1
    thread2 = thread2
    green = green
    None = None
    AppIds = {app}
    Environments = {"dev", "uat"}
    Evidence <- MCEvidence
    GitRepositories = {"git"}
    VersionIds <- MCVersionIds
    EvaluationIds = {"r1", "r2"}
    PromotionIds = {"p1", "p2"}
    JobRunIds = {}
    Summaries = {}
    Decisions = {green}
    Principals = {alice, admin}
    Administrators = {admin}
    Casefold <- MCCasefold
    Times = {1}
    MaxRowVersion = 2
    Instances = {release1, release2}
    Threads = {thread1, thread2}
    InstanceOf <- MCInstanceOf
    Release <- MCRelease
    Requests <- MCRequests
SPECIFICATION Spec
INVARIANTS
    NoDeadlock
    InsertsNeverCollide
    NothingStale
PROPERTIES
    Implements
    ServesOwnSchema
