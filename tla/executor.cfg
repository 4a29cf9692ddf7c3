CONSTANTS
    sync = sync
    task1 = task1
    task2 = task2
    closer1 = closer1
    closer2 = closer2
    SyncOps = {sync}
    AsyncOps = {task1, task2}
    Closers = {closer1, closer2}
    MaxConcurrentOperations = 1
    MaxOperations = 2
    MaxPolls = 1
SPECIFICATION FairSpec
INVARIANTS
    NothingAfterClose
    NoSilentOrphans
    StatementsBounded
PROPERTY EverythingEnds
CHECK_DEADLOCK FALSE
