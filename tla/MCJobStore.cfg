CONSTANTS
    Job = {1, 2, 3}
    Run = {r1}
    ProductionRun = {r1}
    Worker = {w1, w2}
    Priority = {0}
    Budget = {1, 2}
    MaxGen = 2
    LeaseDuration = 2
    MaxTime = 2
    MaxCheckpoints = 2
    Requested = {"RETRY", "RESUME_CHECKPOINT"}
    NoRun = NoRun
    NoJob = NoJob
    NoLease = NoLease
    w1 = w1
SPECIFICATION MCSpec
INVARIANTS QueueConsistent LineageConsistent
PROPERTIES AttemptHistoryImmutable AuthorityNeverRegained ImplementsLifecycle
CHECK_DEADLOCK FALSE
