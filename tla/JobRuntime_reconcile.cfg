CONSTANTS
    Job = {1, 2}
    Run = {r1}
    ProductionRun = {r1}
    Worker = {w1}
    Priority = {0}
    Budget = {1}
    MaxGen = 1
    LeaseDuration = 1
    MaxTime = 0
    MaxCheckpoints = 1
    Requested = {"RETRY"}
    RetryDelay = 0
    Level = {"OK"}
    Schedule = {}
    NoRun = NoRun
    NoJob = NoJob
    NoLease = NoLease
SPECIFICATION RuntimeSpec
INVARIANTS StartupReconciles
