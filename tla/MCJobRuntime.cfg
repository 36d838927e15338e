SPECIFICATION RuntimeSpec
CONSTANTS
    Job = {1, 2}
    Run = {r1, r2, q1}
    ProductionRun = {r1, r2}
    Worker = {w1}
    Priority = {0}
    Budget = {1, 2}
    MaxGen = 2
    LeaseDuration = 1
    MaxTime = 2
    MaxCheckpoints = 2
    Requested = {"RETRY", "RETRY_FAILED_PARTS", "RESUME_CHECKPOINT", "RESTART_FROM_BEGINNING", "RERUN_FULL_CRAWL"}
    RetryDelay = 1
    Level = {"OK", "CRITICAL"}
    Schedule = {1}
    NoRun = NoRun
    NoJob = NoJob
    NoLease = NoLease
INVARIANTS RuntimeSafe NeverContradicted RetriesContradictNothing
PROPERTIES RefinesStore
SYMMETRY RunSymmetry
CHECK_DEADLOCK FALSE
CONSTRAINT Bounded
