SPECIFICATION FairSpec
CONSTANTS
    Job = {1}
    Run = {r1}
    ProductionRun = {}
    Worker = {w1}
    Priority = {0}
    Budget = {3}
    MaxGen = 3
    LeaseDuration = 1
    MaxTime = 3
    MaxCheckpoints = 1
    Requested = {}
    RetryDelay = 1
    Level = {"OK"}
    Schedule = {}
    NoRun = NoRun
    NoJob = NoJob
    NoLease = NoLease
PROPERTIES CancellationTakesEffect ExpiredLeaseIsRecovered
