SPECIFICATION PacingSpec
CONSTANTS
    t1 = t1
    t2 = t2
    t3 = t3
    t4 = t4
    a = a
    b = b
    NoTask = NoTask
    Tasks <- MCTasks
    Origins = {a, b}
    Target <- MCTarget
    Concurrency <- MCConcurrency
    Delay <- MCDelay
    Override = {t1}
    Capacity = 1
    CacheCapacity = 1
    CacheTTL = 1
    MaxDelay = 2
    BackoffBase = 1
    MaxBackoff = 2
    RetryAfters = {0, 2}
    Policies <- MCPolicies
    Cancellable = {t1}
INVARIANTS PacingSafe
PROPERTIES GrantsArePolite
CONSTRAINT Bounded
CHECK_DEADLOCK FALSE
SYMMETRY TaskSymmetry
