SPECIFICATION Spec
CONSTANTS
    Callers = {k1, k2, k3}
    NoCaller = NoCaller
    Capacity = 2
    old = old
    new = new
    patched = patched
    Processes = {old, new, patched}
    NoProcess = NoProcess
    Plan <- Builds
    t1 = t1
    t2 = t2
    a = a
    NoTask = NoTask
    j1 = j1
    j2 = j2
    c1 = c1
    Jobs = {j1, j2}
    Clients = {c1}
    JobOf <- Followed
    HubCapacity = 1
    Limit = 2
    MaxEvents <- EventBound
INVARIANTS ActorSafe ServesItsSchema
PROPERTIES CallsAreSerial EveryCallEnds OnlyServingWrites StoppingEnds EveryTaskEnds EveryEventOnce EventsAreShown
CHECK_DEADLOCK FALSE
