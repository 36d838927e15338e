SPECIFICATION QuickSpec
CONSTANTS
    Handler = {w1, w2}
    NoHandler = NoHandler
    Settings <- ThreeSettings
    MaxJobs = 2
    MaxTries = 3
    Automatic = 2
INVARIANTS OutcomeFollowsUnit EvidenceExists
PROPERTIES ResultsAreStable
SYMMETRY HandlerSymmetry
CHECK_DEADLOCK FALSE
