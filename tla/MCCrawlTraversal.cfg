SPECIFICATION CrawlSpec
CONSTANTS
    Handler = {w1, w2}
    NoHandler = NoHandler
    Url = {1, 2, 3, 4, 5}
    Invalid = 0
    Seeds <- TwoSeeds
    PageType <- Types
    Scope <- SiteScope
    Match <- SiteTypes
    Transition <- SiteTransitions
    PageBudget <- TwoOfEach
    Settings <- ThreeSettings
    MaxPages = 4
    MaxDepth = 2
    MaxBytes = 4
    MaxJobs = 3
    MaxTries = 2
    MaxGen = 2
INVARIANTS RowsAreTheTruth BudgetsHold SucceededIsComplete
PROPERTIES ResultsAreStable
SYMMETRY HandlerSymmetry
CHECK_DEADLOCK FALSE
