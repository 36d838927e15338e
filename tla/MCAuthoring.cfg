SPECIFICATION AuthoringSpec
CONSTANTS
    MaxVersions = 2
    MaxPages = 4
    MaxTransitions = 2
    MaxMatchers = 1
    MaxTests = 1
    TestedDefs = {}
    Attrs = {1, 2}
    Defs = {1, 2}
    Concurrent = FALSE
INVARIANTS VersionsAreWhole EvidenceKept
PROPERTIES PublishedFrozen CloneKeepsMeaning
CONSTRAINT Bounded
CHECK_DEADLOCK FALSE
