CONSTANTS
    Job = {j1}
    Thread = {p1}
    MaxTurns = 1
SPECIFICATION FairSpec
PROPERTIES CancelledWakes
