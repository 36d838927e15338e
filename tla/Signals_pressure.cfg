CONSTANTS
    Job = {j1}
    Thread = {p1, p2}
    MaxTurns = 2
SPECIFICATION FairSpec
INVARIANTS TurnsAreSignalled
PROPERTIES SignalledWakes
