SPECIFICATION FairSpec
CONSTANTS
    Near = 3
    Far = 5
    HalfTurn = 3
    MaxTaps = 5
CHECK_DEADLOCK FALSE
INVARIANTS
    OpenIsVisible
    ClosedLeavesNoTrace
    EntriesApart
    OpensToHeight
PROPERTY ClosedDisappears
