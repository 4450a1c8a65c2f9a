SPECIFICATION Spec
CONSTANTS
    Count = 2
    MaxTaps = 4
    a = a
    b = b
    Items = {a, b}
    Lists <- MCLists
    MaxCells = 2
    MaxAsked = 1
INVARIANTS
    RestShowsPage
    OnlyKnownCrashes
    CellsFollowList
    OwnImageUnlessOvertaken
PROPERTIES
    OpensApp
CHECK_DEADLOCK FALSE
