SPECIFICATION Spec
CONSTANTS
    Docs <- MCDocs
    Responses <- MCResponses
    MaxDocs = 2
    MaxFragments = 2
INVARIANTS
    OwnCategory
    NewestFirst
    SlidesInBounds
    CrashCauses
PROPERTIES
    ShimmerEnds
CHECK_DEADLOCK FALSE
