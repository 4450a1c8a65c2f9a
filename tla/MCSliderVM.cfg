SPECIFICATION Spec
CONSTANTS
    Lists <- MCLists
    MaxControllers = 2
INVARIANTS
    OneThingAtATime
    TopmostIsWhole
    NeverSilent
    ControllerStays
PROPERTIES
    ListDrawn
CHECK_DEADLOCK FALSE
