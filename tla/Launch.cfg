SPECIFICATION Spec
CONSTANTS
    Entries = {"welcome", "phone", "edit"}
    MaxActs = 2
    MaxTries = 1
    MaxCopies = 2
INVARIANTS
    HomeRemembered
    HomeHasProfile
    StuckForAReason
PROPERTIES
    NoLateSignIn
    OnboardingOnce
    HomeReached
CHECK_DEADLOCK FALSE
