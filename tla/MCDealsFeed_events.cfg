SPECIFICATION Spec
CONSTANTS
    Page = "events"
    Docs <- Catalogue
    MaxDocs = 2
    MaxSnaps = 3
CHECK_DEADLOCK FALSE
INVARIANTS
    TypeOK
    NewestAtRest
    OneListWhenApart
PROPERTIES
    ImplementsView
    SnapshotShown
