SPECIFICATION Spec
CONSTANTS
    Page = "lifestyle"
    Docs <- Catalogue
    MaxDocs = 1
    MaxSnaps = 1
CHECK_DEADLOCK FALSE
INVARIANT OwnDeals
