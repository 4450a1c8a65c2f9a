SPECIFICATION FairSpec
CONSTANTS
  Items = {0, 2, 6, 7}
  MaxTaps = 2
  Hasty = TRUE
  Interrupts = {"rotate", "kill"}
INVARIANTS
  NeverBlank
PROPERTIES
  PostedPageArrives
