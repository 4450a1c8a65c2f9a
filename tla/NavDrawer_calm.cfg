SPECIFICATION FairSpec
CONSTANTS
  Items = {0, 2, 4, 6}
  MaxTaps = 3
  Hasty = FALSE
  Interrupts = {"rotate"}
INVARIANTS
  OnCourse
  TagHonest
PROPERTIES
  ExitOnlyFromHome
  IndexShown
