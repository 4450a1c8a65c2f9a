SPECIFICATION FairSpec
CONSTANTS
  Items = {0, 2, 7}
  MaxTaps = 2
  Hasty = FALSE
  Interrupts = {}
PROPERTIES
  ExitOnlyFromHome
