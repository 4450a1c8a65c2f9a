SPECIFICATION FairSpec
CONSTANTS
  Rows = {0, 2, 4, 6, 8}
  Velocities <- MCVelocities
  Translations <- MCTranslations
  Hasty = FALSE
  MaxAnims = 2
INVARIANTS
  MenuAgrees
PROPERTIES
  RotationKeepsMenu
  RowCollapses
