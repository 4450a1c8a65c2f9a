SPECIFICATION FairSpec
CONSTANTS
  Rows = {0, 2}
  Velocities <- MCVelocities
  Translations <- MCTranslations
  Hasty = TRUE
  MaxAnims = 2
PROPERTIES
  RotationKeepsMenu
