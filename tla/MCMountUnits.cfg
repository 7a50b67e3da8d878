SPECIFICATION PersistentSpec
CONSTANTS
  Images <- MCImages
  Volatile <- MCVolatile
  Binds <- MCBinds
  MaxLowers = 3
  MaxMounts = 2
INVARIANTS UnitsMount
CHECK_DEADLOCK FALSE
