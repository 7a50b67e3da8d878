SPECIFICATION FairSpec
CONSTANTS
  Images <- MCImages
  Volatile <- MCVolatile
  Binds <- MCBinds
  MaxLowers = 3
  MaxMounts = 2
INVARIANTS StaysWithin TopLayerWins
PROPERTIES RemovedMeansBare FailureHasACause BareInTheEnd
CHECK_DEADLOCK FALSE
