SPECIFICATION Spec
CONSTANTS
  Digests <- MCDigests
  Layers <- MCLayers
  Manifests <- MCManifests
  Indexes = {"idx"}
  References <- MCReferences
  Procs <- SubjectProcs
  Command <- SubjectCommand
  After <- SubjectOrder
  Subject <- M1IsSubject
  Seeded = TRUE
  SeedIndex <- PairSeed
  MayCrash = {}
  MayFault = {}
  Parallel = 1
  Nobody = Nobody
INVARIANT SubjectsKept
