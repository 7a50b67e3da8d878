SPECIFICATION Spec
CONSTANTS
  Digests <- MCDigests
  Layers <- MCLayers
  Manifests <- MCManifests
  Indexes = {"idx"}
  References <- MCReferences
  Procs <- ReuseProcs
  Command <- ReuseCommand
  After <- ReuseOrder
  Subject <- NoSubject
  Seeded = TRUE
  SeedIndex <- UnpackSeed
  MayCrash = {}
  MayFault = {"delete1"}
  Parallel = 1
  Nobody = Nobody
INVARIANT TaggedIsWhole
