SPECIFICATION Spec
CONSTANTS
  Digests <- MCDigests
  Layers <- MCLayers
  Manifests <- MCManifests
  Indexes = {"idx"}
  References <- MCReferences
  Procs <- RerunProcs
  Command <- RerunCommand
  After <- RerunOrder
  Subject <- NoSubject
  Seeded = FALSE
  SeedIndex <- UnpackSeed
  MayCrash = {"first"}
  MayFault = {}
  Parallel = 1
  Nobody = Nobody
INVARIANT TaggedIsWhole
