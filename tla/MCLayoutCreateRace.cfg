SPECIFICATION Spec
CONSTANTS
  Digests <- MCDigests
  Layers <- MCLayers
  Manifests <- MCManifests
  Indexes = {"idx"}
  References <- MCReferences
  Procs <- FreshProcs
  Command <- FreshCommand
  After <- FreshOrder
  Subject <- NoSubject
  Seeded = FALSE
  SeedIndex <- TarSeed
  MayCrash = {}
  MayFault = {}
  Parallel = 1
  Nobody = Nobody
PROPERTY OnlyNamedTagsMove
