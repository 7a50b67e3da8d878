SPECIFICATION Spec
CONSTANTS
  Digests <- MCDigests
  Layers <- MCLayers
  Manifests <- MCManifests
  Indexes = {"idx"}
  References <- MCReferences
  Procs <- TwiceProcs
  Command <- TwiceCommand
  After <- TwiceOrder
  Subject <- NoSubject
  Seeded = TRUE
  SeedIndex <- TarSeed
  MayCrash = {}
  MayFault = {}
  Parallel = 1
  Nobody = Nobody
PROPERTY OnlyNamedTagsMove
