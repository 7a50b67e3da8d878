SPECIFICATION Spec
CONSTANTS
  Digests <- MCDigests
  Layers <- MCLayers
  Manifests <- MCManifests
  Indexes = {"idx"}
  References <- MCReferences
  Procs <- FreshProcs
  Command <- MixedCommand
  After <- FreshOrder
  Subject <- NoSubject
  Seeded = FALSE
  SeedIndex <- TarSeed
  MayCrash = {}
  MayFault = {"copy1"}
  Parallel = 2
  Nobody = Nobody
INVARIANTS UnfinishedIsInHand UnopenableIsUnmade
