SPECIFICATION Spec
CONSTANTS
  Digests <- MCDigests
  Layers <- MCLayers
  Manifests <- MCManifests
  Indexes = {"idx"}
  References <- MCReferences
  Procs <- MakeProcs
  Command <- MakeCommand
  After <- MakeOrder
  Subject <- NoSubject
  Seeded = FALSE
  SeedIndex <- UnpackSeed
  MayCrash = {}
  MayFault = {}
  Parallel = 2
  Nobody = Nobody
INVARIANTS TaggedIsWhole UnfinishedIsInHand NothingLeaks MountedIsWhole
