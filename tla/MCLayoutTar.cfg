SPECIFICATION FairSpec
CONSTANTS
  Digests <- MCDigests
  Layers <- MCLayers
  Manifests <- MCManifests
  Indexes = {"idx"}
  References <- MCReferences
  Procs <- MeetProcs
  Command <- MeetCommand
  After <- MeetOrder
  Subject <- NoSubject
  Seeded = TRUE
  SeedIndex <- TarSeed
  MayCrash = {"copy2", "delete1"}
  MayFault = {"copy2", "delete1"}
  Parallel = 2
  Nobody = Nobody
INVARIANTS LayoutInvariant TaggedIsWhole
PROPERTIES OnlyNamedTagsMove EveryCommandEnds
