SPECIFICATION FairSpec
CONSTANTS
  Digests <- MCDigests
  Concurrency = 2
  Packs <- MCPacks
  Served <- MCServed
  Leftover <- MCLeftover
  Size <- MCSize
  MayFail <- MCMayFail
  MayTimeOut <- MCMayTimeOut
INVARIANTS PackInvariant TaggedIsThePack ReportsTheFailure OneUploadPerDigest SlotsAreHeld
PROPERTIES LandsOnTop Termination
