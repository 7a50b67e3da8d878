SPECIFICATION Spec
CONSTANTS
  Digests <- MCDigests
  Concurrency = 2
  Packs <- MCPacks
  Served <- MCServed
  Leftover <- MCLeftover
  Size <- MCSize
  MayFail <- MCMayFail
  MayTimeOut <- MCMayTimeOut
INVARIANT NeverTheCancellation
