SPECIFICATION FairSpec
CONSTANTS
  Digests <- LoopDigests
  Children <- LoopChildren
  Blobs <- LoopBlobs
  Honest <- LoopHonest
  Concurrency = 0
  Root = "index"
  MayFail <- LoopDigests
  MayTimeOut <- LoopDigests
  Cancellable = TRUE
INVARIANTS WalkInvariant ReturnInvariant
PROPERTY Termination
