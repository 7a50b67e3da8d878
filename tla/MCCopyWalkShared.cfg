SPECIFICATION FairSpec
CONSTANTS
  Digests <- SharedDigests
  Children <- SharedChildren
  Blobs <- SharedBlobs
  Honest <- SharedDigests
  Concurrency = 2
  Root = "index"
  MayFail = {"config", "layer", "arm"}
  MayTimeOut = {}
  Cancellable = FALSE
INVARIANTS OneOwnerPerDigest SlotsAreTransfers SettledIsComplete ReportsTheFailure NothingLeftRunning
PROPERTIES ChildrenFirst Termination ImplementsTransfer
