SPECIFICATION Spec
CONSTANTS
  Digests <- SharedDigests
  Children <- SharedChildren
  Blobs <- SharedBlobs
  Honest <- SharedDigests
  Concurrency = 2
  Root = "index"
  MayFail = {}
  MayTimeOut = {"config"}
  Cancellable = FALSE
INVARIANTS ReportsTheFailure
