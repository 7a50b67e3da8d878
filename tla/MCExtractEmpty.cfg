SPECIFICATION ReadersSpec
CONSTANTS
  Walk <- MCWalk
  Artifacts <- HollowArtifacts
  Tags = {"app", "pack"}
  History <- MCHistory
  Clients = {c1, c2}
  Questions <- MCQuestions
  Fetchers = {"default", "paths"}
  Refuses <- RefusesPlatform
  Read <- ReadLayers
  Offered <- OfferedBy
  Texts <- MCTexts
  FilePaths <- MCFilePaths
  Dotted = {"reg.io"}
  Ports = {"5000"}
INVARIANT RebuildsItself
CHECK_DEADLOCK FALSE
