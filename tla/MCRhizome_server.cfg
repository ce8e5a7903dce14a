CONSTANTS
  Parts = {"store", "retry", "fetch", "faulty", "direct", "forms", "various", "crossed"}
  daemon = daemon
  cli = cli
  b1 = b1
  b2 = b2
  h1 = h1
  h2 = h2
  NoHash = NoHash
  Process <- Processes
  Importer <- Daemon
  Bundle <- Bundles
  Hash <- Hashes
  Job <- Jobs
  FileService <- Bundles
  Name <- Names
  Faults = TRUE
  MaxRow = 4
  serverMode = TRUE
  Limit = 5
  Sleep = 1
  MaxBegin = 8
  MaxElapsed = 20
  PeerBundle <- Three
  Version = {1}
  Size <- Sizes
  Payload <- Shared
  Direct = FALSE
  Fault = {"connect"}
  MaxCandidates = 2
  MaxQueued = 2
  MaxManifests = 3
  Nothing = Nothing
  MaxBid = 3
  Span = 2
  Bins = 2
  MaxVersion = 2
  SizeBin <- SizeBins
  MaxBars = 2
  MaxReply = 3
  Spare = 4
  ReplyRoom = 9
  MaxTrouble = 1
  Fd = {1, 2}
  Request <- AllRequests
  Reads = {15, 99}
  MaxLine = 2
  Slack = 1
  BlobSize = 3
  BlockSize = 2
  FaviconSize = 2
  Rows = 2
  RowsFit = 2
  Disk = {TRUE}
  MinEnquiry = 2
  Missing = Missing
SPECIFICATION Spec
INVARIANTS
  TypeOK
  
  NoDanglingManifest
  
  
PROPERTIES
  
  CumulativeLatency
