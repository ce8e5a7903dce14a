CONSTANTS
  Parts = {"loop", "dna", "life", "starts", "mesh", "direct"}
  t1 = t1
  t2 = t2
  d1 = d1
  Alarm = {t1, t2}
  Descr = {d1}
  None = None
  MaxTime = 1
  MaxWatched = 1
  Active = TRUE
  Request <- Three
  Long <- TooLong
  EarlyDeath = FALSE
  MaxLines = 2
  NoRequest = NoRequest
  Pid = {1, 2, 3}
  Commands = {"start", "stop", "status"}
  MaxCommands = 2
  MaxCrashes = 1
  Respawn = TRUE
  Torn = TRUE
  MaxTries = 1
  Order <- ThreeNodes
  Topology <- Triangle
  FreshScore = 2
  OldScore = 2
  MaxLost = 1
  MaxBid = 2
  Span = 2
  Bins = 2
  MaxVersion = 2
  SizeBin <- SizeBins
  MaxBars = 2
  MaxReply = 3
  Spare = 2
  ReplyRoom = 9
  MaxTrouble = 1
SPECIFICATION FairSpec
INVARIANTS
  TypeOK
PROPERTIES
  
  HelperRecovers
  OneServerInTheEnd
  
  
CHECK_DEADLOCK FALSE
