CONSTANTS
  Parts = {"queue", "address", "single", "full"}
  Interface = {1, 2}
  SendsBroadcasts = {1, 2}
  Ticked = {1}
  Stable = {1}
  a = a
  Nobody = Nobody
  Peer = {a}
  Directory = Nobody
  Routes <- Changing
  OQ_MAX = 2
  MaxLength = 2
  Capacity = 1
  Sizes = {1}
  Copies = {1}
  MaxFrames = 3
  Sid <- Deep
  me <- x
  peer <- w
  Codes <- TwoCodes
  FullFrom = 3
  TicksPerFull = 2
  Frames <- NoFrames
  Fits = {TRUE}
  MaxInPacket = 0
  Everybody = Everybody
  NULL = NULL
SPECIFICATION Spec
INVARIANTS
  TypeOK
  BroadcastOnce
  FindIsExact
  
PROPERTIES
  CommittedToEveryInterface
CHECK_DEADLOCK FALSE
