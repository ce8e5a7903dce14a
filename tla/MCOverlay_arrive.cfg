CONSTANTS
  Parts = {"queue", "address"}
  Interface = {1, 2}
  SendsBroadcasts = {1, 2}
  Ticked = {1}
  Stable = {1}
  a = a
  Nobody = Nobody
  Peer = {a}
  Directory = Nobody
  Routes <- Changing
  OQ_MAX = 1
  MaxLength = 2
  Capacity = 2
  Sizes = {1, 3}
  Copies = {1, 2}
  MaxFrames = 2
  Sid <- Wide
  me <- x
  peer <- w
  Codes <- OneCode
  FullFrom = 3
  TicksPerFull = 1
  Frames <- JustToPeer
  Fits = {TRUE}
  MaxInPacket = 1
  Everybody = Everybody
  NULL = NULL
SPECIFICATION FairSpec
PROPERTIES
  QueueDrains
  EventuallyUnderstood
CHECK_DEADLOCK FALSE
