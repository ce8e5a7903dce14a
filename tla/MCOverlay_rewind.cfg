CONSTANTS
  Parts = {"address"}
  Interface = {1, 2}
  SendsBroadcasts = {1, 2}
  Ticked = {1}
  Stable = {1}
  a = a
  Nobody = Nobody
  Peer = {a}
  Directory = Nobody
  Routes <- Changing
  OQ_MAX = 1
  MaxLength = 2
  Capacity = 2
  Sizes = {1, 3}
  Copies = {1, 2}
  MaxFrames = 2
  Sid <- Wide
  me <- x
  peer <- w
  Codes <- NoCodes
  FullFrom = 0
  TicksPerFull = 1
  Frames <- Mixed
  Fits = {TRUE, FALSE}
  MaxInPacket = 2
  Everybody = Everybody
  NULL = NULL
SPECIFICATION Spec
INVARIANTS
  ReadAsWritten
