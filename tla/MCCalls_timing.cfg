CONSTANTS
  Parts = {"vomp"}
  alice = alice
  bob = bob
  pcm = pcm
  Node <- Nodes
  Codec <- Codecs1
  Supported <- OneCodec
  VOMP_MAX_CALLS = 2
  Duplicates = FALSE
  FollowClock = TRUE
  Capacity = 1
  MaxSession = 2
  Dials <- AliceOnce
  Fickle <- Nobody
  m1 = m1
  MdpClient = {m1, m2}
  Path <- Paths
  Subscriber = {s1}
  AnySid = AnySid
  Port = {1, 2}
  MaxBindings = 3
  Client = {c1, c2, c3}
  NoClient = NoClient
  Flag = {"vomp"}
  AudioCodec = {}
  ClientCommand <- Commands
  FailsInCommand = FALSE
  MaxSockets = 2
  Message <- Few
  Pieces = TRUE
  MaxSent = 1
  MaxLine = 4
  MaxData = 2
SPECIFICATION FairSpec
PROPERTIES
  CallsEnd
CHECK_DEADLOCK FALSE
