CONSTANTS
  Parts = {"vomp", "bindings", "monitor", "parser"}
  alice = alice
  bob = bob
  pcm = pcm
  Node <- Nodes
  Codec <- Codecs1
  Supported <- OneCodec
  VOMP_MAX_CALLS = 16
  Duplicates = TRUE
  FollowClock = FALSE
  Capacity = 4
  MaxSession = 3
  Dials <- AliceOnce
  Fickle <- JustBob
  m1 = m1
  MdpClient = {m1, m2}
  Path <- Paths
  Subscriber = {s1}
  AnySid = AnySid
  Port = {1, 2}
  MaxBindings = 3
  Client = {c1, c2, c3}
  NoClient = NoClient
  Flag = {"vomp"}
  AudioCodec = {}
  ClientCommand <- Commands
  FailsInCommand = FALSE
  MaxSockets = 2
  Message <- All
  Pieces = FALSE
  MaxSent = 3
  MaxLine = 4
  MaxData = 2
SPECIFICATION Spec
INVARIANTS
  
  CalledPartyAnswered
  OnlyGenuineCallsRing
  UniqueBinding
  NoClientLost
  
PROPERTIES
  KeepsBinding
  ContextFollows
