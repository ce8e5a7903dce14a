CONSTANTS
  Parts = {"store", "fetch", "keyring", "config", "lookup", "observe"}
  daemon = daemon
  b1 = b1
  b2 = b2
  h1 = h1
  h2 = h2
  NoHash = NoHash
  Process = {daemon}
  Importer = {daemon}
  Bundle <- Bundles
  Hash <- Hashes
  Job <- Jobs
  FileService <- Bundles
  Name <- Names
  Faults = TRUE
  MaxRow = 4
  PeerBundle = {"a", "b", "c"}
  Version = {1, 2}
  Size <- Sizes
  Payload <- Shared
  Direct = TRUE
  Fault = {"connect"}
  MaxCandidates = 2
  MaxQueued = 3
  MaxManifests = 4
  Nothing = Nothing
  Proc = {"p", "q"}
  MaxSlot = 2
  PIN = {"", "1"}
  NoPIN = ""
  DidName = {"a", "b"}
  LongName = {}
  Garbled = "garbled"
  MaxIdentity = 3
  MaxChange = 2
  Solo = TRUE
  Editor = {"p", "q"}
  Var = {"a", "b"}
  Value = {"x", "y"}
  MaxVars = 2
  MaxEdits = 4
  OneEditor = TRUE
  Number = {1, 2, 3}
  Entrant = {1, 2}
  TooLong = {2}
  Life = 1
  MaxClock = 2
  MaxItems = 4
  Link = {"a", "b"}
  Period <- SamePeriod
  Slots = 4
  Delay = 1
  Modulus = 64
  MaxSeconds = 7
SPECIFICATION Spec
INVARIANTS
  TypeOK
  ManifestHasFile
  CountsOpenConnections
  IdentitiesAreKept
  LookupIsExact
  
PROPERTIES
  CommandsAreAtomic
CHECK_DEADLOCK FALSE
