SPECIFICATION IncidentSpec
CONSTANTS
  MaxMem = 4
  MaxDoubts = 0
  MaxQuarantine = 1
  MaxAge = 0
  FloorAge = 0
  IdleAge = 0
  ReviewAge = 0
  MinCluster = 2
  PromoteUseful = 2
  MaxAsks = 0
  MaxDrafts = 1
  Facts = {"daily", "weekly"}
  Blank = "blank"
  Scopes <- MCChannel
  Chain <- MCChannelChain
  Conflicts <- MCConflicts
  Tokenized <- MCTokenized
  TokenizingScopes = {}
  Episodes <- MCEpisodes
  Author <- MCAuthor
  Day <- MCDay
  SourceKind <- MCSourceKind
  Members = {"dana"}
  Directive = "ask"
  Agents = {"sage"}
  Users = {"mallory"}
  Candidates <- MCIncidentWrites
  Pins = {}
PROPERTIES QuarantineReaches ErasureReaches
CHECK_DEADLOCK FALSE
