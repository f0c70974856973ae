SPECIFICATION FairSweepSpec
CONSTANTS
  MaxMem = 2
  MaxDoubts = 0
  MaxQuarantine = 0
  MaxAge = 1
  FloorAge = 1
  IdleAge = 1
  ReviewAge = 1
  MinCluster = 2
  PromoteUseful = 2
  MaxAsks = 0
  MaxDrafts = 0
  Facts = {"daily", "weekly"}
  Blank = "blank"
  Scopes <- MCChannel
  Chain <- MCChannelChain
  Conflicts <- MCConflicts
  Tokenized <- MCTokenized
  TokenizingScopes = {}
  Episodes <- MCEpisodes
  Author <- MCAuthor
  Day <- MCDay
  SourceKind <- MCSourceKind
  Members = {"dana"}
  Directive = "ask"
  Agents = {"sage"}
  Users = {"dana"}
  Candidates <- MCTwoSidedWrites
  Pins = {"weekly"}
PROPERTIES FloorHeld HeldCloses StagedSettles EarnedRises
CHECK_DEADLOCK FALSE
