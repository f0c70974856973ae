SPECIFICATION WriteSpec
CONSTANTS
  MaxMem = 3
  MaxDoubts = 0
  MaxQuarantine = 0
  MaxAge = 0
  FloorAge = 0
  IdleAge = 0
  ReviewAge = 0
  MinCluster = 2
  PromoteUseful = 2
  MaxAsks = 0
  MaxDrafts = 0
  Facts = {"daily", "weekly"}
  Blank = "blank"
  Scopes <- MCScopes
  Chain <- MCChain
  Conflicts <- MCConflicts
  Tokenized <- MCTokenized
  TokenizingScopes = {}
  Episodes <- MCEpisodes
  Author <- MCAuthor
  Day <- MCDay
  SourceKind <- MCSourceKind
  Members = {"dana"}
  Directive = "ask"
  Agents = {"sage"}
  Users = {"dana"}
  Candidates <- MCTwoScopeWrites
  Pins = {"weekly"}
INVARIANTS ContestOpen NoTwins HeldWaits TwoVoices
PROPERTIES NoAssassination PinsStand
CHECK_DEADLOCK FALSE
