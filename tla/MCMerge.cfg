SPECIFICATION MergeSpec
CONSTANTS
  MaxMem = 3
  MaxDoubts = 0
  MaxQuarantine = 1
  MaxAge = 0
  FloorAge = 0
  IdleAge = 0
  ReviewAge = 0
  MinCluster = 2
  PromoteUseful = 1
  MaxAsks = 0
  MaxDrafts = 1
  Facts = {"daily", "weekly"}
  Blank = "blank"
  Scopes <- MCScopes
  Chain <- MCChain
  Conflicts <- MCConflicts
  Tokenized <- MCTokenized
  TokenizingScopes = {}
  Episodes <- MCEpisodes
  Author <- MCAuthor
  Day <- MCDay
  SourceKind <- MCSourceKind
  Members = {"dana"}
  Directive = "ask"
  Agents = {"sage"}
  Users = {"dana"}
  Candidates <- MCMergeWrites
  Pins = {}
INVARIANTS HistoryResolves
PROPERTIES WeakestInput QuarantineNotRead DedupeSettles
CHECK_DEADLOCK FALSE
