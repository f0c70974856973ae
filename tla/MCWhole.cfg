SPECIFICATION Spec
CONSTANTS
  MaxMem = 2
  MaxDoubts = 1
  MaxQuarantine = 0
  MaxAge = 0
  FloorAge = 0
  IdleAge = 0
  ReviewAge = 0
  MinCluster = 2
  PromoteUseful = 1
  MaxAsks = 1
  MaxDrafts = 1
  Facts = {"daily", "weekly", "masked"}
  Blank = "blank"
  Scopes <- MCScopes
  Chain <- MCChain
  Conflicts <- MCConflicts
  Tokenized <- MCTokenized
  TokenizingScopes = {"workspace"}
  Episodes <- MCEpisodes
  Author <- MCAuthor
  Day <- MCDay
  SourceKind <- MCSourceKind
  Members = {"dana"}
  Directive = "ask"
  Agents = {"sage"}
  Users = {"mallory"}
  Candidates <- MCWholeWrites
  Pins = {"daily"}
INVARIANTS TypeOK Lineage ActiveIsEarned
PROPERTIES DeadStays
CHECK_DEADLOCK FALSE
