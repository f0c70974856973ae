SPECIFICATION MCSpec
CONSTANTS
  Forever = 99
  DefaultFloor = 30
  Scopes <- MCScopes
  Parent <- MCParent
  Family <- MCFamily
  Class <- MCClass
  Surface <- MCSurface
  NoScope = "none"
  NoSurface = "no surface"
  Org = "org"
  Users = {"dana"}
  Agents = {"sage"}
  Service = "consolidator"
  NoUser = "nobody"
  SubjectScope <- MCSubjectScope
  Paths = {"pay.py"}
  Globs = {}
  Fits <- MCFits
  GlobLength <- MCGlobLength
  Documents <- MCDocuments
  MaxMem = 1
  MaxAsks = 0
  FirstScopes <- MCFirstScopes
  FirstTuples <- MCFirstTuples
  Calls <- MCDenCalls
  Promotions <- MCNoPromotions
  Grants <- MCNoGrants
  PathSets = {}
  Synced = {"gitlab"}
  SyncScopes = {"den"}
  Reads <- MCSessionReads
  Bound = 1
  CycleTime = 1
  ReadTime = 1
  MaxEdits = 0
INVARIANTS FailsClosed
CHECK_DEADLOCK FALSE
