SPECIFICATION MCSpec
CONSTANTS
  Forever = 99
  DefaultFloor = 30
  Scopes <- MCScopes
  Parent <- MCParent
  Family <- MCFamily
  Class <- MCClass
  Surface <- MCSurface
  NoScope = "none"
  NoSurface = "no surface"
  Org = "org"
  Users = {"dana", "sam"}
  Agents = {"sage"}
  Service = "consolidator"
  NoUser = "nobody"
  SubjectScope <- MCSubjectScope
  Paths = {"pay.py"}
  Globs = {"pay*"}
  Fits <- MCFits
  GlobLength <- MCGlobLength
  Documents <- MCDocuments
  MaxMem = 2
  MaxAsks = 1
  FirstScopes <- MCFirstScopes
  FirstTuples <- MCFirstTuples
  Calls <- MCCalls
  Promotions <- MCPromotions
  Grants <- MCGrants
  PathSets <- MCPathSets
  MaxEdits = 2
INVARIANTS GovernanceTypeOK
PROPERTIES PrivateStays VetoesHold EnrolledOnly NamesNeedSight
CHECK_DEADLOCK FALSE
