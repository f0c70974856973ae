SPECIFICATION MCSpec
CONSTANTS
  Txns = {t1, t2, t3}
  ChainedScopes = {dana, sam}
  MaxEvents = 4
  s1 = s1
  s2 = s2
  s3 = s3
  Sessions <- MCSessions
  HashedScopes = {"dana"}
  Requests <- MCRequests
  Asked <- MCAsked
  MemoryScope = "dana"
PROPERTIES MarkerRemains
CHECK_DEADLOCK FALSE
