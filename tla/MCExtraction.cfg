SPECIFICATION FairSpec
CONSTANTS
  Episodes <- MCEpisodes
  Scopes = {"mr"}
  ScopeOf <- MCScopeOf
  Ingesters = {i1}
  Workers = {w1, w2}
  Admitted = {"reminder"}
  MaxCrashes = 1
  MaxTurns = 1
INVARIANTS ExtractionTypeOK NothingLost ErasureSpills
PROPERTIES NeverWaits ComesToRest
CHECK_DEADLOCK FALSE
