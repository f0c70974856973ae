SPECIFICATION FairSpec
CONSTANTS
  Episodes <- MCEpisodes
  Scopes = {"mr"}
  ScopeOf <- MCScopeOf
  Ingesters = {i1, i2}
  Workers = {w1, w2}
  Admitted = {"reminder"}
  MaxCrashes = 0
  MaxTurns = 0
PROPERTIES NeverWaits
CHECK_DEADLOCK FALSE
