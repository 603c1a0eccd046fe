CONSTANTS
  n1 = n1  n2 = n2  n3 = n3  n4 = n4  c1 = c1  c2 = c2  c3 = c3
  NoTarget = NoTarget
  Node = {n1, n2, n3}
  Client = {c1, c2}
  At <- Apart
  Neighbour <- Triangle
  Fib <- FirstHop
  Dist <- Distance
  Name = {1}
  Size <- OneChunk
  Repos <- RepoAtN3
  C = 1
  DS = "lce"
  FS = "nrr1"
  Aggregation = TRUE
  TTL = 2
  TTL1 = 2
  TTL2 = 0
  SlowLinks = TRUE
  MaxRequests = 1
  MaxInFlight = 1
SPECIFICATION FairSpec
INVARIANT PitCsDisjoint
PROPERTY EveryDownloadEnds
CHECK_DEADLOCK FALSE
