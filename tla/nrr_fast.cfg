CONSTANTS
  n1 = n1  n2 = n2  n3 = n3  n4 = n4  c1 = c1  c2 = c2  c3 = c3
  NoTarget = NoTarget
  Node = {n1, n2, n3}
  Client = {c1, c2}
  At <- Apart
  Neighbour <- Line3
  Fib <- FirstHop
  Dist <- Distance
  Name = {1}
  Size <- TwoChunks
  Repos <- RepoAtN3
  C = 1
  DS = "lce"
  FS = "nrr"
  Aggregation = TRUE
  TTL = 5
  TTL1 = 0
  TTL2 = 2
  SlowLinks = FALSE
  MaxRequests = 2
  MaxInFlight = 0
SPECIFICATION FairSpec
INVARIANTS RetargetedOnce NobodyForgotten
PROPERTY EveryDownloadEnds
CHECK_DEADLOCK FALSE
