CONSTANTS
  n1 = n1  n2 = n2  n3 = n3  n4 = n4  c1 = c1  c2 = c2  c3 = c3
  NoTarget = NoTarget
  Node = {n1, n2, n3, n4}
  Client = {c1, c2, c3}
  At <- Spread
  Neighbour <- Line4
  Fib <- FirstHop
  Dist <- Distance
  Name = {1, 2}
  Size <- OneChunk
  Repos <- RepoAtN1
  C = 1
  DS = "lce"
  FS = "nrr"
  Aggregation = TRUE
  TTL = 10000
  TTL1 = 0
  TTL2 = 2
  SlowLinks = FALSE
  MaxRequests = 2
  MaxInFlight = 0
SPECIFICATION ZeroDelaySpec
INVARIANT QuietMeansDone
CHECK_DEADLOCK FALSE
