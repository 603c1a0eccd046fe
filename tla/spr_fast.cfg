CONSTANTS
  n1 = n1  n2 = n2  n3 = n3  n4 = n4  c1 = c1  c2 = c2  c3 = c3
  NoTarget = NoTarget
  Node = {n1, n2, n3}
  Client = {c1, c2}
  At <- Apart
  Neighbour <- Line3
  Fib <- FirstHop
  Dist <- Distance
  Name = {1, 2}
  Size <- OneChunk
  Repos <- RepoAtN3
  C = 1
  DS = "lce"
  FS = "spr"
  Aggregation = TRUE
  TTL = 3
  TTL1 = 0
  TTL2 = 0
  SlowLinks = FALSE
  MaxRequests = 2
  MaxInFlight = 0
SPECIFICATION FairSpec
INVARIANTS TypeOK PitCsDisjoint NobodyForgotten OneAnswerPerRequest NoneExpires
PROPERTY EveryDownloadEnds
CHECK_DEADLOCK FALSE
