CONSTANTS
  n1 = n1  n2 = n2  n3 = n3  n4 = n4  c1 = c1  c2 = c2  c3 = c3
  NoTarget = NoTarget
  Node = {n1, n2, n3, n4}
  Client = {c1, c2}
  At <- AtLeaves
  Neighbour <- Star4
  Fib <- FirstHop
  Dist <- Distance
  Name = {1}
  Size <- OneChunk
  Repos <- RepoAtN1N3
  C = 1
  DS = "lcd"
  FS = "parallel"
  Aggregation = TRUE
  TTL = 2
  TTL1 = 0
  TTL2 = 0
  SlowLinks = TRUE
  MaxRequests = 1
  MaxInFlight = 1
  PartialN = 2
  FirstNode = n1
  MaxCount = 3
SPECIFICATION AccSpec
INVARIANT CountersAgree
INVARIANT SharedCounterIsSum
CHECK_DEADLOCK FALSE
