CONSTANTS
  None = None
  KeyError = KeyError
  Item = {1, 2, 3}
  MaxLen = 2
  Segments = 1
  NodeOrder <- Nodes
  RawPath <- ShortestPaths
  CacheOrder <- Caches
  Receiver = {1, 2}
  Source <- Sources
  Betweenness <- Centrality
  Delay <- Delays
  MaxStretch = 2
  Policy = "LRU"
  Strategies <- AllStrategies
  MaxSessions = 2
SPECIFICATION Spec
INVARIANT TypeOK
INVARIANT ServedOnce
INVARIANT ContentIsDelivered
INVARIANT SymmetricReturn
INVARIANT CachedWhereHashed
PROPERTY CopiesAreDelivered
CHECK_DEADLOCK FALSE
