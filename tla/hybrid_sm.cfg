CONSTANTS
  None = None
  KeyError = KeyError
  Item = {1, 2, 3}
  MaxLen = 2
  Segments = 1
  NodeOrder <- Nodes
  RawPath <- ShortestPaths
  CacheOrder <- Caches
  Receiver = {1, 2}
  Source <- Sources
  Betweenness <- Centrality
  Delay <- Delays
  MaxStretch = 2
  Policy = "LRU"
  Strategies <- HybridSMOnly
  MaxSessions = 1
SPECIFICATION Spec
INVARIANT SessionsAreClosed
CHECK_DEADLOCK FALSE
