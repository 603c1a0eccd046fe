CONSTANTS
  Chunk = {1, 2, 3, 4, 5, 6}
  Rank <- Ranks
  C = 3
SPECIFICATION Spec
INVARIANT MapMatchesDeque
PROPERTY ImplementsContentStore
