CONSTANTS
  None = None
  KeyError = KeyError
  Item = {1, 2, 3, 4}
  Value = {7, 8}
  MaxLen = 3
  Segments = 2
  Kind <- Kinds
  MaxTtl = 2
  Horizon = 2
  MaxFreq = 2
  MaxPuts = 4
SPECIFICATION Spec
INVARIANT TypeOK
INVARIANT PolicyStructuresAgree
INVARIANT WrapperFollowsPolicy
INVARIANT PurgeIsExact
INVARIANT PutTellsWhatLeft
INVARIANT LinkedSetIsALine
PROPERTY ImplementsEvictionOrder
