CONSTANTS
  None = None
  KeyError = KeyError
  Item = {1, 2, 3, 4}
  Value = {7}
  MaxLen = 3
  Segments = 2
  Kind <- FifoWithTtl
  MaxTtl = 2
  Horizon = 3
  MaxFreq = 2
  MaxPuts = 6
SPECIFICATION Spec
INVARIANT InsertedOnce
