CONSTANTS
  p1 = p1  p2 = p2  p3 = p3  p4 = p4
  Null = Null
  Chunk = {1, 2, 3, 4, 5}
  C = 3
  Cell <- Cells
SPECIFICATION Spec
INVARIANTS TypeOK NoDanglingPointer MapAndListAgree
PROPERTY ImplementsLruOrder
