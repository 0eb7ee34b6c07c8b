SPECIFICATION SpecReaders
CONSTANTS
  A = A
  B = B
  C = C
  A1 = A1
  A2 = A2
  A3 = A3
  A4 = A4
  a0 = a0
  a1 = a1
  a2 = a2
  a3 = a3
  b0 = b0
  b1 = b1
  b2 = b2
  c1 = c1
  c2 = c2
  c3 = c3
  Nothing = Nothing
  Boundary = Boundary
  Cell = {A, B, C, A1, A2, A3, A4}
  Vertex = {a0, a1, a2, a3, b0, b1, b2, c1, c2, c3}
  Level <- MCLevel
  Father <- MCFather
  LevelVertices <- MCLevelVertices
  LeafVertices <- MCLeafVertices
  LevelFaces <- MCLevelFaces
  LeafFaces <- MCLeafFaces
  Order <- MCOrder
  maxLevel = 2
INVARIANT
  VisitsEveryInterface
