SPECIFICATION Spec
CONSTANTS
  A = A
  A1 = A1
  A2 = A2
  A11 = A11
  A12 = A12
  m = m
  q = q
  r = r
  triangle = triangle
  quadrilateral = quadrilateral
  edge = edge
  vertex = vertex
  Cell <- MCCell
  Ancestors <- MCAncestors
  Patterns <- MCPatterns
  Tree <- MCTree
  SubDomain = {0, 1}
  Entity <- MCEntity
  GeometryType = {triangle, quadrilateral, vertex}
  TypeOf <- MCTypes
  CodimOf <- MCCodimOf
  Slot = {0, 1}
  Offset <- ArrayOffset
  Closure <- MCClosure
  MaxLevel = 2
  LevelSupport = TRUE
  Dimension = 2
  Supported = {0, 2}
  HostTypes <- MCHostTypes
INVARIANTS
  TypeOK
  NumberingInv
  IndicesConsecutive
  LevelsFollowLeaves
  CodimSizesCount
  SubEntitiesFollowCells
  SharedSubIndices
  SizesAgree
