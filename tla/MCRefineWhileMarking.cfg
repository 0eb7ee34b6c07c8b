SPECIFICATION Spec
CONSTANTS
  A = A
  A1 = A1
  A2 = A2
  A3 = A3
  A4 = A4
  A11 = A11
  A12 = A12
  A21 = A21
  A22 = A22
  Cell <- MCCell
  Ancestors <- MCAncestors
  Patterns <- MCPatterns
  Tree <- MCTree
  SubDomain = {0, 1}
  LevelSupport = TRUE
PROPERTIES
  AdaptationExcludesMarking
