SPECIFICATION Spec
CONSTANTS
  Name = {x}
  SubDomain = {0, 1, 2}
  maxSize = 3
  emptyTag = 3
PROPERTIES
  RemoveKeepsOthers
