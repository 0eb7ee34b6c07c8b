SPECIFICATION SpecAll
CONSTANTS
  Name = {x, y, z}
  maxSize = 3
  digits = 3
  Kind = "few"
  Count = 3
  MaxElements = 3
  MaxDomain = 4
INVARIANTS
  AllQueriesAgree
  ElementsKept
  LayoutOfFile
  CountersCover
PROPERTIES
  AllImplementSet
