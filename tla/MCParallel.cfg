SPECIFICATION SpecParallel
CONSTANTS
  A = A
  B = B
  C = C
  a = a
  b = b
  c = c
  v = v
  p = p
  q = q
  Rank = {A, B, C}
  Cell = {a, b, c}
  SubEntity = {v, p, q}
  Closure <- MCClosure
  Owner <- MCOwner
  Ghosts <- MCGhosts
  SubDomain = {0}
  CycleBound = 2
  MultiDomain = MultiDomain
  CallOn <- MCCallOn
  Order <- MCOrder
INVARIANTS
  CopiesAgree
  CopiesCover
  ChannelsInStep
  EachReadsItsOwn
  BalanceReadsItsOwn
  SavedIsShown
PROPERTIES
  EveryUpdateEnds
