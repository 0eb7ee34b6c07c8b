SPECIFICATION Spec
CONSTANTS
  SubDomain = {s1, s2}
  LayoutId = {layout1, layout2}
  DepthBound = 2
  ObjectBound = 9
INVARIANTS
  LevelSetsAlive
