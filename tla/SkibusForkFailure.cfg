SPECIFICATION Spec
CONSTANTS
  L = 2
  Z = 1
  K = 2
  TL = 1
INVARIANT
  OnlyChildrenKilled
