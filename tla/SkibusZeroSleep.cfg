SPECIFICATION Spec
CONSTANTS
  L = 3
  Z = 2
  K = 2
  TL = 0
INVARIANT
  GateOwned
