SPECIFICATION FairSpec
CONSTANTS
  Targets <- ScanTargets
  MaxNoise = 1
INVARIANTS
  ScanInv
  ReportedInOrder
  AtMostTwoProbes
  VerdictsRight
PROPERTIES
  ScanEnds
