SPECIFICATION Spec
CONSTANTS
  Targets <- ScanTargets
  MaxNoise = 0
INVARIANTS
  FilteredAfterTwoProbes
