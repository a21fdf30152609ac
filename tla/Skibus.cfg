SPECIFICATION FairSpec
CONSTANTS
  L = 3
  Z = 2
  K = 2
  TL = 1
INVARIANTS
  IInv
  GateOwned
  TypeOK
  NoDataRace
  StopCountsAreExact
  BusDecidesRight
  DestroyedUnused
PROPERTY
  ImplementsLog
  EverySkierSkis
