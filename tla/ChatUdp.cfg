SPECIFICATION FairSpec
CONSTANTS
  Base = 2
  Retransmissions = 1
  MaxOut = 3
  TimeoutSet = TRUE
  SendMayFail = TRUE
  MaxCommands = 3
  MaxServer = 2
INVARIANTS
  TypeOK
  OpenOnlyAfterAccepted
  NothingBeforeAccepted
  AcceptedInv
PROPERTIES
  ConfirmedIdsWereSeen
  SendEnds
  LeavesOnError
