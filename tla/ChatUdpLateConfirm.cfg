SPECIFICATION Spec
CONSTANTS
  Base = 2
  Retransmissions = 1
  MaxOut = 3
  TimeoutSet = TRUE
  SendMayFail = FALSE
  MaxCommands = 2
  MaxServer = 2
INVARIANTS
  ErrorOnlyFromServer
