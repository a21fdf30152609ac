SPECIFICATION DLLSpec
CONSTANTS
  DLLCells = {1, 2, 3}
  DLLData = {x, y}
  DLLNull = null
  DLLFailed = failed
PROPERTY InsertsBeforeActive
CHECK_DEADLOCK FALSE
