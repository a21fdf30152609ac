SPECIFICATION ParserSpec
CONSTANTS
  Identifiers = {"a", "b", "f"}
  Functions = {"main", "f", "g"}
  MAX_SCOPE_DEPTH = 5
  Menus <- AllMenus
  MaxFunctions = 2
  ReturnError <- check_return_types
PROPERTIES
  PipeNamesAreNew
CHECK_DEADLOCK FALSE
