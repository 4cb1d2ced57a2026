SPECIFICATION Spec
CONSTANTS
  Clients = {"c1", "c2"}
  Names = {"root", "prefix", "copy", "own"}
  Keys = {"a", "r", "C-b"}
  Defaults <- Usual
  Rebindable <- Changing
  Options = {"own", "prefix"}
  Timeout = TRUE
  MaxTables = 6
  MaxEvents = 3
CHECK_DEADLOCK FALSE
INVARIANTS TablesSound ReturnsAfterKey 
