SPECIFICATION SourceSpec
CONSTANTS
  Limit = 2
  MaxFiles = 2
  MaxLines = 2
  MaxSources = 3
CHECK_DEADLOCK FALSE
INVARIANTS  RunsInOrder
