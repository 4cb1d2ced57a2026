SPECIFICATION FairSpec
CONSTANTS
  Writes = {3}
  Loads = {4}
  Inputs = {5}
  MaxPrints = 1
  MaxData = 1
  MaxFiles = 1
  MaxEvents = 2
INVARIANTS  FlushedBeforeExit 
CHECK_DEADLOCK FALSE
PROPERTY ClientEnds
