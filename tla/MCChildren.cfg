SPECIFICATION FairSpec
CONSTANTS
  Panes = {p1, p2}
  Jobs = {j1}
  MaxPids = 2
  MaxUnread = 1
  MaxEvents = 2
  Remains = {"failed-key"}
CHECK_DEADLOCK FALSE
INVARIANTS TypeOK 
PROPERTIES OutputKept 
