SPECIFICATION StartFairSpec
CONSTANTS
  c1 = c1
  c2 = c2
  c3 = c3
  c4 = c4
  Processes = {c1, c2, c3, c4}
  Starters = {c1, c2, c3}
  NoServer = NoServer
  MaxFaults = 1
CHECK_DEADLOCK FALSE
INVARIANTS StartTypeOK Reachable
 
