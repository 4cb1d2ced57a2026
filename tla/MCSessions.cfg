SPECIFICATION Spec
CONSTANTS
  MaxSessions = 2
  Windows = {w1, w2}
  MaxIndex = 2
  MaxReferences = 4
  BaseIndex = 0
  Renumbering = {1}
  Monitored = {w1, w2}
SYMMETRY Symmetry
CONSTRAINT Bounded
CHECK_DEADLOCK FALSE
INVARIANTS PointersListed 
