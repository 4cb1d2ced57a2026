SPECIFICATION Spec
CONSTANTS
  p1 = p1
  p2 = p2
  p3 = p3
  p4 = p4
  Panes = {p1, p2, p3, p4}
  NoPane = NoPane
  Widths = {4, 7}
  Heights = {3}
  Statuses = {"off", "top"}
  Hints <- Half
  Changes <- ByOne
  FloatSizes <- OneSize
  FloatChanges = {1}
  MainSizes = {2}
  MaxSteps = 5
SYMMETRY PaneSymmetry
CHECK_DEADLOCK FALSE
INVARIANTS
  
  PanesApart
