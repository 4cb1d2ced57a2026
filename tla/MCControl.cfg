SPECIFICATION Spec
CONSTANTS
  c1 = c1
  p1 = p1
  p2 = p2
  NoPane = NoPane
  Clients = {c1}
  Panes = {p1, p2}
  SizeMax = 1000
  Low = 1
  High = 4
  WriteMinimum = 1
  Expand = 1
  AttachFlags = {{"pauseafter"}}
  ReplyMax = 5
  MaxBytes = 3
  MaxEvents = 2
SYMMETRY Symmetric
CHECK_DEADLOCK FALSE
INVARIANTS  ToldInOrder Served NotFarBehind
