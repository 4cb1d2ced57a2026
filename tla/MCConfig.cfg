SPECIFICATION FairSpec
CONSTANTS
  Clients = {c1, c2, c3}
  NoClient = NoClient
  Nested = {c3}
  Losable = {c1, c2, c3}
CHECK_DEADLOCK FALSE
INVARIANTS LoadingSound
PROPERTIES LoadingEnds
