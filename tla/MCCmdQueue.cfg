SPECIFICATION FairSpec
CONSTANTS
  Clients = {c1}
  Global = Global
  NoClient = NoClient
  MaxItems = 4
  MaxSequence = 2
  Hooks <- AllHooks
CHECK_DEADLOCK FALSE
INVARIANTS TypeOK SequencesKept  QueuesAgree
  ReferencesExact
 
