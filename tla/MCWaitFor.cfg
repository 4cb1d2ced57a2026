SPECIFICATION FairSpec
CONSTANTS
  Clients = {c1, c2}
  Global = Global
  NoClient = NoClient
  Channels = {ch1, ch2}
  Events = {e1}
CHECK_DEADLOCK FALSE
INVARIANTS TypeOK ItemsWakeable ChannelsSound
PROPERTIES  ImplementsPromise FlushWakes
