SPECIFICATION FairSpec
CONSTANTS
  MAX_CLIENTS = 1
  Address = {a}
  None = None
  Local = Local
  master = master
  user = user
  bots = bots
  DiscPackets = 1
  MaxSessions = 2
  MayStop = FALSE
  HandshakesCanTimeOut = FALSE
INVARIANT PlayersMatchSlots
PROPERTY SlotsAreReclaimed
CHECK_DEADLOCK FALSE
