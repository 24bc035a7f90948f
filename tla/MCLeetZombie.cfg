SPECIFICATION Spec
CONSTANTS
  MAX_CLIENTS = 1
  Address = {a}
  None = None
  Local = Local
  master = master
  user = user
  bots = bots
  DiscPackets = 1
  MaxSessions = 2
  MayStop = FALSE
  HandshakesCanTimeOut = TRUE
INVARIANT SlotIsCleanForNewPlayer
CHECK_DEADLOCK FALSE
