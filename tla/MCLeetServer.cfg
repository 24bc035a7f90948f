SPECIFICATION Spec
CONSTANTS
  MAX_CLIENTS = 1
  Address = {a, b}
  None = None
  Local = Local
  master = master
  user = user
  bots = bots
  DiscPackets = 2
  MaxSessions = 2
  MayStop = TRUE
  HandshakesCanTimeOut = TRUE
SYMMETRY Symmetry
INVARIANTS
  IInv
  SlaveKeepsItsSlot
  SlotsAreNotShared
  NoCircularWait
CHECK_DEADLOCK FALSE
