SPECIFICATION Spec
CONSTANTS
  client = client
  server = server
  small = small
  big = big
  NoMessage = NoMessage
  Station <- MCStation
  Peer <- MCPeer
  Message <- MCMessage
  Size <- MCSize
  MAXMSG = 2
  MAX_INCOMING_MESSAGES = 2
  MAX_PACKET_SIZE = 20
  MaxWrites <- MCMaxWrites
  MaxPackets <- MCMaxPackets
INVARIANTS
  AckedIsReceived
  WindowHasRoom
  SlotsHoldTheWindow
  QueueWaitsForAcks
  DatagramBounded
  SentIsEarlier
  IInv
PROPERTY ImplementsFifoChannel
CHECK_DEADLOCK FALSE
