SPECIFICATION Spec
CONSTANTS
  small = small
  big = big
  Unused = Unused
  Message <- MCMessage
  Size <- MCSize
  MAXMSG = 3
  MAX_PACKET_SIZE = 20
  MaxWrites = 5
  MaxPackets = 3
INVARIANTS
  CountersMatchSlots
  LoopReleasesAcked
CHECK_DEADLOCK FALSE
