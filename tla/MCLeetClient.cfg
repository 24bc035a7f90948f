SPECIFICATION Spec
CONSTANTS
  MaxAttempts = 2
  MaxCommands = 2
  ConnectTries = 1
  DisconnectTries = 1
  Nobody = Nobody
INVARIANTS
  IInv
  ReadersAreJoined
  JoinsAreSound
  GameKnows
  ConnectorsAreWaitedFor
CHECK_DEADLOCK FALSE
