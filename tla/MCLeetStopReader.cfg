SPECIFICATION Spec
CONSTANTS
  MaxAttempts = 1
  MaxCommands = 2
  ConnectTries = 1
  DisconnectTries = 1
  Nobody = Nobody
PROPERTY StopQuitsReader
CHECK_DEADLOCK FALSE
