SPECIFICATION Spec
CONSTANTS
  MaxAttempts = 2
  MaxCommands = 2
  ConnectTries = 1
  DisconnectTries = 1
  Nobody = Nobody
INVARIANT OldEndsAreGone
CHECK_DEADLOCK FALSE
