SPECIFICATION Spec
CONSTANTS
  Human = {h1, h2, h3}
  Bot = {b1, b2}
  None = None
  maxplayers = 4
  MinBots = 1
  BotsFill = 2
  BalanceBot = FALSE
  TeamBalance = "shuffle"
SYMMETRY Symmetry
INVARIANTS
  CountsMatchPlayers
PROPERTIES
  ChangesKeepBalance
  ThinkUsesBots
CHECK_DEADLOCK FALSE
