SPECIFICATION FairSpec
CONSTANTS
  Human = {h1, h2, h3}
  Bot = {b1, b2}
  None = None
  maxplayers = 2
  MinBots = 1
  BotsFill = 2
  BalanceBot = TRUE
  TeamBalance = "balance"
INVARIANTS
  AcceptedClientsFit
PROPERTIES
  BotsSettle
CHECK_DEADLOCK FALSE
