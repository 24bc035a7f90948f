SPECIFICATION Spec
CONSTANTS
  Person = {a, b, c}
  None = None
  Rocket = {r1}
  maxplayers = 4
  MAX_PLAYERS = 6
  MaxPoints = 2
  VoteAnnounceInterval = 2
  Settings <- MCSettings
SYMMETRY Symmetry
CONSTRAINTS OneAtATime FewPlayers VotesAside
INVARIANTS
  TypeOK
  CarriersMatchFlags
  KillsAreCredited
  AssistantsHelped
  PlaqueIsQuiet
  GamesEnd
  VotesDecide
PROPERTIES
  ImplementsFlagGame
CHECK_DEADLOCK FALSE
