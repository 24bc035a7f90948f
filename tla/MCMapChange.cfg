SPECIFICATION Spec
CONSTANTS
  Map = {m1, m2, m3}
  None = None
  InstalledMaps = {m1}
  Chunks = 2
  MaxChanges = 3
  MaxSessions = 2
INVARIANTS
  IInv
  ReadiesAreCounted
  PlayersHaveTheMap
  NobodyMisbehaves
  DownloadGoesOn
PROPERTIES
  PlayersGetIn
CHECK_DEADLOCK FALSE
