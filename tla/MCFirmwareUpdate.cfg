SPECIFICATION FairSpec
CONSTANTS
  Tools = {t1, t2}
  Chunks = 2
  Codes = 2
  Connections = 2
  Worlds <- MCWorlds
INVARIANTS
  AcceptedIsCommitted
  FallbackIsWhole
PROPERTIES
  UpdatesEnd
CHECK_DEADLOCK FALSE
