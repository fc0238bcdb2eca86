SPECIFICATION FairSpec
CONSTANTS
  MaxKeys = 2
  Worlds <- MCWorlds
INVARIANTS
  StartedOnce
PROPERTIES
  Refreshes
  CommandsReturn
CHECK_DEADLOCK FALSE
