SPECIFICATION FairSpec
CONSTANTS
  PageSize = 2
  Null = Null
  MaxBoots = 2
  MaxShots = 2
  MaxSamples = 4
  MaxSaving = 2
  Worlds <- DroppingWorlds
PROPERTY
  Reconnects
CHECK_DEADLOCK FALSE
