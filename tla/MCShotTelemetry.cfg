SPECIFICATION FairSpec
CONSTANTS
  PageSize = 2
  Null = Null
  MaxBoots = 2
  MaxShots = 2
  MaxSamples = 4
  MaxSaving = 2
  Worlds <- MCWorlds
INVARIANTS
  CursorIsStored
  PagesFit
PROPERTIES
  CompleteStays
  
CHECK_DEADLOCK FALSE
