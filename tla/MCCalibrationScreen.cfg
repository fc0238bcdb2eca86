SPECIFICATION FairSpec
CONSTANTS
  p = p
  q = q
  Phones <- MCPhones
  Interval = 3
  Timeout = 3
  Lease = 9
  Low = 1
  High = 3
  First = 2
  MaxCals = 2
  MaxQueue = 2
  Worlds <- MCWorlds
INVARIANTS
  ResumedIsFresh
PROPERTIES
  LeaseIsKept
  AbandonedEnds
