SPECIFICATION PairingFairSpec
CONSTANTS
  p1 = p1
  p2 = p2
  d1 = d1
  d2 = d2
  a1 = a1
  a2 = a2
  Phones = {p1, p2}
  Devices = {d1, d2}
  Codes = {1, 2}
  FactoryCodes <- MCCodes
  Nobody = Nobody
  Unknown = Unknown
  MaxClients = 1
  MaxSessions = 1
  Worlds <- MCWorlds
INVARIANTS
  PairsTheChosen
  PairedIsStored
PROPERTIES
  BusyEnds
CHECK_DEADLOCK FALSE
