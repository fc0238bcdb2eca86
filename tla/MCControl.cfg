SPECIFICATION FairSpec
CONSTANTS
  Bad = Bad
  Raw <- MCRaw
  TargetPairs <- OnePair
  DefaultTargets <- Factory
  SteamSettings <- OneSteam
  DefaultSteam <- ShortSteam
  Candidates <- NoCandidates
  Reference = 2
  BrewOver = 7
  SteamOver = 12
  RawOver = 12
  ReadyBand = 1
  ExtractionLift = 3
  HeatingTimeout = 2
  ReadyStability = 1
  SessionLease = 2
  LongestSteam = 2
  FailureStreak = 2
  Keys = {k1}
  NoKey = NoKey
  PumpLimit = 1
  Stabilization = 1
  Worlds <- ControlWorlds
INVARIANTS
  DeadlineIsKept
PROPERTIES
  FaultOnlyHardens
  SteamEnds
  CooldownEnds
  AbandonedSessionEnds
