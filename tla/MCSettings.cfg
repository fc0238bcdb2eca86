SPECIFICATION Spec
CONSTANTS
  Bad = Bad
  Raw <- CooldownRaw
  TargetPairs <- TwoPairs
  DefaultTargets <- Factory
  SteamSettings <- QuickSteams
  DefaultSteam <- QuickSteam
  Candidates <- TwoCandidates
  Reference = 2
  BrewOver = 7
  SteamOver = 12
  RawOver = 12
  ReadyBand = 1
  ExtractionLift = 3
  HeatingTimeout = 1
  ReadyStability = 1
  SessionLease = 1
  LongestSteam = 1
  FailureStreak = 1
  Keys = {k1}
  NoKey = NoKey
  PumpLimit = 1
  Stabilization = 1
  Worlds <- SettingsWorlds
INVARIANTS
  HeatIsTimed
  AnswersAreTrue
  InhibitIsOwned
  PumpHasOneOwner
  CalibrationIsAlone
PROPERTIES
  AdoptsOnlyPersisted
