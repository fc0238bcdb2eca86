SPECIFICATION FairSpec
CONSTANTS
  Raws <- MCRaws
  Ambient = 0
  BrewOver = 4
  SteamOver = 6
  RawOver = 7
  ReadyBand = 0
  ReadyHold = 1
  Lift = 1
  Reference = 3
  Candidates <- MCCandidates
  TargetPairs <- MCTargets
  FactoryTargets <- Factory
  SteamSettings <- MCSteam
  FactorySteam <- Slow
  Lease = 2
  PumpLimit = 2
  Stabilization = 1
  ShotLimit = 4
  SettleLimit = 1
  Manual = Manual
  Profiles <- MCProfiles
  Cutoffs <- MCCutoffs
  NoWeight = NoWeight
  Weights <- MCWeights
  Keys = {k1, k2}
  NoKey = NoKey
  BrewRange <- MCBrewRange
  SteamRange <- MCSteamRange
  OffsetRange <- MCOffsets
  CandidateRange <- MCCandidateRange
  MaxTimeout = 2
  MaxCompensation = 1
  Null = Null
  Horizon = 2
  MaxId = 2
  Routes <- MCRoutes
INVARIANTS
  AnswersFit
  SteamTimerIsTrue
PROPERTIES
  WorkflowsEnd
