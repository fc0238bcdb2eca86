SPECIFICATION FairSpec
CONSTANTS
  Manual = Manual
  Profiles <- OneProfile
  Cutoffs <- MCCutoffs
  Weights <- MCWeights
  NoWeight = NoWeight
  Keys = {k1, k2}
  NoKey = NoKey
  Calibrations = {c1}
  None = None
  MaxDuration = 4
  SettleLimit = 1
  Late = 1
INVARIANTS
  WarningIsOwn
  WeighsOnce
PROPERTIES
  ScaleKnowsStored
  ShotPromise
