SPECIFICATION MCSpec
CONSTANTS
  temperature = temperature
  workflow = workflow
  api = api
  NoTask = NoTask
  Tasks <- MCTasks
  Lease <- MCLease
INVARIANTS
  HighIsLeased
  CommandMatchesPin
PROPERTIES
  CutoffIsFinal
  EmergencyReachesLow
  HeatNeedsRenewal
  NoBlindStart
