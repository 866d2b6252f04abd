CONSTANTS
  a = a
  b = b
  c = c
  Name <- MCName
  Stage <- MCStage
  Debloat = none
  Catalogs <- MCCatalogs
  Requests <- MCRequests
  Steps <- MCSteps
  Chained = {b}
SPECIFICATION Spec
INVARIANTS
  TypeOK
  SoundPlan
  VerdictIsHonest
  ChainStopsAtFirstFailure
PROPERTIES
  StagedSpec
  PlanningEnds
CHECK_DEADLOCK FALSE
