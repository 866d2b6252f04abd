CONSTANTS
  Name <- Modules
  Stage <- MCStage
  Debloat = "Debloat"
  Catalogs <- MCCatalogs
  Requests <- MCRequests
  Steps <- CallsOf
  Chained <- ChainedModules
  ByNameOnly <- MCByNameOnly
SPECIFICATION Spec
INVARIANT DestructiveHasItsOwnConsent
CHECK_DEADLOCK FALSE
