SPECIFICATION FairSpec
CONSTANTS
  TargetType = "segment"
  Roborock = TRUE
  StartLimit = 2
  CancelLimit = 2
  ErrorLimit = 2
  GenericSettle = 1
  RoborockSettle = 2
  PostEmptySettle = 1
  Horizon = 2
  Reports <- RoborockReports
  QuietReports <- RoborockQuiet
INVARIANT
  TimersArmed
PROPERTIES
  CompletesOnlyAfterQuiet
  IncidentsResolve
  QuietResolves
