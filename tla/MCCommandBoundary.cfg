SPECIFICATION FairSpec
CONSTANTS
  TargetType = "segment"
  Roborock = FALSE
  StartLimit = 1
  CancelLimit = 1
  ErrorLimit = 1
  GenericSettle = 1
  RoborockSettle = 1
  PostEmptySettle = 1
  Horizon = 1
  Reports <- FewReports
  MaxCrashes = 1
INVARIANTS
  TypeOK
  AtMostOneStart
  StartedIsDurable
  WaitingWasNotStarted
PROPERTIES
  KeepsPromise
  PowerCancelResolves
