SPECIFICATION ReloadSpec
CONSTANTS
  TargetType = "segment"
  Roborock = FALSE
  StartLimit = 1
  CancelLimit = 1
  ErrorLimit = 1
  GenericSettle = 1
  RoborockSettle = 1
  PostEmptySettle = 1
  Horizon = 1
  Reports <- StillDocked
  MaxCrashes = 0
  MaxReloads = 1
INVARIANT
  AtMostOneStart
