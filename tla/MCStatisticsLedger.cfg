CONSTANTS
  Jobs = {j1, j2}
  HistoryLimit = 1
  Layers <- MCLayers
  MaxCrashes = 1
  MaxRequests = 1
SPECIFICATION Spec
CHECK_DEADLOCK FALSE
INVARIANTS CountedOnce SettledAccounts NeverLostNorRevived
PROPERTY EventuallyBooked
