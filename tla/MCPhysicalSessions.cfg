CONSTANTS
  Floor = {"sweeping"}
  Grace = 1
  Full = 3
  MaxRuns = 2
  MaxMishaps = 1
  MaxDrops = 2
SPECIFICATION MCSpec
CHECK_DEADLOCK FALSE
INVARIANTS RowsAreOutsideRuns SegmentsUnbroken
PROPERTY SessionCloses
