CONSTANTS
  DayHours = 4
  Week = 2
  LastDate = 3
  Window = 3
  Prewarning = 1
  Rules <- MCRules
  Zones <- MCZones
  Schedules = {1}
  Horizon = 8
  Gaps = {0, 2, 5}
  MaxEdits = 2
  MaxStops = 1
SPECIFICATION MCSpec
CHECK_DEADLOCK FALSE
INVARIANTS SlotRunsOnce SlotsAccounted PlaceholderIsNext PlannerAgrees
