CONSTANTS
  Tasks = {t1, t2}
  Routes <- MCRoutes
  Policies <- MCPolicies
  Readiness <- MCReadiness
  Limits <- MCLimits
  Planned = 1
  Deadline = 3
  WaitDelay = 1
  ReminderEvery = 1
  Stability = 1
  Interval = 2
  Closing = 1
  Merge = 1
SPECIFICATION Spec
CHECK_DEADLOCK FALSE
INVARIANTS AtMostOnePush ForecastsSpaced RecoveryFollowsProblem
SYMMETRY MCSymmetry
