SPECIFICATION Spec
CONSTANTS
  s1 = s1
  s2 = s2
  k1 = k1
  DayLength = 5
  Sensors <- MCSensors
  Conditions <- MCConditions
  Configs <- MCConfigs
  Horizon = 7
INVARIANT Punctual
PROPERTIES SettledIsContinuous FailIsFinal StartFitsWindow
CHECK_DEADLOCK FALSE
