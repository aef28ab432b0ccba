SPECIFICATION Spec
CONSTANTS
  Params = 2
  Passes = 2
  Values = {planned, mine, theirs}
  Planned = planned
  Unset = Unset
  MaxGlitches = 1
  MaxCrashes = 2
INVARIANTS
  RestoredIfRemembered
  SpeakerRestored
PROPERTIES
  UserChoiceSurvives
  NotRestoredWhileUp
