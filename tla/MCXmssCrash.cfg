SPECIFICATION SpecBoth
CONSTANTS
  ParamSets <- MCCrashSets
  Messages <- MCMessages
  m1 = m1
  NoOutput = NoOutput
  Overtime = 2
  MaxCrashes = 1
  SingleTreeCrashes = 3
INVARIANTS
  OneTimeKey
CHECK_DEADLOCK FALSE
