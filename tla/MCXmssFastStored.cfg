SPECIFICATION CrashSpec
CONSTANTS
  ParamSets <- MCParamSets
  Messages <- MCMessages
  m1 = m1
  NoOutput = NoOutput
  Overtime = 2
  MaxCrashes = 1
INVARIANTS
  OpensIffInRange
CHECK_DEADLOCK FALSE
