SPECIFICATION Spec
CONSTANTS
  ParamSets <- MCStarvedSets
  Messages <- MCMessages
  m1 = m1
  NoOutput = NoOutput
  Overtime = 2
  MaxCrashes = 0
INVARIANTS
  SignaturesOpen
CHECK_DEADLOCK FALSE
