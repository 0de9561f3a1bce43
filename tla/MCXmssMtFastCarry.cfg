SPECIFICATION Spec
CONSTANTS
  ParamSets <- MCCarrySets
  Messages <- MCMessages
  m1 = m1
  NoOutput = NoOutput
  Overtime = 2
  MaxCrashes = 0
INVARIANTS
  WorkBounded
CHECK_DEADLOCK FALSE
