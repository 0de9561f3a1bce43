SPECIFICATION Spec
CONSTANTS
  ParamSets <- MCParamSets
  Messages <- MCMessages
  m1 = m1
  NoOutput = NoOutput
  Overtime = 2
  MaxCrashes = 0
INVARIANTS
  StackBound
  StackAccounted
  InstancesOnTime
  OpensIffInRange
PROPERTIES
  ImplementsSigner
CHECK_DEADLOCK FALSE
