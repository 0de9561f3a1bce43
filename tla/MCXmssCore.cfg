SPECIFICATION Spec
CONSTANTS
  ParamSets <- MCParamSets
  Messages <- MCMessages
  m1 = m1
  m2 = m2
  NoOutput = NoOutput
  MaxCalls = 6
SYMMETRY MCSymmetry
INVARIANTS
  TypeOK
  OneTimeKey
  SignaturesOpen
  ExhaustedRejected
  AlteredRejected
PROPERTY
  ImplementsSigner
CHECK_DEADLOCK FALSE
