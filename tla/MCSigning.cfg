SPECIFICATION SpecParts
CONSTANTS
  ParamSets <- MCParamSets
  Addresses <- MCAddresses
  OtherBytes <- MCOtherBytes
  Programs <- MCPrograms
  BodyLen = 4
  MaxMlen = 7
  TreeHeight = 2
  D = 3
  NumChains = 3
  W = 4
  WordBits = 2
  Indices <- MCIndices
  Digits <- MCDigits
  MaxSigns = 2
INVARIANTS
  PkRecovered
  NoDominance
  OpensAsSigned
  AlteredGivesNothing
  AddressesAgree
CHECK_DEADLOCK FALSE
