SPECIFICATION Spec
CONSTANTS
  TreeHeight = 2
  D = 2
  ForsHeight = 3
  ForsTrees = 3
  Keys = {k1, k2}
  Messages = {m1}
  Optrands = {o1, o2}
  Digests <- MCDigests
  Nothing = Nothing
  MaxSigns = 2
SYMMETRY Symmetry
INVARIANTS
  OpensIffSigned
  AddressUnique
  OneTimeKey
  EveryBitCounts
CHECK_DEADLOCK FALSE
