SPECIFICATION SpecParts
CONSTANTS
  TreeHeight = 4
  IdxOffset = 32
  Subtree <- MCSubtree
  Oids <- MCOids
  BdsKs <- MCBdsKs
  WArray <- MCWArray
  MArray <- MCMArray
  Unwritten = Unwritten
INVARIANTS
  TypeOK
  StackBound
  Frontier
  TreehashCorrect
  KeysKeepTheirParameters
  SizesAndLayoutFit
  RowsRight
CHECK_DEADLOCK FALSE
