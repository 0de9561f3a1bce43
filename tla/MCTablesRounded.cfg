SPECIFICATION SpecParts
CONSTANTS
  TreeHeight = 4
  IdxOffset = 32
  Subtree <- MCSubtree
  Oids <- MCOids
  BdsKs <- MCBdsKs
  WArray <- MCWArray
  MArray <- MCMArray
  Unwritten = Unwritten
INVARIANT
  T1AsCommented
CHECK_DEADLOCK FALSE
