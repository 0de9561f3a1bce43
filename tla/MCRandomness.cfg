SPECIFICATION SpecParts
CONSTANTS
  Chunk = 3
  MaxLen = 7
  MaxCalls = 2
  DrbgBlock = 4
  Seeds = {"e1", "e2"}
  Strings <- MCStrings
  NULL = NULL
  DrbgLengths = {0, 1, 4, 5, 9}
  MaxInits = 2
  MaxDraws = 3
  XofBlock = 2
  Radix = 2
  CtrBytes = 3
  Lengths <- MCLengths
  Requests <- MCLengths
  Records = 2
  SigBytes = 100
  Garbage = {0, 133}
  Programs = {"generate", "check_v1", "check", "single"}
  MaxRuns = 2
INVARIANTS
  Filled
  BlocksFresh
  KeyErased
  VerifiedTogether
PROPERTIES
  WrittenOnce
  Returns
  ImplementsXof
  Ends
CHECK_DEADLOCK FALSE
