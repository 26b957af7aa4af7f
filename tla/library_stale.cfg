SPECIFICATION Spec
CONSTANTS
  g = g  a = a  b = b  long = long
  Global = g
  Names = {g, a}
  LongNames = {}
  Truncated <- MCTruncated
  Paths = {1, 2, 3}
  PathLen <- MCLongPathLen
  U32 = 1000000
  PageSize = 4096
  Faults = {}
  MaxLen = 9000
INVARIANT CountsMatch
CHECK_DEADLOCK FALSE
