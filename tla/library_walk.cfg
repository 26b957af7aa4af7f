SPECIFICATION Spec
CONSTANTS
  Global = "global"
  Names = {"global", "a", "b"}
  LongNames = {}
  Truncated <- MCTruncated
  Paths = {1, 2, 3}
  PathLen <- MCPathLen
  U32 = 1000000
  PageSize = 65536
  Faults = {}
  NoName = "none"
  Empty = 0
  Stray = 99
  MaxLen = 1850
INVARIANT NextIsAnother
CHECK_DEADLOCK FALSE
