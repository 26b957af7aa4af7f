SPECIFICATION Spec
CONSTANTS
  g = g  a = a  b = b  long = long
  Global = g
  Names = {g, a, long}
  LongNames = {long}
  Truncated <- MCTruncated
  Paths = {1, 2}
  PathLen <- MCPagePathLen
  U32 = 5000
  PageSize = 4096
  Faults = {"move", "write", "ftruncate"}
  MaxLen = 2100
INVARIANTS FileCovers StringsSound
PROPERTY LosesOne
CHECK_DEADLOCK FALSE
