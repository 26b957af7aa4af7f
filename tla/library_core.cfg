SPECIFICATION Spec
CONSTANTS
  g = g  a = a  b = b  long = long
  Global = g
  Names = {g, a, b}
  LongNames = {}
  Truncated <- MCTruncated
  Paths = {1, 2, 3}
  PathLen <- MCPathLen
  U32 = 1000000
  PageSize = 65536
  Faults = {"write", "mmap", "msync"}
  MaxLen = 2000
SYMMETRY MCSymmetry
INVARIANTS TypeOK Layout WalkComplete StringsSound SortedOnce CountsMatch NamesUnique
PROPERTIES AlsoGlobal ChangesOne StoreImplements
