SPECIFICATION MFairSpec
CONSTANTS
  Threads = {t1, t2}
  Playlists = {"list"}
  Paths = {"song"}
  Engines <- MCMplayerOnly
  NoEngine = NoEngine
  Nobody = Nobody
  NoElem = NoElem
  Freed = Freed
  Acts = {"close"}
  Fds = {3, 4, 5}
  ForkFails = TRUE
INVARIANTS MTypeOK LibHeld PipeHeld Reaped
PROPERTY ImplementsEngine
CHECK_DEADLOCK FALSE
