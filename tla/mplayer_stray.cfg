SPECIFICATION MSpec
CONSTANTS
  Threads = {t1, t2}
  Playlists = {"list"}
  Paths = {"song"}
  Engines <- MCMplayerOnly
  NoEngine = NoEngine
  Nobody = Nobody
  NoElem = NoElem
  Freed = Freed
  Acts = {}
  Fds = {3, 4, 5}
  ForkFails = FALSE
INVARIANT LibraryUntouched
CHECK_DEADLOCK FALSE
