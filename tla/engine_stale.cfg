SPECIFICATION Spec
CONSTANTS
  Threads = {t1}
  Playlists = {"list"}
  Paths = {"song"}
  Engines <- MCEngines
  NoEngine = NoEngine
  Nobody = Nobody
  NoElem = NoElem
  Freed = Freed
  Acts = {"close", "change"}
INVARIANT ReadsLive
CHECK_DEADLOCK FALSE
