SPECIFICATION FairSpec
CONSTANTS
  Threads = {t1, t2, t3}
  Playlists = {"list"}
  Paths = {"song"}
  Engines <- MCEngines
  NoEngine = NoEngine
  Nobody = Nobody
  NoElem = NoElem
  Freed = Freed
  Acts = {"close", "change"}
INVARIANTS TypeOK OneThread ElemOwned
PROPERTY ThreadsEnd
CHECK_DEADLOCK FALSE
