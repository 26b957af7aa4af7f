SPECIFICATION FairSpec
CONSTANTS
  Threads = {"main", "player"}
  Main = "main"
  Player = "player"
  NoThread = "nobody"
  MaxMsgs = 1
  Words <- MCWords
  Rank <- MCRank
  BuiltIn <- MCBuiltIn
  Modules = {"mplayer", "finder", "opener", "clash", "half", "noname", "libc"}
  Kind <- MCKind
  NoWord = "none"
  Core = "core"
  MaxRefs = 1
  LibFiles = {"a", "b", "c"}
  LibNames = {"rock", "rocks"}
  Begins <- MCBegins
  Absent = "absent"
  Junk = "junk"
  Disks <- MCDisks
  MaxMaps = 2
  Typed <- MCTyped
  Scripts <- MCScripts
INVARIANTS TypeOK EachOnce CommandsSorted ListsSound OpenSound FindsNamed CurrentOpen ScriptWhole
CHECK_DEADLOCK FALSE
PROPERTIES MessagesQueued ScriptEnds
