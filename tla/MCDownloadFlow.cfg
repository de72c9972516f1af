SPECIFICATION FairSpec
CONSTANTS
  Songs = {"song", "better", "other"}
  Path <- SongPath
  Declared = {"song", "better"}
  Total = 2
  ListMax = 1
  MaxTaps = 2
  Inodes = {1, 2, 3, 4, 5, 6, 7, 8}
  Loads <- UserLoads
INVARIANTS
  TypeOK
  NothingLeftBehind
PROPERTIES
  ListedIsComplete
  ListedIsLeftAlone
  DownloadIsDecided
CHECK_DEADLOCK FALSE
