SPECIFICATION Spec
CONSTANTS
  a = a
  b = b
  Songs <- MCSongs
  NoSource = {}
  Queues <- MCQueues
  Duration <- MCDuration
  Sessions = {s1, s2, s3}
  NoSession = NoSession
  File = File
  Foreign = Foreign
  NoSong = NoSong
  Swallow = 1
  Guard = 2
  MaxEnds = 1
SYMMETRY SessionSymmetry
INVARIANTS TypeOK WorkIsOwed PollersRun
PROPERTIES RequestIsKept OneAdvancePerEnd EndedSongIsCurrent PlaysWhatIsWanted
CHECK_DEADLOCK FALSE
