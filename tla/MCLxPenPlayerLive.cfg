SPECIFICATION FairSpec
CONSTANTS
  a = a
  b = b
  Songs <- MCSongs
  NoSource = {b}
  Queues <- MCLiveQueues
  Duration <- MCDuration
  Sessions = {s1, s2, s3}
  NoSession = NoSession
  File = File
  Foreign = Foreign
  NoSong = NoSong
  Swallow = 0
  Guard = 0
  MaxEnds = 0
PROPERTIES RequestIsAnswered LockIsReleased
CHECK_DEADLOCK FALSE
