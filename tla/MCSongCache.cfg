SPECIFICATION Spec
CONSTANTS
  a = a
  b = b
  long = long
  short = short
  Songs <- MCSongs
  Recordings <- MCRecordings
  Size <- MCSize
  Serves <- MCServes
  Declared <- MCDeclared
  MinSize = 0
  MaxFiles = 1
  NoSong = NoSong
  MaxPlays = 4
  MaxFaults = 1
INVARIANTS TypeOK NoHalfFile TrustedIsLongEnough
PROPERTIES PlayedFileIsThere AnswersAreOursInOneLife
CHECK_DEADLOCK FALSE
