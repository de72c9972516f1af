SPECIFICATION FairSpec
CONSTANTS
  Commands = {"ping1", "ping2", "search", "link", "fetch", "long", "quit"}
  From <- CmdFrom
  What <- CmdWhat
  Size <- CmdSize
  Loads <- CmdLoads
  ReadMax = 3
  Capacity = 6
  Attempts = 2
  IdleLimit = 1
  Slots = 2
  Delays = {0, 1}
INVARIANTS
  TypeOK
  LinesSurvive
  TimersAgree
  RequestsAccounted
  AnswersReachTheFile
PROPERTIES
  IdleExitIsAfterSilence
  CommandIsAnswered
CHECK_DEADLOCK FALSE
