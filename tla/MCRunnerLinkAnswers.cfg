SPECIFICATION FairSpec
CONSTANTS
  good = good
  broken = broken
  stuck = stuck
  Scripts = {good, broken, stuck}
  Kind <- MCKind
  Ids = {1, 2}
  PingLimit = 2
  MaxLives = 2
  MaxAsked = 1
  MaxPings = 2
  MaxOut = 1
PROPERTY AnswersMatchRequests
CHECK_DEADLOCK FALSE
