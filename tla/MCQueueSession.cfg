SPECIFICATION Spec
CONSTANTS
  Lists = {"short", "long"}
  Size <- ListSize
INVARIANTS
  TypeOK
  PageFollowsPlayer
PROPERTIES
  ReopenRestoresTheSong
  ForgottenStaysForgotten
CHECK_DEADLOCK FALSE
