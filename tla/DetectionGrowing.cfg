SPECIFICATION DetectionSpec
CONSTANTS
  None = None
  Logs <- MCLogs
  PageLimit = 2
  LookbackLimit = 1
  PendingLimit = 6
  TypedLimit = 1
  Growing = TRUE
INVARIANT RelationsSurvivePages
CHECK_DEADLOCK FALSE
