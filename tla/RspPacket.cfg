SPECIFICATION Spec
CONSTANTS
  BUF_MAX = 6
  MaxRequests = 3
  MaxGarbled = 1
  MaxBreaks = 1
PROPERTY RepliesMatch
PROPERTY AskAnswered
CHECK_DEADLOCK FALSE
