SPECIFICATION MCSpec
CONSTANTS
  Messages = {frame, raw}
  Dispatcher = TRUE
  Frames = {frame}
  Oversize = {raw}
  MaxDials = 2
  MaxFaults = 5
  MaxSends = 2
  Configs <- MCConfigs
INVARIANTS AnswersInOrder NoncesAgree DelayIsNextDelay
PROPERTIES ConnectReturns SentIsAnswered
CHECK_DEADLOCK FALSE
