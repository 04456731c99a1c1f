CONSTANTS
  None = None
  Timeout = 2
  Late = TRUE
  Script <- MainScript
  ResetStep <- MainResetStep
  Replies <- MainReplies
SPECIFICATION Spec
INVARIANT ResultAnswersItsCommand
CHECK_DEADLOCK FALSE
