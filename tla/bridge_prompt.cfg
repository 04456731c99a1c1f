CONSTANTS
  None = None
  Timeout = 2
  Late = FALSE
  Script <- MainScript
  ResetStep <- MainResetStep
  Replies <- MainReplies
SPECIFICATION Spec
INVARIANT TypeOK
INVARIANT TimedOutWithoutAnswer
PROPERTY ImplementsBridgeRpc
CHECK_DEADLOCK FALSE
