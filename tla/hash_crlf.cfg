CONSTANTS
  IndexError = IndexError
  Names <- CrNames
SPECIFICATION Spec
INVARIANT CarriageReturnEndsName
