CONSTANTS
  PadByte = 255
  BankSize = 4
  MaxLines = 3
  Lines <- TruncatedLines
  Inf = Inf
  Missing = Missing
  Invalid = Invalid
  NoFile = NoFile
SPECIFICATION Spec
PROPERTY ImplementsImageSpec
\* hex_to_bin returns after its last step; termination is part of the property
CHECK_DEADLOCK FALSE
