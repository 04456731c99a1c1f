CONSTANTS
  PadByte = 255
  BankSize = 4
  MaxLines = 3
  Lines <- WellFormedLines
  Inf = Inf
  Missing = Missing
  Invalid = Invalid
  NoFile = NoFile
SPECIFICATION Spec
INVARIANT TypeOK
INVARIANT BufferMatchesScan
PROPERTY ImplementsImageSpec
\* hex_to_bin returns after its last step; termination is part of the property
CHECK_DEADLOCK FALSE
