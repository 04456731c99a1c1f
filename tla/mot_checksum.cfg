CONSTANTS
  PadArg = 255
  MaxLines = 3
  Lines <- ChecksumLines
  Inf = Inf
  Missing = Missing
  Invalid = Invalid
  NoFile = NoFile
SPECIFICATION Spec
INVARIANT TypeOK
INVARIANT ChecksumGate
\* the program exits after the second call of mot2bin returns
CHECK_DEADLOCK FALSE
