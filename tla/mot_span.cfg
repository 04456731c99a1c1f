CONSTANTS
  PadArg = 255
  MaxLines = 2
  Lines <- SpanLines
  Inf = Inf
  Missing = Missing
  Invalid = Invalid
  NoFile = NoFile
SPECIFICATION Spec
INVARIANT OutputIsImage
\* the program exits after the second call of mot2bin returns
CHECK_DEADLOCK FALSE
