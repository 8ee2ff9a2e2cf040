SPECIFICATION Spec
CONSTANTS
  Streams <- Plain
  ByteXor <- MCXor
  Stale = {0, 126, 127, 255}
INVARIANTS
  TypeOK
  TextIsParsed
  CrashIsInHeader
CHECK_DEADLOCK FALSE
