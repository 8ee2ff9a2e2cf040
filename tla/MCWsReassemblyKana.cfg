SPECIFICATION Spec
CONSTANTS
  Streams <- Kana
  ByteXor <- MCXor
  Stale = {0}
INVARIANT
  TextIsParsed
CHECK_DEADLOCK FALSE
