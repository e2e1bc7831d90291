\* The sizes are scaled so that a request overflows the vector; the width of
\* integers and kCheapPrepend are the code's.
SPECIFICATION Spec
CONSTANTS
  CheapPrepend = 8
  InitialSize = 4
  ExtraSize = 6
  RawBytes = 5
  Byte <- MCByte
  Dead <- MCDead
  Zero <- MCZero
  Scripts <- MCScripts
INVARIANTS AnswersMatchRequests
PROPERTY BufferIsAQueue
CHECK_DEADLOCK FALSE
