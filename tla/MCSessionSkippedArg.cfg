SPECIFICATION Spec
CONSTANTS
  Conns = {c1}
  ArgLists <- MCSkippedArg
  Repeats = {0}
  MaxConn = 1
  MaxReq = 2
  MaxPieces = 1
INVARIANT UploadSendsAll
\* The process may be stuck in the skip loop, or have crashed.
CHECK_DEADLOCK FALSE
