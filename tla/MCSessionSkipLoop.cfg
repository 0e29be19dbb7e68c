SPECIFICATION FairSpec
CONSTANTS
  Conns = {c1}
  ArgLists <- MCOneArg
  Repeats = {0}
  MaxConn = 1
  MaxReq = 2
  MaxPieces = 1
PROPERTY UploadReturns
\* The process may be stuck in the skip loop, or have crashed.
CHECK_DEADLOCK FALSE
