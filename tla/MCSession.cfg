SPECIFICATION FairSpec
CONSTANTS
  Conns = {c1}
  ArgLists <- MCArgLists
  Repeats = {0, 1}
  MaxConn = 2
  MaxReq = 3
  MaxPieces = 1
INVARIANTS TypeOK OneConnection OwnReply NothingLeaks
PROPERTIES CallsReturn ConnectTellsStatus
\* The process may be stuck in the skip loop, or have crashed.
CHECK_DEADLOCK FALSE
