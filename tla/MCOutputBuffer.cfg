SPECIFICATION FairSpec
CONSTANTS
  Callers = {"once", "writer"}
  Modes = {TRUE, FALSE}
  Externals = {TRUE, FALSE}
  InitCap = 2
  MaxArray = 3
  KernelRoom = 2
  Lengths = {1, 3}
  MaxAsked = 8
INVARIANTS TypeOK BufferHolds WriterKeepsAll
PROPERTIES ImplementsByteSink BlockEnds
\* Once MaxAsked bytes were handed over and the connection is gone nothing is left to do.
CHECK_DEADLOCK FALSE
