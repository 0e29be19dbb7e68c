SPECIFICATION FairSpec
CONSTANTS
  Byte = {lf, nul}
  LF = lf
  NUL = nul
  CR = nul
  Junk = junk
  InitCap = 2
  LowWater = 1
  MaxCap = 3
  MaxSent = 4
  Calls = {"readLine", "readString", "peekLine", "readBytes"}
  Lengths = {3, 4}
  Modes = {TRUE, FALSE}
  Blocks <- MCBlocks
INVARIANTS TypeOK WindowHolds RecvHasRoom SkippedHasNoEnd BlockHolds
PROPERTIES ImplementsByteStream ReadsReturn ArrivedLineIsRead
