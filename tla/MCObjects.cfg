SPECIFICATION Spec
CONSTANTS
  Ids = {1, 2, 3, 4, 5, 6}
  MaxSize = 2
INVARIANTS TypeOK OneOwner OnlyKnownLeaks CrashExplained
\* A process that has crashed does nothing more.
CHECK_DEADLOCK FALSE
