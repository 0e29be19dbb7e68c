SPECIFICATION FairSpec
CONSTANTS
  w = w
  r = r
  shared = shared
  mine = mine
  copy1 = copy1
  copy2 = copy2
  Threads = {w, r}
  Vars = {shared, mine, copy1, copy2}
  Owner <- MCOwner
  Shared = {shared}
  Written = {shared}
  MaxCounters = 3
INVARIANTS TypeOK NoUseAfterFree CountsReferences
PROPERTIES GarbageIsFreed
