SPECIFICATION Spec
CONSTANTS
  a = a
  b = b
  Socks = {a, b}
  Fds <- MCFds
  Modes = {FALSE}
  Addresses = {2}
  Kinds = {"default", "client", "given"}
SYMMETRY Symmetry
INVARIANTS TypeOK OwnsHandle NothingElseLeaks
PROPERTIES ConnectReports
CHECK_DEADLOCK FALSE
