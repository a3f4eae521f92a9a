CONSTANTS
  kMaxSockets = 2
  TcpPorts = {80, 81}
  Lookup <- MapPort80
  MaxBytes = 2
  MaxBacklog = 1
  FcntlMayFail = FALSE
SPECIFICATION Spec
CHECK_DEADLOCK FALSE
INVARIANTS
  PeekOnlyShows
