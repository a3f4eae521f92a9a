CONSTANTS
  s1 = s1
  s2 = s2
  Servers = {s1, s2}
  Port <- DistinctPort
  MAX_SOCK_NUM = 2
  ListenOutcomes = {"CLOSED", "INIT", "LISTEN"}
  kDisconnectMaxMillis = 0
  SketchOps = {"ReleaseSocket", "SocketLost", "foreign"}
  EarlyStatuses = {}
SPECIFICATION Spec
INVARIANTS
  ExclusiveBinding
  ClosingHasDeadline
  PollAssertions
