CONSTANTS
  s1 = s1
  s2 = s2
  Servers = {s1, s2}
  Port <- DistinctPort
  MAX_SOCK_NUM = 2
  ListenOutcomes = {"CLOSED", "INIT", "LISTEN"}
  kDisconnectMaxMillis = 1
  SketchOps = {"SocketLost", "foreign"}
  EarlyStatuses = {"UNDOCUMENTED", "SYNRECV", "CLOSED", "LISTEN"}
SPECIFICATION Spec
INVARIANTS
  TypeOK
  ExclusiveBinding
  SessionAgrees
  ClosingHasDeadline
  ConnectionAssertions
PROPERTIES
  FinAfterFlush
  ListenerContractHolds
