CONSTANTS
  s1 = s1
  s2 = s2
  Servers = {s1}
  Port <- OnePort
  MAX_SOCK_NUM = 1
  ListenOutcomes = {"LISTEN"}
  kDisconnectMaxMillis = 1
  SketchOps = {"ReleaseSocket"}
  EarlyStatuses = {"UNDOCUMENTED", "SYNRECV", "CLOSED", "LISTEN"}
SPECIFICATION Spec
INVARIANT
  ReleaseInforms
