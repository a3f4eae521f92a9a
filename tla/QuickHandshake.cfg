CONSTANTS
  s1 = s1
  s2 = s2
  Servers = {s1}
  Port <- OnePort
  MAX_SOCK_NUM = 1
  ListenOutcomes = {"LISTEN"}
  kDisconnectMaxMillis = 1
  SketchOps = {}
  EarlyStatuses = {"UNDOCUMENTED", "SYNRECV", "CLOSED", "LISTEN", "ESTABLISHED", "CLOSE_WAIT"}
SPECIFICATION Spec
PROPERTY
  ListenerContractHolds
