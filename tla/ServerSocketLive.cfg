CONSTANTS
  s1 = s1
  s2 = s2
  Servers = {s1}
  Port <- OnePort
  MAX_SOCK_NUM = 1
  ListenOutcomes = {"CLOSED", "INIT", "LISTEN"}
  kDisconnectMaxMillis = 2
  SketchOps = {}
  EarlyStatuses = {"UNDOCUMENTED", "SYNRECV", "CLOSED", "LISTEN"}
SPECIFICATION LiveSpec
PROPERTIES
  SocketRecovers
  DisconnectReported
  ConnectionAnnounced
