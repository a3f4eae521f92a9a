CONSTANTS
  kMaxSockets = 2
  TcpPorts = {80, 81}
  Lookup <- MapPort80
  MaxBytes = 1
  MaxBacklog = 1
  FcntlMayFail = TRUE
SPECIFICATION EthernetSpec
CHECK_DEADLOCK FALSE
INVARIANTS
  SketchTypeOK
  OneListener
  ServesItsPort
  
PROPERTIES
  ReturnsReadable
