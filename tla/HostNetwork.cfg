CONSTANTS
  kMaxSockets = 2
  TcpPorts = {80, 81}
  Lookup <- MapPort80
  MaxBytes = 2
  MaxBacklog = 2
  FcntlMayFail = TRUE
SPECIFICATION Spec
CHECK_DEADLOCK FALSE
INVARIANTS
  TypeOK
  OneRole
  ReadsInOrder
  DescriptorsAgree
  
