CONSTANTS
  Mids = {1, 2}
  Nics = {1, 2}
  Samples <- Numbers
  Leases <- Lease
  Ouis <- Prefixes
  NoOui = NoOui
  None = None
  MaxBoots = 3
SPECIFICATION Spec
CHECK_DEADLOCK FALSE
INVARIANTS
  TypeOK
  SameAddresses
  UsableNetwork
  HardwareFound
