CONSTANTS
  ClockModulus = 16
  kDisconnectMaxMillis = 5
  MaxGap = 3
SPECIFICATION Spec
INVARIANTS
  TimeoutIsTrue
  ClosesInTime
