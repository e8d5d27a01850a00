SPECIFICATION Spec
CONSTANTS
  e1 = e1
  e2 = e2
  d1 = d1
  NULL = NULL
  Fd <- MCFdTwo
  EventId <- MCEventId
  DnsId <- MCDnsId
  MaxBatch = 1
  MaxDepth = 5
  ConnectMayFail = TRUE
  ListenLate = TRUE
SYMMETRY Symmetric
INVARIANTS ToldOnce
CHECK_DEADLOCK FALSE
